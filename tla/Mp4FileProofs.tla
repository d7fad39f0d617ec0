---------------------------- MODULE Mp4FileProofs ----------------------------
(***************************************************************************)
(* Mp4File's properties, proved for every list of tracks, every packet, any *)
(* number of them, every layout in chunks and every pair of time scales     *)
(* with no more ticks than units in a second.                               *)
(*                                                                          *)
(* The inductive invariant is FileInv, whose parts Mp4File states: the      *)
(* muxer's tables tell the packets written but the one that waits           *)
(* (WrittenInv), the tables in the file tell them all (MovieInv), and each  *)
(* cursor is where the tables say its sample is (CursorInv).  The lemmas    *)
(* come in that order: sums, runs, groups and key frames; a cursor and its  *)
(* step; the muxer's tables; the other layout; times; seeks; reads.         *)
(***************************************************************************)
EXTENDS Mp4File, WellFoundedInduction, TLAPS


\* A set of numbers that is not empty has a least element.
LEMMA LeastNat ==
  ASSUME NEW S, S \subseteq Nat, S # {}
  PROVE  \E m \in S : \A n \in S : m <= n
<1> DEFINE R == OpToRel(<, Nat)
<1>1. IsWellFoundedOn(R, Nat)
  BY NatLessThanWellFounded, Zenon
<1>2. \A m, n \in Nat : <<m, n>> \in R <=> m < n
  BY DEF OpToRel
<1> HIDE DEF R
<1>3. PICK m \in S : \A n \in S : ~(<<n, m>> \in R)
  BY <1>1, WFMin, Zenon
<1>4. \A n \in S : ~(n < m)
  BY <1>2, <1>3
<1> QED BY <1>4

\* Induction over a set of numbers.
LEMMA Induction ==
  ASSUME NEW P, 0 \in P, \A n \in Nat : n \in P => n + 1 \in P
  PROVE  \A n \in Nat : n \in P
<1> DEFINE S == Nat \ P
<1>1. SUFFICES ASSUME S # {} PROVE FALSE
  OBVIOUS
<1>2. PICK n \in S : \A j \in S : n <= j
  <2>1. S \subseteq Nat
    OBVIOUS
  <2> HIDE DEF S
  <2> QED BY <1>1, <2>1, LeastNat
<1>3. n # 0 /\ n - 1 \in Nat /\ n - 1 \notin S
  BY <1>2
<1> QED BY <1>3

\* f unfolds the recursion that begins at base and goes on with step, up to n.
Unfolds(f, X, base, step, n) ==
  /\ f \in [0..n -> X]
  /\ f[0] = base
  /\ \A i \in 1..n : f[i] = step[i][f[i - 1]]

\* Every recursion on the numbers up to n has a solution.
LEMMA Recursion ==
  ASSUME NEW X, NEW base \in X, NEW step \in [Nat -> [X -> X]]
  PROVE  \A n \in Nat : \E f : Unfolds(f, X, base, step, n)
<1> DEFINE P == {n \in Nat : \E f : Unfolds(f, X, base, step, n)}
<1>1. 0 \in P
  <2>1. Unfolds([i \in 0..0 |-> base], X, base, step, 0)
    BY DEF Unfolds
  <2> QED BY <2>1
<1>2. ASSUME NEW n \in Nat, n \in P PROVE n + 1 \in P
  <2>1. PICK f : Unfolds(f, X, base, step, n)
    BY <1>2
  <2> DEFINE g == [i \in 0..n + 1 |-> IF i = n + 1 THEN step[n + 1][f[n]] ELSE f[i]]
  <2>2. Unfolds(g, X, base, step, n + 1)
    <3>1. f \in [0..n -> X] /\ step[n + 1][f[n]] \in X
      BY <2>1 DEF Unfolds
    <3>2. g \in [0..n + 1 -> X] /\ g[0] = base
      BY <2>1, <3>1 DEF Unfolds
    <3>3. ASSUME NEW i \in 1..n + 1
          PROVE  g[i] = step[i][g[i - 1]]
      <4>1. CASE i = n + 1
        <5>1. g[i] = step[n + 1][f[n]] /\ i - 1 = n /\ g[n] = f[n]
          BY <4>1
        <5> QED BY <4>1, <5>1
      <4>2. CASE i # n + 1
        <5>1. i \in 1..n /\ g[i] = f[i] /\ g[i - 1] = f[i - 1]
          BY <4>2
        <5> QED BY <2>1, <5>1 DEF Unfolds
      <4> QED BY <4>1, <4>2
    <3> HIDE DEF g
    <3> QED BY <3>2, <3>3 DEF Unfolds
  <2> QED BY <2>2
<1> HIDE DEF P
<1>3. \A n \in Nat : n \in P
  BY <1>1, <1>2, Induction
<1> QED BY <1>3 DEF P

\* Two recursions that begin alike and go on alike are the same.
LEMMA SameTo ==
  ASSUME NEW n \in Nat, NEW f, NEW g, f[0] = g[0],
         \A i \in 1..n : f[i - 1] = g[i - 1] => f[i] = g[i]
  PROVE  \A i \in 0..n : f[i] = g[i]
<1> DEFINE P == {i \in Nat : i <= n => f[i] = g[i]}
<1>1. 0 \in P
  OBVIOUS
<1>2. ASSUME NEW i \in Nat, i \in P PROVE i + 1 \in P
  <2> SUFFICES ASSUME i + 1 <= n PROVE f[i + 1] = g[i + 1]
    OBVIOUS
  <2>1. i + 1 \in 1..n /\ (i + 1) - 1 = i /\ f[i] = g[i]
    BY <1>2
  <2> QED BY <2>1
<1> HIDE DEF P
<1>3. \A i \in Nat : i \in P
  BY <1>1, <1>2, Induction
<1> QED BY <1>3 DEF P

\* What a sequence is.
LEMMA SeqFacts ==
  ASSUME NEW X, NEW s \in Seq(X)
  PROVE  /\ Len(s) \in Nat /\ DOMAIN s = 1..Len(s) /\ \A i \in 1..Len(s) : s[i] \in X
         /\ s = <<>> <=> Len(s) = 0
  OBVIOUS

\* A function on the numbers up to n, given by its values, is a sequence.
LEMMA MakesSeq ==
  ASSUME NEW X, NEW n \in Nat, NEW f, f = [i \in 1..n |-> f[i]], \A i \in 1..n : f[i] \in X
  PROVE  f \in Seq(X) /\ Len(f) = n /\ DOMAIN f = 1..n
<1>1. [i \in 1..n |-> f[i]] \in Seq(X) /\ Len([i \in 1..n |-> f[i]]) = n /\ DOMAIN [i \in 1..n |-> f[i]] = 1..n
  OBVIOUS
<1> QED BY <1>1

-----------------------------------------------------------------------------
(* Sums. *)
\* The recursion of SumTo, unfolded.
SumsTo(h, s, n) == h = [i \in 0..n |-> IF i = 0 THEN 0 ELSE h[i - 1] + s[i]]

\* The entries of the function that SumTo chooses.
LEMMA SumEntries ==
  ASSUME NEW h, NEW s, NEW n \in Nat, SumsTo(h, s, n)
  PROVE  h[0] = 0 /\ \A i \in 1..n : h[i] = h[i - 1] + s[i]
<1>1. \A i \in 0..n : h[i] = IF i = 0 THEN 0 ELSE h[i - 1] + s[i]
  BY DEF SumsTo
<1>2. 0 \in 0..n /\ \A i \in 1..n : i \in 0..n /\ i # 0
  OBVIOUS
<1> QED BY <1>1, <1>2

\* SumTo is the last entry of a function of running sums.
LEMMA SumUnfolds ==
  ASSUME NEW s, NEW n \in Nat, \A i \in 1..n : s[i] \in Int
  PROVE  \E h : SumsTo(h, s, n) /\ h \in [0..n -> Int] /\ SumTo(s, n) = h[n]
<1> DEFINE step == [i \in Nat |-> [m \in Int |-> IF i \in 1..n THEN m + s[i] ELSE m]]
           h == CHOOSE h : SumsTo(h, s, n)
<1>1. step \in [Nat -> [Int -> Int]] /\ 0 \in Int
  OBVIOUS
<1>2. \A i \in 1..n, m \in Int : step[i][m] = m + s[i]
  OBVIOUS
<1> HIDE DEF step
<1>3. PICK f : Unfolds(f, Int, 0, step, n)
  BY <1>1, Recursion
<1>4. \A i \in 0..n : f[i] \in Int /\ f[i] = IF i = 0 THEN 0 ELSE f[i - 1] + s[i]
  <2> TAKE i \in 0..n
  <2>1. CASE i = 0
    BY <1>3, <2>1 DEF Unfolds
  <2>2. CASE i # 0
    <3>1. i \in 1..n /\ i - 1 \in 0..n
      BY <2>2
    <3>2. f[i - 1] \in Int /\ f[i] = step[i][f[i - 1]] /\ f[i] \in Int
      BY <1>3, <3>1 DEF Unfolds
    <3> QED BY <1>2, <2>2, <3>1, <3>2
  <2> QED BY <2>1, <2>2
<1>5. SumsTo(f, s, n)
  BY <1>3, <1>4 DEF Unfolds, SumsTo
<1>6. SumsTo(h, s, n)
  BY <1>5
<1>7. SumTo(s, n) = h[n]
  BY DEF SumTo, SumsTo
<1> HIDE DEF h
<1>8. h \in [0..n -> Int]
  <2>1. h[0] = f[0] /\ \A i \in 1..n : h[i - 1] = f[i - 1] => h[i] = f[i]
    <3>1. f[0] = 0 /\ \A i \in 1..n : f[i] = f[i - 1] + s[i]
      BY <1>5, SumEntries
    <3>2. h[0] = 0 /\ \A i \in 1..n : h[i] = h[i - 1] + s[i]
      BY <1>6, SumEntries
    <3> QED BY <3>1, <3>2
  <2>2. \A i \in 0..n : h[i] = f[i]
    BY <2>1, SameTo, ZenonT(60)
  <2>3. h = [i \in 0..n |-> h[i]]
    BY <1>6 DEF SumsTo
  <2> QED BY <1>4, <2>2, <2>3
<1> QED BY <1>6, <1>7, <1>8

\* A sum of as many entries of two sequences that agree so far.
LEMMA SumAgrees ==
  ASSUME NEW s, NEW r, NEW n \in Nat, \A i \in 1..n : s[i] \in Int /\ r[i] = s[i]
  PROVE  SumTo(r, n) = SumTo(s, n)
<1>1. PICK h : SumsTo(h, s, n) /\ SumTo(s, n) = h[n]
  BY SumUnfolds
<1>2. PICK g : SumsTo(g, r, n) /\ SumTo(r, n) = g[n]
  BY SumUnfolds
<1>3. g[0] = h[0] /\ \A i \in 1..n : g[i - 1] = h[i - 1] => g[i] = h[i]
  BY <1>1, <1>2, SumEntries
<1>4. \A i \in 0..n : g[i] = h[i]
  BY <1>3, SameTo, ZenonT(60)
<1> QED BY <1>1, <1>2, <1>4

\* What a sum is of nothing and of one more.
LEMMA SumFacts ==
  ASSUME NEW s, NEW n \in Nat, \A i \in 1..n : s[i] \in Int
  PROVE  /\ SumTo(s, 0) = 0 /\ SumTo(s, n) \in Int
         /\ n > 0 => SumTo(s, n) = SumTo(s, n - 1) + s[n]
<1>1. SumTo(s, 0) = 0
  <2>1. PICK h : SumsTo(h, s, 0) /\ SumTo(s, 0) = h[0]
    BY SumUnfolds
  <2> QED BY <2>1 DEF SumsTo
<1>2. PICK h : SumsTo(h, s, n) /\ h \in [0..n -> Int] /\ SumTo(s, n) = h[n]
  BY SumUnfolds
<1>3. ASSUME n > 0 PROVE SumTo(s, n) = SumTo(s, n - 1) + s[n]
  <2>1. n - 1 \in Nat /\ \A i \in 1..n - 1 : s[i] \in Int
    BY <1>3
  <2>2. PICK g : SumsTo(g, s, n - 1) /\ SumTo(s, n - 1) = g[n - 1]
    BY <2>1, SumUnfolds
  <2> DEFINE m == n - 1
  <2>3. h[0] = 0 /\ \A i \in 1..n : h[i] = h[i - 1] + s[i]
    BY <1>2, SumEntries
  <2>4. g[0] = 0 /\ \A i \in 1..m : g[i] = g[i - 1] + s[i]
    BY <2>1, <2>2, SumEntries
  <2>5. g[0] = h[0] /\ \A i \in 1..m : g[i - 1] = h[i - 1] => g[i] = h[i]
    BY <2>1, <2>3, <2>4
  <2>6. m \in Nat /\ m \in 0..m /\ n \in 1..n
    BY <2>1
  <2> HIDE DEF m
  <2>7. \A i \in 0..m : g[i] = h[i]
    BY <2>5, <2>6, SameTo, ZenonT(60)
  <2>8. g[m] = h[m] /\ h[n] = h[m] + s[n]
    BY <2>3, <2>6, <2>7 DEF m
  <2> QED BY <1>2, <2>2, <2>8 DEF m
<1> QED BY <1>1, <1>2, <1>3

\* A sum of counts grows with the entries.
LEMMA SumGrows ==
  ASSUME NEW s, NEW n \in Nat, \A i \in 1..n : s[i] \in Nat
  PROVE  /\ \A a \in 0..n : SumTo(s, a) \in Nat
         /\ \A a, b \in 0..n : a <= b => SumTo(s, a) <= SumTo(s, b)
<1> DEFINE S(a) == SumTo(s, a)
           P == {b \in Nat : b <= n => S(b) \in Nat /\ \A a \in 0..b : S(a) <= S(b)}
<1>1. S(0) = 0 /\ \A b \in 1..n : S(b) \in Int /\ S(b) = S(b - 1) + s[b]
  <2>1. S(0) = 0
    BY SumFacts
  <2>2. ASSUME NEW b \in 1..n PROVE S(b) \in Int /\ S(b) = S(b - 1) + s[b]
    <3>1. b \in Nat /\ b > 0 /\ \A i \in 1..b : s[i] \in Int
      OBVIOUS
    <3> QED BY <3>1, SumFacts
  <2> QED BY <2>1, <2>2
<1> HIDE DEF S
<1>2. 0 \in P
  BY <1>1
<1>3. ASSUME NEW b \in Nat, b \in P PROVE b + 1 \in P
  <2> SUFFICES ASSUME b + 1 <= n PROVE S(b + 1) \in Nat /\ \A a \in 0..b + 1 : S(a) <= S(b + 1)
    OBVIOUS
  <2>1. S(b) \in Nat /\ \A a \in 0..b : S(a) <= S(b)
    BY <1>3
  <2>2. S(b + 1) = S(b) + s[b + 1] /\ s[b + 1] \in Nat
    <3>1. b + 1 \in 1..n /\ (b + 1) - 1 = b
      OBVIOUS
    <3> QED BY <1>1, <3>1
  <2>3. ASSUME NEW a \in 0..b + 1 PROVE S(a) <= S(b + 1)
    <3>1. CASE a = b + 1
      BY <2>1, <2>2, <3>1
    <3>2. CASE a # b + 1
      <4>1. a \in 0..b /\ a \in 0..n
        BY <3>2
      <4>2. S(a) <= S(b) /\ S(a) \in Int
        <5>1. a = 0 \/ a \in 1..n
          BY <4>1
        <5> QED BY <1>1, <2>1, <4>1, <5>1
      <4> QED BY <2>1, <2>2, <4>2
    <3> QED BY <3>1, <3>2
  <2> QED BY <2>1, <2>2, <2>3
<1> HIDE DEF P
<1>4. \A b \in Nat : b \in P
  BY <1>2, <1>3, Induction
<1>5. \A a \in 0..n : S(a) \in Nat
  BY <1>4 DEF P
<1>6. \A a, b \in 0..n : a <= b => S(a) <= S(b)
  BY <1>4 DEF P
<1> QED BY <1>5, <1>6 DEF S

\* A number below the sum of counts is in one of them.
LEMMA SumCovers ==
  ASSUME NEW s, NEW n \in Nat, \A i \in 1..n : s[i] \in Nat,
         NEW x \in Nat, x < SumTo(s, n)
  PROVE  \E e \in 0..n - 1 : SumTo(s, e) <= x /\ x < SumTo(s, e + 1)
<1> DEFINE S(a) == SumTo(s, a)
           A == {b \in 0..n : x < S(b)}
<1>1. S(0) = 0 /\ \A a \in 0..n : S(a) \in Nat
  <2>1. \A i \in 1..n : s[i] \in Int
    OBVIOUS
  <2> QED BY <2>1, SumGrows, SumFacts
<1> HIDE DEF S
<1>2. n \in A /\ A \subseteq Nat
  BY DEF S
<1> HIDE DEF A
<1>3. PICK m \in A : \A b \in A : m <= b
  BY <1>2, LeastNat
<1>4. m \in 0..n /\ x < S(m)
  BY DEF A
<1>5. m # 0
  BY <1>1, <1>4
<1>6. m - 1 \in 0..n - 1 /\ (m - 1) + 1 = m /\ m - 1 \in 0..n
  BY <1>4, <1>5
<1>7. m - 1 \notin A
  BY <1>3, <1>4
<1>8. S(m - 1) <= x
  BY <1>1, <1>6, <1>7 DEF A
<1> QED BY <1>4, <1>6, <1>8 DEF S

\* A sum over entries that are all the same.
LEMMA SumAlike ==
  ASSUME NEW s, NEW a \in Nat, NEW b \in Nat, a <= b, NEW c \in Int,
         \A i \in 1..b : s[i] \in Int,
         \A i \in a + 1..b : s[i] = c
  PROVE  SumTo(s, b) = SumTo(s, a) + (b - a) * c
<1> DEFINE P == {m \in Nat : a + m <= b => SumTo(s, a + m) = SumTo(s, a) + m * c}
<1>0. SumTo(s, a) \in Int
  BY SumFacts
<1>1. 0 \in P
  BY <1>0
<1>2. ASSUME NEW m \in Nat, m \in P PROVE m + 1 \in P
  <2> SUFFICES ASSUME a + (m + 1) <= b PROVE SumTo(s, a + (m + 1)) = SumTo(s, a) + (m + 1) * c
    OBVIOUS
  <2>1. SumTo(s, a + m) = SumTo(s, a) + m * c
    BY <1>2
  <2> DEFINE k == a + (m + 1)
  <2>2. k \in Nat /\ k > 0 /\ k - 1 = a + m /\ (\A i \in 1..k : s[i] \in Int) /\ s[k] = c
    OBVIOUS
  <2> HIDE DEF k
  <2>3. SumTo(s, k) = SumTo(s, k - 1) + s[k]
    BY <2>2, SumFacts
  <2>4. (m + 1) * c = m * c + c /\ m * c \in Int
    OBVIOUS
  <2> QED BY <1>0, <2>1, <2>2, <2>3, <2>4 DEF k
<1> HIDE DEF P
<1>3. \A m \in Nat : m \in P
  BY <1>1, <1>2, Induction
<1> DEFINE d == b - a
<1>4. d \in Nat /\ a + d = b
  OBVIOUS
<1> HIDE DEF d
<1>5. SumTo(s, a + d) = SumTo(s, a) + d * c
  BY <1>3, <1>4 DEF P
<1> QED BY <1>4, <1>5 DEF d

-----------------------------------------------------------------------------
(* Entries and the places in them. *)
LEMMA InRunUnique ==
  ASSUME NEW counts, NEW N \in Nat, \A i \in 1..N : counts[i] \in Nat,
         NEW x \in Int, NEW d \in 0..N - 1, NEW e \in 0..N - 1,
         SumTo(counts, d) <= x, x < SumTo(counts, d + 1),
         SumTo(counts, e) <= x, x < SumTo(counts, e + 1)
  PROVE  d = e
<1>1. /\ \A a \in 0..N : SumTo(counts, a) \in Nat
      /\ \A a, b \in 0..N : a <= b => SumTo(counts, a) <= SumTo(counts, b)
  BY SumGrows
<1>2. d + 1 \in 0..N /\ e + 1 \in 0..N /\ d \in 0..N /\ e \in 0..N
  OBVIOUS
<1>3. CASE d < e
  <2>1. SumTo(counts, d + 1) <= SumTo(counts, e)
    BY <1>1, <1>2, <1>3
  <2> QED BY <1>1, <1>2, <2>1
<1>4. CASE e < d
  <2>1. SumTo(counts, e + 1) <= SumTo(counts, d)
    BY <1>1, <1>2, <1>4
  <2> QED BY <1>1, <1>2, <2>1
<1> QED BY <1>3, <1>4

\* The loops find an index where it is.
LEMMA LocateAt ==
  ASSUME NEW counts \in Seq(Nat), NEW x \in Nat, NEW e \in 0..Len(counts) - 1, NEW at,
         InRun(counts, x, e, at)
  PROVE  Locate(counts, x) = [found |-> TRUE, entry |-> e, at |-> at]
<1> DEFINE N == Len(counts)
           here == {d \in 0..N - 1 : SumTo(counts, d) <= x /\ x < SumTo(counts, d + 1)}
<1>1. N \in Nat /\ \A i \in 1..N : counts[i] \in Nat
  OBVIOUS
<1>2. e + 1 \in 1..N /\ e \in 0..N /\ e < N /\ (e + 1) - 1 = e
  BY <1>1
<1> HIDE DEF N
<1>3. SumTo(counts, e + 1) = SumTo(counts, e) + counts[e + 1] /\ SumTo(counts, e) \in Nat
  <2>1. e + 1 \in Nat /\ e + 1 > 0 /\ e \in Nat /\ \A i \in 1..e + 1 : counts[i] \in Int
    BY <1>1, <1>2
  <2> QED BY <1>1, <1>2, <2>1, SumFacts, SumGrows
<1>4. at \in Nat /\ x = SumTo(counts, e) + at /\ at < counts[e + 1]
  BY <1>2 DEF InRun, N
<1>5. e \in here
  BY <1>1, <1>2, <1>3, <1>4
<1>6. \A d \in here : d = e
  <2> TAKE d \in here
  <2>1. d \in 0..N - 1 /\ SumTo(counts, d) <= x /\ x < SumTo(counts, d + 1)
    OBVIOUS
  <2>2. SumTo(counts, e) <= x /\ x < SumTo(counts, e + 1) /\ e \in 0..N - 1 /\ x \in Int
    BY <1>5
  <2> HIDE DEF here
  <2> QED BY <1>1, <2>1, <2>2, InRunUnique, ZenonT(30)
<1>7. here # {} /\ (CHOOSE d \in here : TRUE) = e
  <2> HIDE DEF here
  <2> QED BY <1>5, <1>6
<1>8. Locate(counts, x) =
        IF here = {} THEN [found |-> FALSE, entry |-> 0, at |-> 0]
        ELSE [found |-> TRUE, entry |-> (CHOOSE d \in here : TRUE),
              at |-> x - SumTo(counts, (CHOOSE d \in here : TRUE))]
  BY DEF Locate, N
<1> HIDE DEF here
<1>9. x - SumTo(counts, e) = at
  BY <1>3, <1>4
<1> QED BY <1>7, <1>8, <1>9

\* Every index below the sum is found.
LEMMA LocateFinds ==
  ASSUME NEW counts \in Seq(Nat), NEW x \in Nat, x < Total(counts)
  PROVE  /\ Locate(counts, x).found
         /\ Locate(counts, x).entry \in 0..Len(counts) - 1
         /\ InRun(counts, x, Locate(counts, x).entry, Locate(counts, x).at)
<1> DEFINE N == Len(counts)
<1>1. N \in Nat /\ \A i \in 1..N : counts[i] \in Nat
  OBVIOUS
<1>2. x < SumTo(counts, N)
  BY DEF Total
<1> HIDE DEF N
<1>3. PICK e \in 0..N - 1 : SumTo(counts, e) <= x /\ x < SumTo(counts, e + 1)
  BY <1>1, <1>2, SumCovers
<1> DEFINE at == x - SumTo(counts, e)
<1>4. e + 1 \in 1..N /\ e \in 0..N /\ e < N /\ (e + 1) - 1 = e
  BY <1>1
<1>5. SumTo(counts, e + 1) = SumTo(counts, e) + counts[e + 1] /\ SumTo(counts, e) \in Nat
  <2>1. e + 1 \in Nat /\ e + 1 > 0 /\ e \in Nat /\ \A i \in 1..e + 1 : counts[i] \in Int
    BY <1>1, <1>4
  <2> QED BY <1>1, <1>4, <2>1, SumFacts, SumGrows
<1>6. counts[e + 1] \in Nat
  BY <1>1, <1>4
<1>7. at \in Nat /\ at < counts[e + 1] /\ x = SumTo(counts, e) + at
  BY <1>3, <1>5, <1>6
<1>8. InRun(counts, x, e, at)
  BY <1>4, <1>7 DEF InRun, N
<1> HIDE DEF at
<1>9. Locate(counts, x) = [found |-> TRUE, entry |-> e, at |-> at]
  BY <1>8, LocateAt DEF N
<1> QED BY <1>8, <1>9 DEF N

\* Nothing is found of nothing.
LEMMA LocateNothing ==
  ASSUME NEW x
  PROVE  Locate(<<>>, x) = [found |-> FALSE, entry |-> 0, at |-> 0]
<1>1. 0..Len(<<>>) - 1 = {}
  OBVIOUS
<1> QED BY <1>1 DEF Locate

\* One place on, and on to the next entry from the last place of one.
OnePlaceOn(counts, entry, at) == IF at + 1 = counts[entry + 1] THEN << entry + 1, 0 >> ELSE << entry, at + 1 >>
\* One sample on, the place is the next in the run or the first of the next run.
LEMMA InRunNext ==
  ASSUME NEW counts \in Seq(Nat), Positive(counts), NEW x \in Nat, NEW e \in 0..Len(counts) - 1, NEW at,
         InRun(counts, x, e, at)
  PROVE  InRun(counts, x + 1, OnePlaceOn(counts, e, at)[1], OnePlaceOn(counts, e, at)[2])
<1> DEFINE N == Len(counts)
<1>1. N \in Nat /\ \A i \in 1..N : counts[i] \in Nat \ {0}
  BY DEF Positive
<1>2. e + 1 \in 1..N /\ e \in 0..N /\ e + 1 \in 0..N /\ e < N /\ (e + 1) - 1 = e
  BY <1>1
<1>3. at \in Nat /\ x = SumTo(counts, e) + at /\ at < counts[e + 1]
  BY <1>2 DEF InRun
<1> HIDE DEF N
<1>4. SumTo(counts, e + 1) = SumTo(counts, e) + counts[e + 1] /\ SumTo(counts, e) \in Nat
  <2>1. e + 1 \in Nat /\ e + 1 > 0 /\ e \in Nat /\ \A i \in 1..e + 1 : counts[i] \in Int
    BY <1>1, <1>2
  <2> QED BY <1>1, <1>2, <2>1, SumFacts, SumGrows
<1>5. counts[e + 1] \in Nat
  BY <1>1, <1>2
<1>6. CASE at + 1 = counts[e + 1]
  <2>1. OnePlaceOn(counts, e, at) = << e + 1, 0 >>
    BY <1>6 DEF OnePlaceOn
  <2>2. InRun(counts, x + 1, e + 1, 0)
    <3>1. x + 1 = SumTo(counts, e + 1) + 0
      BY <1>3, <1>4, <1>5, <1>6
    <3>2. e + 1 < N => 0 < counts[(e + 1) + 1]
      BY <1>1, <1>2
    <3> QED BY <1>2, <3>1, <3>2 DEF InRun, N
  <2> QED BY <2>1, <2>2
<1>7. CASE at + 1 # counts[e + 1]
  <2>1. OnePlaceOn(counts, e, at) = << e, at + 1 >>
    BY <1>7 DEF OnePlaceOn
  <2>2. InRun(counts, x + 1, e, at + 1)
    <3> DEFINE c == counts[e + 1]
               b == SumTo(counts, e)
    <3>0. c \in Nat /\ b \in Nat /\ at \in Nat /\ at < c /\ at + 1 # c /\ x = b + at
      BY <1>3, <1>4, <1>5, <1>7
    <3> HIDE DEF b, c
    <3>1. x + 1 = b + (at + 1) /\ at + 1 < c /\ at + 1 \in Nat
      BY <3>0
    <3> QED BY <1>2, <3>1 DEF InRun, N, b, c
  <2> QED BY <2>1, <2>2
<1> QED BY <1>6, <1>7

\* An index is below the sum just as its entry is one of the entries.
LEMMA InRunEnd ==
  ASSUME NEW counts \in Seq(Nat), NEW x \in Nat, NEW e, NEW at, InRun(counts, x, e, at)
  PROVE  /\ e \in 0..Len(counts) /\ at \in Nat
         /\ x < Total(counts) <=> e < Len(counts)
         /\ x <= Total(counts)
<1> DEFINE N == Len(counts)
<1>1. N \in Nat /\ \A i \in 1..N : counts[i] \in Nat
  OBVIOUS
<1>2. e \in 0..N /\ at \in Nat /\ x = SumTo(counts, e) + at
  BY DEF InRun
<1>3. Total(counts) = SumTo(counts, N)
  BY DEF Total
<1> HIDE DEF N
<1>4. /\ \A a \in 0..N : SumTo(counts, a) \in Nat
      /\ \A a, b \in 0..N : a <= b => SumTo(counts, a) <= SumTo(counts, b)
  BY <1>1, SumGrows
<1>5. CASE e < N
  <2>1. at < counts[e + 1]
    BY <1>5 DEF InRun, N
  <2>2. e + 1 \in 1..N /\ (e + 1) - 1 = e /\ e + 1 \in 0..N /\ N \in 0..N /\ e + 1 <= N
    BY <1>1, <1>2, <1>5
  <2>3. SumTo(counts, e + 1) = SumTo(counts, e) + counts[e + 1]
    <3>1. e + 1 \in Nat /\ e + 1 > 0 /\ \A i \in 1..e + 1 : counts[i] \in Int
      BY <1>1, <2>2
    <3> QED BY <2>2, <3>1, SumFacts
  <2>4. SumTo(counts, e + 1) <= SumTo(counts, N) /\ counts[e + 1] \in Nat
    BY <1>1, <1>4, <2>2
  <2>5. x < Total(counts)
    BY <1>2, <1>3, <1>4, <2>1, <2>2, <2>3, <2>4
  <2> QED BY <1>2, <1>3, <1>4, <1>5, <2>2, <2>5 DEF N
<1>6. CASE ~(e < N)
  <2>1. e = N /\ at = 0
    BY <1>1, <1>2, <1>6 DEF InRun, N
  <2> QED BY <1>1, <1>2, <1>3, <1>4, <2>1 DEF N
<1> QED BY <1>5, <1>6

-----------------------------------------------------------------------------
(* Groups of chunks. *)
\* The recursion of GroupOf, unfolded.
GroupsTo(h, tab, n) == h = [c \in 0..n |-> GroupAt(tab, IF c = 0 THEN 0 ELSE h[c - 1], c)]

\* The entries of the function that GroupOf chooses.
LEMMA GroupEntries ==
  ASSUME NEW h, NEW tab, NEW n \in Nat, GroupsTo(h, tab, n)
  PROVE  h[0] = GroupAt(tab, 0, 0) /\ \A c \in 1..n : h[c] = GroupAt(tab, h[c - 1], c)
<1>1. \A c \in 0..n : h[c] = GroupAt(tab, IF c = 0 THEN 0 ELSE h[c - 1], c)
  BY DEF GroupsTo
<1>2. 0 \in 0..n /\ \A c \in 1..n : c \in 0..n /\ c # 0
  OBVIOUS
<1> QED BY <1>1, <1>2

\* GroupOf is the last entry of a function of groups.
LEMMA GroupUnfolds ==
  ASSUME NEW tab, NEW n \in Nat
  PROVE  \E h : GroupsTo(h, tab, n) /\ h \in [0..n -> Nat] /\ GroupOf(tab, n) = h[n]
<1> DEFINE step == [i \in Nat |-> [g \in Nat |-> GroupAt(tab, g, i)]]
           h == CHOOSE h : GroupsTo(h, tab, n)
<1>1. step \in [Nat -> [Nat -> Nat]] /\ GroupAt(tab, 0, 0) \in Nat
  BY DEF GroupAt
<1>2. \A i \in 1..n, g \in Nat : step[i][g] = GroupAt(tab, g, i)
  OBVIOUS
<1> HIDE DEF step
<1>3. PICK f : Unfolds(f, Nat, GroupAt(tab, 0, 0), step, n)
  BY <1>1, Recursion
<1>4. \A i \in 0..n : f[i] \in Nat /\ f[i] = GroupAt(tab, IF i = 0 THEN 0 ELSE f[i - 1], i)
  <2> TAKE i \in 0..n
  <2>1. CASE i = 0
    BY <1>3, <2>1 DEF Unfolds
  <2>2. CASE i # 0
    <3>1. i \in 1..n /\ i - 1 \in 0..n
      BY <2>2
    <3>2. f[i - 1] \in Nat /\ f[i] = step[i][f[i - 1]] /\ f[i] \in Nat
      BY <1>3, <3>1 DEF Unfolds
    <3> QED BY <1>2, <2>2, <3>1, <3>2
  <2> QED BY <2>1, <2>2
<1>5. GroupsTo(f, tab, n)
  BY <1>3, <1>4 DEF Unfolds, GroupsTo
<1>6. GroupsTo(h, tab, n)
  BY <1>5
<1>7. GroupOf(tab, n) = h[n]
  BY DEF GroupOf, GroupsTo
<1> HIDE DEF h
<1>8. h \in [0..n -> Nat]
  <2>1. h[0] = f[0] /\ \A i \in 1..n : h[i - 1] = f[i - 1] => h[i] = f[i]
    <3>1. f[0] = GroupAt(tab, 0, 0) /\ \A i \in 1..n : f[i] = GroupAt(tab, f[i - 1], i)
      BY <1>5, GroupEntries
    <3>2. h[0] = GroupAt(tab, 0, 0) /\ \A i \in 1..n : h[i] = GroupAt(tab, h[i - 1], i)
      BY <1>6, GroupEntries
    <3> QED BY <3>1, <3>2
  <2>2. \A i \in 0..n : h[i] = f[i]
    BY <2>1, SameTo, ZenonT(60)
  <2>3. h = [i \in 0..n |-> h[i]]
    BY <1>6 DEF GroupsTo
  <2> QED BY <1>4, <2>2, <2>3
<1> QED BY <1>6, <1>7, <1>8

\* The group of the first chunk, and of the next.
LEMMA GroupFacts ==
  ASSUME NEW tab, NEW n \in Nat
  PROVE  /\ GroupOf(tab, n) \in Nat
         /\ GroupOf(tab, 0) = GroupAt(tab, 0, 0)
         /\ GroupOf(tab, n + 1) = GroupAt(tab, GroupOf(tab, n), n + 1)
<1>1. GroupOf(tab, 0) = GroupAt(tab, 0, 0)
  <2>1. PICK h : GroupsTo(h, tab, 0) /\ GroupOf(tab, 0) = h[0]
    BY GroupUnfolds
  <2> QED BY <2>1, GroupEntries
<1>2. PICK g : GroupsTo(g, tab, n) /\ g \in [0..n -> Nat] /\ GroupOf(tab, n) = g[n]
  BY GroupUnfolds
<1>3. PICK h : GroupsTo(h, tab, n + 1) /\ GroupOf(tab, n + 1) = h[n + 1]
  BY GroupUnfolds
<1>4. g[0] = GroupAt(tab, 0, 0) /\ \A i \in 1..n : g[i] = GroupAt(tab, g[i - 1], i)
  BY <1>2, GroupEntries
<1>5. h[0] = GroupAt(tab, 0, 0) /\ \A i \in 1..n + 1 : h[i] = GroupAt(tab, h[i - 1], i)
  BY <1>3, GroupEntries
<1>6. g[0] = h[0] /\ \A i \in 1..n : g[i - 1] = h[i - 1] => g[i] = h[i]
  BY <1>4, <1>5
<1>7. \A i \in 0..n : g[i] = h[i]
  BY <1>6, SameTo, ZenonT(60)
<1>8. g[n] = h[n] /\ h[n + 1] = GroupAt(tab, h[n], n + 1)
  <2>1. n \in 0..n /\ n + 1 \in 1..n + 1 /\ (n + 1) - 1 = n
    OBVIOUS
  <2> QED BY <1>5, <1>7, <2>1
<1> QED BY <1>1, <1>2, <1>3, <1>8

\* Where there are groups, each chunk is in one of them.
LEMMA GroupBelow ==
  ASSUME NEW tab, Len(tab.groups) \in Nat \ {0}
  PROVE  \A n \in Nat : GroupOf(tab, n) < Len(tab.groups)
<1> DEFINE P == {n \in Nat : GroupOf(tab, n) < Len(tab.groups)}
<1>1. 0 \in P
  BY GroupFacts DEF GroupAt
<1>2. ASSUME NEW n \in Nat, n \in P PROVE n + 1 \in P
  <2>1. GroupOf(tab, n) < Len(tab.groups) /\ GroupOf(tab, n) \in Nat
    BY <1>2, GroupFacts
  <2>2. GroupOf(tab, n + 1) = GroupAt(tab, GroupOf(tab, n), n + 1)
    BY GroupFacts
  <2>3. GroupOf(tab, n + 1) < Len(tab.groups)
    BY <2>1, <2>2 DEF GroupAt
  <2> QED BY <2>3
<1> HIDE DEF P
<1>3. \A n \in Nat : n \in P
  BY <1>1, <1>2, Induction
<1> QED BY <1>3 DEF P

\* A chunk is looked at twice, and moves the group on once.
LEMMA GroupAgain ==
  ASSUME NEW tab, tab.groups \in Seq([first : Nat, per : Nat]),
         \A g, h \in DOMAIN tab.groups : g < h => tab.groups[g].first < tab.groups[h].first,
         NEW n \in Nat
  PROVE  GroupAt(tab, GroupOf(tab, n), n) = GroupOf(tab, n)
<1>1. \A g, c \in Nat : GroupAt(tab, GroupAt(tab, g, c), c) = GroupAt(tab, g, c)
  <2> TAKE g, c \in Nat
  <2> DEFINE N == Len(tab.groups)
  <2>1. N \in Nat /\ DOMAIN tab.groups = 1..N /\ \A k \in 1..N : tab.groups[k].first \in Nat
    <3> DEFINE G == tab.groups
    <3>1. G \in Seq([first : Nat, per : Nat])
      OBVIOUS
    <3> HIDE DEF G
    <3>2. Len(G) \in Nat /\ DOMAIN G = 1..Len(G) /\ \A k \in 1..Len(G) : G[k].first \in Nat
      <4>1. Len(G) \in Nat /\ DOMAIN G = 1..Len(G) /\ \A k \in 1..Len(G) : G[k] \in [first : Nat, per : Nat]
        BY <3>1, SeqFacts, Zenon
      <4>2. \A r \in [first : Nat, per : Nat] : r.first \in Nat
        OBVIOUS
      <4> QED BY <4>1, <4>2
    <3> QED BY <3>2 DEF G
  <2>2. CASE g + 1 < N /\ c + 1 = tab.groups[g + 2].first
    <3>1. GroupAt(tab, g, c) = g + 1
      BY <2>2 DEF GroupAt
    <3>2. ASSUME (g + 1) + 1 < N PROVE c + 1 # tab.groups[(g + 1) + 2].first
      <4>1. g + 2 \in 1..N /\ (g + 1) + 2 \in 1..N /\ g + 2 < (g + 1) + 2
        BY <2>1, <2>2, <3>2
      <4>2. tab.groups[g + 2].first < tab.groups[(g + 1) + 2].first
        BY <2>1, <4>1
      <4> QED BY <2>1, <2>2, <4>1, <4>2
    <3> QED BY <3>1, <3>2 DEF GroupAt
  <2>3. CASE ~(g + 1 < N /\ c + 1 = tab.groups[g + 2].first)
    BY <2>3 DEF GroupAt
  <2> QED BY <2>2, <2>3
<1>2. CASE n = 0
  BY <1>1, <1>2, GroupFacts
<1>3. CASE n # 0
  <2>1. n - 1 \in Nat /\ (n - 1) + 1 = n
    BY <1>3
  <2> DEFINE m == n - 1
  <2> HIDE DEF m
  <2>2. GroupOf(tab, m + 1) = GroupAt(tab, GroupOf(tab, m), m + 1) /\ GroupOf(tab, m) \in Nat
    BY <2>1, GroupFacts DEF m
  <2> QED BY <1>1, <2>1, <2>2 DEF m
<1> QED BY <1>2, <1>3

-----------------------------------------------------------------------------
(* Key frames. *)
KeyPlace(sync, x, s) ==
  /\ s \in 0..Len(sync) - 1
  /\ s = Len(sync) - 1 \/ sync[s + 2] - 1 > x
  /\ \A r \in 0..s - 1 : sync[r + 2] - 1 <= x

\* SyncBefore finds a place.
LEMMA SyncBeforeFacts ==
  ASSUME NEW sync \in Seq(Nat), sync # <<>>, NEW x \in Int
  PROVE  KeyPlace(sync, x, SyncBefore(sync, x))
<1> DEFINE N == Len(sync)
           A == {s \in 0..N - 1 : s = N - 1 \/ sync[s + 2] - 1 > x}
<1>1. N \in Nat /\ N > 0 /\ \A i \in 1..N : sync[i] \in Nat
  OBVIOUS
<1>2. N - 1 \in A /\ A \subseteq Nat
  BY <1>1
<1> HIDE DEF A
<1>3. PICK m \in A : \A s \in A : m <= s
  BY <1>2, LeastNat
<1>4. KeyPlace(sync, x, m)
  <2>1. m \in 0..N - 1 /\ (m = N - 1 \/ sync[m + 2] - 1 > x)
    BY DEF A
  <2>2. ASSUME NEW r \in 0..m - 1 PROVE sync[r + 2] - 1 <= x
    <3>1. r \in 0..N - 1 /\ r # N - 1 /\ ~(m <= r) /\ r + 2 \in 1..N
      BY <1>1, <2>1
    <3>2. r \notin A
      BY <1>3, <3>1
    <3>3. sync[r + 2] \in Nat
      BY <1>1, <3>1
    <3> QED BY <3>1, <3>2, <3>3 DEF A
  <2> QED BY <2>1, <2>2 DEF KeyPlace
<1>5. SyncBefore(sync, x) = CHOOSE s \in 0..Len(sync) - 1 :
        /\ s = Len(sync) - 1 \/ sync[s + 2] - 1 > x
        /\ \A r \in 0..s - 1 : sync[r + 2] - 1 <= x
  BY DEF SyncBefore
<1> QED BY <1>4, <1>5 DEF KeyPlace

\* There is only one such place.
LEMMA KeyPlaceUnique ==
  ASSUME NEW sync \in Seq(Nat), NEW x \in Int, NEW s, NEW r,
         KeyPlace(sync, x, s), KeyPlace(sync, x, r)
  PROVE  s = r
<1> DEFINE N == Len(sync)
<1>1. N \in Nat /\ \A i \in 1..N : sync[i] \in Nat
  OBVIOUS
<1>2. s \in 0..N - 1 /\ r \in 0..N - 1
  BY DEF KeyPlace
<1>3. \A a, b \in 0..N - 1 : KeyPlace(sync, x, a) /\ KeyPlace(sync, x, b) => ~(a < b)
  <2> SUFFICES ASSUME NEW a \in 0..N - 1, NEW b \in 0..N - 1, KeyPlace(sync, x, a), KeyPlace(sync, x, b), a < b
               PROVE  FALSE
    OBVIOUS
  <2>1. a # N - 1 /\ a \in 0..b - 1 /\ a + 2 \in 1..N
    BY <1>1
  <2>2. sync[a + 2] - 1 > x /\ sync[a + 2] - 1 <= x
    BY <2>1 DEF KeyPlace
  <2>3. sync[a + 2] \in Nat
    BY <1>1, <2>1
  <2> QED BY <2>2, <2>3
<1> QED BY <1>2, <1>3

\* One sample on, the key frame before it is the same or the next.
LEMMA SyncNext ==
  ASSUME NEW sync \in Seq(Nat), \A i, j \in DOMAIN sync : i < j => sync[i] < sync[j], NEW x \in Nat
  PROVE  LET s == SyncBefore(sync, x)
         IN SyncBefore(sync, x + 1) = IF s + 1 < Len(sync) /\ sync[s + 2] - 1 = x + 1 THEN s + 1 ELSE s
<1> DEFINE N == Len(sync)
           s == SyncBefore(sync, x)
<1>1. N \in Nat /\ DOMAIN sync = 1..N /\ \A i \in 1..N : sync[i] \in Nat
  OBVIOUS
<1>2. CASE sync = <<>>
  BY <1>2 DEF SyncBefore
<1>3. CASE sync # <<>>
  <2>1. KeyPlace(sync, x, s) /\ KeyPlace(sync, x + 1, SyncBefore(sync, x + 1)) /\ x + 1 \in Int
    BY <1>3, SyncBeforeFacts
  <2> HIDE DEF s
  <2>2. s \in 0..N - 1 /\ (s = N - 1 \/ sync[s + 2] - 1 > x)
    BY <2>1 DEF KeyPlace
  <2> HIDE DEF N
  <2>3. \A r \in 0..s - 1 : sync[r + 2] - 1 <= x + 1
    <3> TAKE r \in 0..s - 1
    <3>1. r + 2 \in 1..N
      BY <1>1, <2>2
    <3>2. sync[r + 2] - 1 <= x /\ sync[r + 2] \in Nat
      BY <1>1, <2>1, <3>1 DEF KeyPlace
    <3> QED BY <3>2
  <2>4. CASE s + 1 < N /\ sync[s + 2] - 1 = x + 1
    <3>1. s + 1 \in 0..N - 1
      BY <1>1, <2>2, <2>4
    <3>2. s + 1 = N - 1 \/ sync[(s + 1) + 2] - 1 > x + 1
      <4>1. CASE s + 1 # N - 1
        <5>1. s + 2 \in 1..N /\ (s + 1) + 2 \in 1..N /\ s + 2 < (s + 1) + 2
          BY <1>1, <2>2, <2>4, <4>1
        <5>2. sync[s + 2] < sync[(s + 1) + 2] /\ sync[s + 2] \in Nat /\ sync[(s + 1) + 2] \in Nat
          BY <1>1, <5>1
        <5> QED BY <2>4, <5>2
      <4> QED BY <4>1
    <3>3. ASSUME NEW r \in 0..(s + 1) - 1 PROVE sync[r + 2] - 1 <= x + 1
      <4>1. r = s \/ r \in 0..s - 1
        BY <2>2
      <4>2. CASE r = s
        BY <2>4, <4>2
      <4> QED BY <2>3, <4>1, <4>2
    <3>4. KeyPlace(sync, x + 1, s + 1)
      BY <3>1, <3>2, <3>3 DEF KeyPlace, N
    <3>5. SyncBefore(sync, x + 1) = s + 1
      BY <2>1, <3>4, KeyPlaceUnique
    <3> QED BY <2>4, <3>5 DEF s, N
  <2>5. CASE ~(s + 1 < N /\ sync[s + 2] - 1 = x + 1)
    <3>1. s = N - 1 \/ sync[s + 2] - 1 > x + 1
      <4>1. CASE s # N - 1
        <5>1. s + 2 \in 1..N /\ s + 1 < N
          BY <1>1, <2>2, <4>1
        <5>2. sync[s + 2] \in Nat
          BY <1>1, <5>1
        <5> QED BY <2>2, <2>5, <4>1, <5>1, <5>2
      <4> QED BY <4>1
    <3>2. KeyPlace(sync, x + 1, s)
      BY <2>2, <2>3, <3>1 DEF KeyPlace, N
    <3>3. SyncBefore(sync, x + 1) = s
      BY <2>1, <3>2, KeyPlaceUnique
    <3> QED BY <2>5, <3>3 DEF s, N
  <2> QED BY <2>4, <2>5
<1> QED BY <1>2, <1>3

\* A sample is a key frame just as the key frame before it is itself.
LEMMA SyncIsKey ==
  ASSUME NEW sync \in Seq(Nat), \A i, j \in DOMAIN sync : i < j => sync[i] < sync[j],
         sync # <<>>, NEW x \in Nat
  PROVE  sync[SyncBefore(sync, x) + 1] - 1 = x <=> x + 1 \in ToSet(sync)
<1> DEFINE N == Len(sync)
           s == SyncBefore(sync, x)
<1>1. N \in Nat /\ DOMAIN sync = 1..N /\ \A i \in 1..N : sync[i] \in Nat
  OBVIOUS
<1>2. KeyPlace(sync, x, s)
  BY SyncBeforeFacts
<1>3. ToSet(sync) = {sync[i] : i \in 1..N}
  BY <1>1 DEF ToSet
<1> HIDE DEF s
<1>4. s \in 0..N - 1 /\ s + 1 \in 1..N /\ sync[s + 1] \in Nat
  <2>1. s \in 0..N - 1
    BY <1>2 DEF KeyPlace
  <2> HIDE DEF N
  <2>2. s + 1 \in 1..N
    BY <1>1, <2>1
  <2> QED BY <1>1, <2>1, <2>2
<1> HIDE DEF N
<1>5. ASSUME sync[s + 1] - 1 = x PROVE x + 1 \in ToSet(sync)
  <2>1. sync[s + 1] = x + 1
    BY <1>4, <1>5
  <2> QED BY <1>3, <1>4, <2>1
<1>6. ASSUME x + 1 \in ToSet(sync) PROVE sync[s + 1] - 1 = x
  <2>1. PICK p \in 1..N : sync[p] = x + 1
    BY <1>3, <1>6
  <2>2. ~(p < s + 1)
    <3> SUFFICES ASSUME p < s + 1 PROVE FALSE
      OBVIOUS
    <3>1. p - 1 \in 0..s - 1 /\ (p - 1) + 2 \in 1..N /\ p < (p - 1) + 2
      BY <1>1, <1>4
    <3>2. sync[(p - 1) + 2] - 1 <= x /\ sync[p] < sync[(p - 1) + 2] /\ sync[(p - 1) + 2] \in Nat
      BY <1>1, <1>2, <3>1 DEF KeyPlace, N
    <3> QED BY <2>1, <3>2
  <2>3. ~(s + 1 < p)
    <3> SUFFICES ASSUME s + 1 < p PROVE FALSE
      OBVIOUS
    <3>1. s # N - 1 /\ s + 2 \in 1..N /\ (s + 2 = p \/ s + 2 < p)
      BY <1>1, <1>4
    <3>2. sync[s + 2] - 1 > x /\ sync[s + 2] \in Nat
      BY <1>1, <1>2, <3>1 DEF KeyPlace, N
    <3>3. s + 2 # p => sync[s + 2] < sync[p]
      BY <1>1, <3>1
    <3> QED BY <2>1, <3>1, <3>2, <3>3
  <2>4. p = s + 1
    BY <1>4, <2>2, <2>3
  <2> QED BY <1>4, <2>1, <2>4
<1> QED BY <1>5, <1>6 DEF s

-----------------------------------------------------------------------------
(* Runs of equal values. *)
LEMMA ColumnFacts ==
  ASSUME NEW F, NEW runs \in Seq([F -> Nat]), NEW field \in F
  PROVE  /\ Column(runs, field) \in Seq(Nat)
         /\ Len(Column(runs, field)) = Len(runs)
         /\ \A e \in 1..Len(runs) : Column(runs, field)[e] = runs[e][field] /\ runs[e][field] \in Nat
<1>1. DOMAIN runs = 1..Len(runs) /\ Len(runs) \in Nat /\ \A e \in 1..Len(runs) : runs[e] \in [F -> Nat]
  BY SeqFacts, Zenon
<1>2. \A e \in 1..Len(runs) : runs[e][field] \in Nat
  BY <1>1
<1>3. Column(runs, field) = [e \in 1..Len(runs) |-> runs[e][field]]
  BY <1>1 DEF Column
<1> QED BY <1>1, <1>2, <1>3

\* The counts of the runs, and what each run says of the values.
RunsTell(runs, counts, field, vals, n) ==
  /\ counts \in Seq(Nat) /\ Positive(counts) /\ Total(counts) = n /\ n \in Nat
  /\ Len(runs) \in Nat /\ Len(counts) = Len(runs) /\ DOMAIN runs = 1..Len(runs)
  /\ \A e \in 1..Len(runs) : counts[e] = runs[e].count /\ counts[e] \in Nat /\ runs[e][field] \in Nat
  /\ \A e \in 1..Len(runs) : \A i \in SumTo(counts, e - 1) + 1 .. SumTo(counts, e) :
       vals[i] = runs[e][field]
  /\ \A e \in 0..Len(runs) : SumTo(counts, e) \in Nat /\ SumTo(counts, e) <= n
  /\ \A e \in 1..Len(runs) : SumTo(counts, e) = SumTo(counts, e - 1) + counts[e]

\* Runs of values tell them.
LEMMA RunsFacts ==
  ASSUME NEW runs, NEW field, NEW vals, NEW n, RunsOf(runs, field, vals, n)
  PROVE  RunsTell(runs, Column(runs, "count"), field, vals, n)
<1> DEFINE counts == Column(runs, "count")
           F == {"count", field}
           N == Len(runs)
<1>0. RunsOf(runs, field, vals, n)
  OBVIOUS
<1>1. /\ runs \in Seq([F -> Nat]) /\ Positive(counts) /\ Total(counts) = n
      /\ \A e \in DOMAIN runs : \A i \in SumTo(counts, e - 1) + 1 .. SumTo(counts, e) : vals[i] = runs[e][field]
  BY <1>0 DEF RunsOf
<1>2. "count" \in F /\ field \in F
  OBVIOUS
<1> HIDE DEF F
<1>3. DOMAIN runs = 1..N /\ N \in Nat
  BY <1>1, SeqFacts, Zenon
<1>4. /\ counts \in Seq(Nat) /\ Len(counts) = N
      /\ \A e \in 1..N : counts[e] = runs[e].count /\ counts[e] \in Nat
  <2>1. /\ counts \in Seq(Nat) /\ Len(counts) = N
        /\ \A e \in 1..N : counts[e] = runs[e]["count"] /\ runs[e]["count"] \in Nat
    BY <1>1, <1>2, ColumnFacts
  <2>2. \A e \in 1..N : runs[e].count = runs[e]["count"]
    OBVIOUS
  <2> QED BY <2>1, <2>2
<1>5. \A e \in 1..N : runs[e][field] \in Nat
  BY <1>1, <1>2, ColumnFacts
<1>6. n = SumTo(counts, N)
  BY <1>1, <1>4 DEF Total
<1> HIDE DEF N, counts
<1>7. \A e \in 0..N : SumTo(counts, e) \in Nat /\ SumTo(counts, e) <= n
  <2>1. /\ \A a \in 0..N : SumTo(counts, a) \in Nat
        /\ \A a, b \in 0..N : a <= b => SumTo(counts, a) <= SumTo(counts, b)
    BY <1>3, <1>4, SumGrows
  <2> QED BY <1>3, <1>6, <2>1
<1>8. \A e \in 1..N : SumTo(counts, e) = SumTo(counts, e - 1) + counts[e]
  <2> TAKE e \in 1..N
  <2>1. e \in Nat /\ e > 0 /\ \A i \in 1..e : counts[i] \in Int
    BY <1>3, <1>4
  <2> QED BY <2>1, SumFacts
<1>9. n \in Nat
  BY <1>3, <1>6, <1>7
<1> QED BY <1>1, <1>3, <1>4, <1>5, <1>7, <1>8, <1>9 DEF N, counts, RunsTell

\* Each value is that of its run.
LEMMA RunValue ==
  ASSUME NEW runs, NEW field, NEW vals, NEW n, RunsOf(runs, field, vals, n),
         NEW x \in Nat, NEW e, NEW at, InRun(Column(runs, "count"), x, e, at), e < Len(runs)
  PROVE  vals[x + 1] = runs[e + 1][field] /\ vals[x + 1] \in Nat
<1> DEFINE counts == Column(runs, "count")
           N == Len(runs)
<1>0. RunsOf(runs, field, vals, n) /\ InRun(counts, x, e, at) /\ e < N
  OBVIOUS
<1>1. /\ N \in Nat /\ Len(counts) = N
      /\ \A d \in 1..N : counts[d] \in Nat /\ runs[d][field] \in Nat
      /\ \A d \in 1..N : \A i \in SumTo(counts, d - 1) + 1 .. SumTo(counts, d) : vals[i] = runs[d][field]
      /\ \A d \in 0..N : SumTo(counts, d) \in Nat
      /\ \A d \in 1..N : SumTo(counts, d) = SumTo(counts, d - 1) + counts[d]
  <2>1. RunsTell(runs, counts, field, vals, n)
    BY <1>0, RunsFacts
  <2> HIDE DEF counts
  <2> QED BY <2>1 DEF RunsTell
<1> HIDE DEF counts, N
<1>2. e \in 0..N /\ at \in Nat /\ x = SumTo(counts, e) + at /\ at < counts[e + 1]
  BY <1>0, <1>1 DEF InRun
<1>3. e + 1 \in 1..N /\ (e + 1) - 1 = e /\ e \in 0..N
  BY <1>0, <1>1, <1>2
<1>4. SumTo(counts, e + 1) = SumTo(counts, e) + counts[e + 1] /\ SumTo(counts, e) \in Nat /\ counts[e + 1] \in Nat
  BY <1>1, <1>3
<1>5. x + 1 \in SumTo(counts, e) + 1 .. SumTo(counts, e + 1)
  BY <1>2, <1>4
<1>6. vals[x + 1] = runs[e + 1][field]
  BY <1>1, <1>3, <1>5
<1> QED BY <1>1, <1>3, <1>6

\* All the values of runs are numbers.
LEMMA RunValues ==
  ASSUME NEW runs, NEW field, NEW vals, NEW n, RunsOf(runs, field, vals, n)
  PROVE  \A i \in 1..n : vals[i] \in Nat
<1> DEFINE counts == Column(runs, "count")
<1>0. RunsOf(runs, field, vals, n)
  OBVIOUS
<1>1. counts \in Seq(Nat) /\ Total(counts) = n /\ n \in Nat /\ Len(counts) = Len(runs) /\ Len(runs) \in Nat
  <2>1. RunsTell(runs, counts, field, vals, n)
    BY <1>0, RunsFacts
  <2> HIDE DEF counts
  <2> QED BY <2>1 DEF RunsTell
<1> HIDE DEF counts
<1> TAKE i \in 1..n
<1> DEFINE x == i - 1
           place == Locate(counts, x)
<1>2. x \in Nat /\ x < Total(counts) /\ x + 1 = i
  BY <1>1
<1> HIDE DEF x
<1>3. place.entry \in 0..Len(counts) - 1 /\ InRun(counts, x, place.entry, place.at)
  BY <1>1, <1>2, LocateFinds
<1>4. place.entry < Len(runs)
  BY <1>1, <1>3
<1> HIDE DEF place
<1>5. vals[x + 1] \in Nat
  BY <1>0, <1>2, <1>3, <1>4, RunValue DEF counts
<1> QED BY <1>2, <1>5

\* The values added up run by run.
Products(runs, field) == [e \in DOMAIN runs |-> runs[e].count * runs[e][field]]
\* Where a run begins, the products of the runs before it are the sum of their values.
LEMMA RunStarts ==
  ASSUME NEW runs, NEW field, NEW vals, NEW n, RunsOf(runs, field, vals, n)
  PROVE  \A e \in 0..Len(runs) :
           SumTo(Products(runs, field), e) = SumTo(vals, SumTo(Column(runs, "count"), e))
<1> DEFINE counts == Column(runs, "count")
           prods == Products(runs, field)
           N == Len(runs)
           P == {e \in Nat : e <= N => SumTo(prods, e) = SumTo(vals, SumTo(counts, e))}
<1>0. RunsOf(runs, field, vals, n)
  OBVIOUS
<1>1. /\ counts \in Seq(Nat) /\ N \in Nat /\ Len(counts) = N /\ n \in Nat
      /\ \A d \in 1..N : counts[d] = runs[d].count /\ counts[d] \in Nat /\ runs[d][field] \in Nat
      /\ \A d \in 1..N : \A i \in SumTo(counts, d - 1) + 1 .. SumTo(counts, d) : vals[i] = runs[d][field]
      /\ \A d \in 0..N : SumTo(counts, d) \in Nat /\ SumTo(counts, d) <= n
      /\ \A d \in 1..N : SumTo(counts, d) = SumTo(counts, d - 1) + counts[d]
  <2>1. RunsTell(runs, counts, field, vals, n)
    BY <1>0, RunsFacts
  <2> HIDE DEF counts
  <2> QED BY <2>1 DEF RunsTell
<1>2. \A i \in 1..n : vals[i] \in Nat
  BY <1>0, RunValues
<1>3. \A d \in 1..N : prods[d] = counts[d] * runs[d][field] /\ prods[d] \in Nat
  <2>1. DOMAIN runs = 1..N
    BY <1>0, SeqFacts DEF RunsOf
  <2>2. \A a, b \in Nat : a * b \in Nat
    OBVIOUS
  <2> HIDE DEF N, counts
  <2>3. \A d \in 1..N : prods[d] = counts[d] * runs[d][field]
    BY <1>1, <2>1 DEF Products
  <2> QED BY <1>1, <2>2, <2>3
<1> HIDE DEF counts, prods, N
<1>4. 0 \in P
  <2>1. SumTo(prods, 0) = 0 /\ SumTo(vals, 0) = 0 /\ SumTo(counts, 0) = 0
    <3>1. \A d \in 1..0 : prods[d] \in Int /\ vals[d] \in Int /\ counts[d] \in Int
      OBVIOUS
    <3> QED BY <3>1, SumFacts
  <2> QED BY <2>1
<1>5. ASSUME NEW e \in Nat, e \in P PROVE e + 1 \in P
  <2> SUFFICES ASSUME e + 1 <= N PROVE SumTo(prods, e + 1) = SumTo(vals, SumTo(counts, e + 1))
    OBVIOUS
  <2> DEFINE a == SumTo(counts, e)
             k == counts[e + 1]
             c == runs[e + 1][field]
  <2>1. e + 1 \in 1..N /\ (e + 1) - 1 = e /\ e \in 0..N /\ e + 1 \in 0..N
    BY <1>1
  <2>2. /\ a \in Nat /\ k \in Nat /\ c \in Nat /\ SumTo(counts, e + 1) = a + k /\ a + k <= n
        /\ prods[e + 1] = k * c
        /\ \A i \in a + 1 .. a + k : vals[i] = c
    <3>1. SumTo(counts, e + 1) = a + k /\ a \in Nat /\ SumTo(counts, e + 1) <= n
      BY <1>1, <2>1
    <3>2. k \in Nat /\ c \in Nat /\ prods[e + 1] = k * c
      BY <1>1, <1>3, <2>1
    <3>3. \A i \in SumTo(counts, e) + 1 .. SumTo(counts, e + 1) : vals[i] = c
      BY <1>1, <2>1
    <3> QED BY <3>1, <3>2, <3>3
  <2>3. SumTo(prods, e) = SumTo(vals, a)
    BY <1>5, <2>1
  <2> HIDE DEF a, k, c
  <2>4. SumTo(vals, a + k) = SumTo(vals, a) + k * c
    <3> DEFINE b == a + k
    <3>1. b \in Nat /\ a \in Nat /\ a <= b /\ b - a = k /\ c \in Int /\ \A i \in 1..b : i \in 1..n
      BY <1>1, <2>2
    <3>2. \A i \in a + 1..b : vals[i] = c
      BY <2>2
    <3> HIDE DEF b
    <3>3. \A i \in 1..b : vals[i] \in Int
      BY <1>2, <3>1
    <3>4. SumTo(vals, b) = SumTo(vals, a) + (b - a) * c
      BY <3>1, <3>2, <3>3, SumAlike
    <3> QED BY <3>1, <3>4 DEF b
  <2>5. SumTo(prods, e + 1) = SumTo(prods, e) + prods[e + 1]
    <3>0. e + 1 \in Nat /\ e + 1 > 0 /\ \A i \in 1..e + 1 : i \in 1..N
      BY <1>1, <2>1
    <3>1. \A i \in 1..e + 1 : prods[i] \in Int
      BY <1>3, <3>0
    <3> QED BY <2>1, <3>0, <3>1, SumFacts
  <2> QED BY <2>2, <2>3, <2>4, <2>5
<1> HIDE DEF P
<1>6. \A e \in Nat : e \in P
  BY <1>4, <1>5, Induction
<1> QED BY <1>6 DEF P, counts, prods, N

\* And at any place in a run.
LEMMA RunSums ==
  ASSUME NEW runs, NEW field, NEW vals, NEW n, RunsOf(runs, field, vals, n),
         NEW x \in Nat, NEW e, NEW at, InRun(Column(runs, "count"), x, e, at), e < Len(runs)
  PROVE  SumTo(vals, x) = SumTo(Products(runs, field), e) + at * runs[e + 1][field]
<1> DEFINE counts == Column(runs, "count")
           N == Len(runs)
           a == SumTo(counts, e)
           c == runs[e + 1][field]
<1>0. RunsOf(runs, field, vals, n) /\ InRun(counts, x, e, at) /\ e < N
  OBVIOUS
<1>1. /\ N \in Nat /\ Len(counts) = N /\ n \in Nat
      /\ \A d \in 1..N : counts[d] \in Nat /\ runs[d][field] \in Nat
      /\ \A d \in 1..N : \A i \in SumTo(counts, d - 1) + 1 .. SumTo(counts, d) : vals[i] = runs[d][field]
      /\ \A d \in 0..N : SumTo(counts, d) \in Nat /\ SumTo(counts, d) <= n
      /\ \A d \in 1..N : SumTo(counts, d) = SumTo(counts, d - 1) + counts[d]
  <2>1. RunsTell(runs, counts, field, vals, n)
    BY <1>0, RunsFacts
  <2> HIDE DEF counts
  <2> QED BY <2>1 DEF RunsTell
<1>2. \A i \in 1..n : vals[i] \in Nat
  BY <1>0, RunValues
<1> HIDE DEF counts, N
<1>3. e \in 0..N /\ at \in Nat /\ x = a + at /\ at < counts[e + 1]
  BY <1>0, <1>1 DEF InRun
<1>4. e + 1 \in 1..N /\ (e + 1) - 1 = e /\ e + 1 \in 0..N
  BY <1>0, <1>1, <1>3
<1>5. SumTo(counts, e + 1) = a + counts[e + 1] /\ a \in Nat /\ counts[e + 1] \in Nat /\ a + counts[e + 1] <= n
  <2>1. SumTo(counts, e + 1) = a + counts[e + 1] /\ SumTo(counts, e + 1) <= n
    BY <1>1, <1>4
  <2> QED BY <1>1, <1>3, <1>4, <2>1
<1>6. c \in Nat /\ \A i \in a + 1 .. a + counts[e + 1] : vals[i] = c
  <2>1. \A i \in SumTo(counts, e) + 1 .. SumTo(counts, e + 1) : vals[i] = c
    BY <1>1, <1>4
  <2> QED BY <1>1, <1>4, <1>5, <2>1
<1> DEFINE k == counts[e + 1]
<1> HIDE DEF a, c, k
<1>7. k \in Nat /\ at < k /\ a + k <= n /\ a \in Nat /\ at \in Nat /\ \A i \in a + 1 .. a + k : vals[i] = c
  BY <1>3, <1>5, <1>6 DEF k
<1>8. SumTo(vals, x) = SumTo(vals, a) + at * c
  <2>1. x \in Nat /\ a \in Nat /\ a <= x /\ x - a = at /\ c \in Int /\ \A i \in 1..x : i \in 1..n
    BY <1>1, <1>3, <1>6, <1>7
  <2>2. \A i \in a + 1..x : vals[i] = c
    BY <1>3, <1>7
  <2>3. \A i \in 1..x : vals[i] \in Int
    BY <1>2, <2>1
  <2>4. SumTo(vals, x) = SumTo(vals, a) + (x - a) * c
    BY <2>1, <2>2, <2>3, SumAlike
  <2> QED BY <2>1, <2>4
<1>9. SumTo(Products(runs, field), e) = SumTo(vals, a)
  BY <1>0, <1>3, RunStarts DEF counts, N, a
<1> QED BY <1>3, <1>8, <1>9 DEF c

-----------------------------------------------------------------------------
(* The tables of a track that tell its packets. *)
\* The numbers a table gives, in one place.
TableTells(tab, video, w) ==
  LET n == Len(w)
      sizes == Sizes(w, n)
      pers == Pers(tab)
  IN /\ n \in Nat
     /\ \A i \in 1..n : Durations(w)[i] \in Nat /\ sizes[i] \in Nat
     /\ pers \in Seq(Nat) /\ Positive(pers) /\ Total(pers) = n
     /\ Len(pers) = Len(tab.offsets) /\ Len(tab.offsets) \in Nat
     /\ RunsOf(tab.stts, "duration", Durations(w), n)
     /\ IF video THEN RunsOf(tab.ctts, "offset", Offsets(w), n) ELSE tab.ctts = <<>>
     /\ tab.synced = video
     /\ IF video THEN Lists(tab.sync, {i \in 1 .. n : w[i].key}) ELSE tab.sync = <<>>
     /\ tab.groups \in Seq([first : Nat, per : Nat])
     /\ \A g, h \in DOMAIN tab.groups : g < h => tab.groups[g].first < tab.groups[h].first
     /\ tab.offsets # <<>> => tab.groups # <<>>
     /\ tab.groups # <<>> => tab.groups[1].first = 1
     /\ tab.fixed \in Nat
     /\ \A i \in 1..n : sizes[i] = IF tab.fixed # 0 THEN tab.fixed ELSE tab.sizes[i]
     /\ tab.sizes = IF tab.fixed # 0 THEN <<>> ELSE sizes

\* The sizes of packets are numbers.
LEMMA SizesFacts ==
  ASSUME NEW w \in Seq(Pkt), NEW n \in Nat, n <= Len(w)
  PROVE  /\ Sizes(w, n) \in Seq(Nat) /\ Len(Sizes(w, n)) = n
         /\ \A i \in 1..n : Sizes(w, n)[i] = Len(w[i].data) /\ Len(w[i].data) \in Nat
<1>1. Len(w) \in Nat /\ \A i \in 1..Len(w) : w[i] \in Pkt
  BY SeqFacts, Zenon
<1>2. \A p \in Pkt : Len(p.data) \in Nat
  <2> TAKE p \in Pkt
  <2>1. p.data \in Seq(Seq(Nat))
    BY DEF Pkt
  <2> QED BY <2>1, SeqFacts, Zenon
<1>3. \A i \in 1..n : i \in 1..Len(w)
  BY <1>1
<1>4. \A i \in 1..n : Len(w[i].data) \in Nat
  BY <1>1, <1>2, <1>3
<1> QED BY <1>4 DEF Sizes

\* A table that describes the packets and places them tells everything of them.
LEMMA TableFacts ==
  ASSUME NEW tab, NEW video \in BOOLEAN, NEW w \in Seq(Pkt), NEW d,
         Described(tab, video, w, Len(w)), Laid(tab, w, d)
  PROVE  TableTells(tab, video, w)
<1> DEFINE n == Len(w)
           sizes == Sizes(w, n)
           pers == Pers(tab)
<1>1. n \in Nat
  BY SeqFacts, Zenon
<1>2. /\ RunsOf(tab.stts, "duration", Durations(w), n)
      /\ IF video THEN RunsOf(tab.ctts, "offset", Offsets(w), n) ELSE tab.ctts = <<>>
      /\ tab.synced = video
      /\ IF video THEN Lists(tab.sync, {i \in 1 .. n : w[i].key}) ELSE tab.sync = <<>>
  BY DEF Described
<1>3. Chunked(tab, n) /\ Sized(tab, sizes)
  BY DEF Laid
<1>4. sizes \in Seq(Nat) /\ Len(sizes) = n
  BY <1>1, SizesFacts
<1>5. DOMAIN sizes = 1..n /\ \A i \in 1..n : sizes[i] \in Nat
  <2> HIDE DEF sizes
  <2> QED BY <1>4, SeqFacts
<1>6. \A i \in 1..n : Durations(w)[i] \in Nat
  BY <1>2, RunValues
<1> HIDE DEF n, sizes
<1>7. /\ tab.groups \in Seq([first : Nat, per : Nat])
      /\ \A g, h \in DOMAIN tab.groups : g < h => tab.groups[g].first < tab.groups[h].first
      /\ tab.offsets # <<>> => tab.groups # <<>>
      /\ tab.groups # <<>> => tab.groups[1].first = 1
      /\ Positive(pers) /\ Total(pers) = n /\ tab.offsets \in Seq(Nat)
  BY <1>3 DEF Chunked
<1>8. pers \in Seq(Nat) /\ Len(pers) = Len(tab.offsets) /\ Len(tab.offsets) \in Nat
  <2>1. Len(tab.offsets) \in Nat /\ DOMAIN tab.offsets = 1..Len(tab.offsets)
    BY <1>7, SeqFacts
  <2>2. pers = [c \in 1..Len(tab.offsets) |-> pers[c]]
    BY <2>1 DEF Pers
  <2>3. \A c \in 1..Len(tab.offsets) : pers[c] \in Nat
    <3>1. DOMAIN pers = 1..Len(tab.offsets)
      BY <2>2
    <3> QED BY <1>7, <3>1 DEF Positive
  <2> DEFINE L == Len(tab.offsets)
  <2>4. L \in Nat /\ pers = [c \in 1..L |-> pers[c]] /\ \A c \in 1..L : pers[c] \in Nat
    BY <2>1, <2>2, <2>3
  <2> HIDE DEF pers, L
  <2>5. pers \in Seq(Nat) /\ Len(pers) = L
    BY <2>4, MakesSeq
  <2> QED BY <2>4, <2>5 DEF L
<1>9. /\ tab.fixed \in Nat
      /\ \A i \in 1..n : sizes[i] = IF tab.fixed # 0 THEN tab.fixed ELSE tab.sizes[i]
      /\ tab.sizes = IF tab.fixed # 0 THEN <<>> ELSE sizes
  <2>1. CASE tab.fixed = 0
    BY <1>3, <2>1 DEF Sized
  <2>2. CASE tab.fixed # 0
    <3>1. tab.sizes = <<>> /\ tab.fixed \in Nat /\ \A i \in DOMAIN sizes : sizes[i] = tab.fixed
      BY <1>3, <2>2 DEF Sized
    <3> QED BY <1>5, <2>2, <3>1
  <2> QED BY <2>1, <2>2
<1> QED BY <1>1, <1>2, <1>4, <1>6, <1>7, <1>8, <1>9 DEF TableTells, n, sizes

\* What incSampleIndex gives, number by number.
LEMMA IncFields ==
  ASSUME NEW tab, NEW cur
  PROVE  LET inc == incSampleIndex(tab, cur)
             per == tab.groups[cur.chunkGroupIndex + 1].per
             fresh == cur.sampleIndexInChunk + 1 = per
             T == Column(tab.stts, "count")
             C == Column(tab.ctts, "count")
         IN /\ inc.chunkIndex = IF fresh THEN cur.chunkIndex + 1 ELSE cur.chunkIndex
            /\ inc.sampleIndexInChunk = IF fresh THEN 0 ELSE cur.sampleIndexInChunk + 1
            /\ inc.chunkGroupIndex = GroupAt(tab, cur.chunkGroupIndex, inc.chunkIndex)
            /\ inc.sampleOffsetInChunk =
                 IF fresh THEN 0
                 ELSE cur.sampleOffsetInChunk + IF tab.fixed # 0 THEN tab.fixed ELSE tab.sizes[cur.sampleIndex + 1]
            /\ inc.dts = cur.dts + tab.stts[cur.sttsEntryIndex + 1].duration
            /\ inc.sttsEntryIndex = OnePlaceOn(T, cur.sttsEntryIndex, cur.sampleIndexInSttsEntry)[1]
            /\ inc.sampleIndexInSttsEntry = OnePlaceOn(T, cur.sttsEntryIndex, cur.sampleIndexInSttsEntry)[2]
            /\ inc.cttsEntryIndex = IF tab.ctts = <<>> THEN cur.cttsEntryIndex
                                    ELSE OnePlaceOn(C, cur.cttsEntryIndex, cur.sampleIndexInCttsEntry)[1]
            /\ inc.sampleIndexInCttsEntry = IF tab.ctts = <<>> THEN cur.sampleIndexInCttsEntry
                                            ELSE OnePlaceOn(C, cur.cttsEntryIndex, cur.sampleIndexInCttsEntry)[2]
            /\ inc.syncSampleIndex =
                 IF tab.synced /\ cur.syncSampleIndex + 1 < Len(tab.sync)
                      /\ tab.sync[cur.syncSampleIndex + 2] - 1 = cur.sampleIndex + 1
                 THEN cur.syncSampleIndex + 1 ELSE cur.syncSampleIndex
            /\ inc.sampleIndex = cur.sampleIndex + 1
            /\ inc = [chunkGroupIndex |-> inc.chunkGroupIndex, chunkIndex |-> inc.chunkIndex,
                      sampleIndexInChunk |-> inc.sampleIndexInChunk,
                      sampleOffsetInChunk |-> inc.sampleOffsetInChunk, dts |-> inc.dts,
                      sttsEntryIndex |-> inc.sttsEntryIndex,
                      sampleIndexInSttsEntry |-> inc.sampleIndexInSttsEntry,
                      cttsEntryIndex |-> inc.cttsEntryIndex,
                      sampleIndexInCttsEntry |-> inc.sampleIndexInCttsEntry,
                      syncSampleIndex |-> inc.syncSampleIndex, sampleIndex |-> inc.sampleIndex]
  BY DEF incSampleIndex, OnePlaceOn

-----------------------------------------------------------------------------
(* Where a cursor stands. *)
\* The cursor at a sample, from the entries its places are in.
CursorAt(tab, w, x, c, a, e, b, f, g) ==
  [chunkGroupIndex |-> GroupOf(tab, c), chunkIndex |-> c, sampleIndexInChunk |-> a,
   sampleOffsetInChunk |-> SumTo(Sizes(w, Len(w)), x) - SumTo(Sizes(w, Len(w)), x - a),
   dts |-> SumTo(Durations(w), x), sttsEntryIndex |-> e, sampleIndexInSttsEntry |-> b,
   cttsEntryIndex |-> f, sampleIndexInCttsEntry |-> g,
   syncSampleIndex |-> IF tab.synced THEN SyncBefore(tab.sync, x) ELSE 0, sampleIndex |-> x]

\* Its places.
PlacesAt(tab, x, c, a, e, b, f, g) ==
  /\ InRun(Pers(tab), x, c, a)
  /\ InRun(Column(tab.stts, "count"), x, e, b)
  /\ IF tab.ctts = <<>> THEN f = 0 /\ g = 0 ELSE InRun(Column(tab.ctts, "count"), x, f, g)

\* A cursor that stands is the cursor at its places.
LEMMA StandsIs ==
  ASSUME NEW tab, NEW w, NEW cur, Stands(tab, w, cur)
  PROVE  /\ cur = CursorAt(tab, w, cur.sampleIndex, cur.chunkIndex, cur.sampleIndexInChunk,
                           cur.sttsEntryIndex, cur.sampleIndexInSttsEntry,
                           cur.cttsEntryIndex, cur.sampleIndexInCttsEntry)
         /\ PlacesAt(tab, cur.sampleIndex, cur.chunkIndex, cur.sampleIndexInChunk,
                     cur.sttsEntryIndex, cur.sampleIndexInSttsEntry,
                     cur.cttsEntryIndex, cur.sampleIndexInCttsEntry)
         /\ cur \in Cursor /\ cur.sampleIndex \in Nat /\ cur.sampleIndex <= Len(w)
<1>1. cur = CursorAt(tab, w, cur.sampleIndex, cur.chunkIndex, cur.sampleIndexInChunk,
                     cur.sttsEntryIndex, cur.sampleIndexInSttsEntry,
                     cur.cttsEntryIndex, cur.sampleIndexInCttsEntry)
  BY DEF Stands, CursorAt, Cursor
<1>2. PlacesAt(tab, cur.sampleIndex, cur.chunkIndex, cur.sampleIndexInChunk,
               cur.sttsEntryIndex, cur.sampleIndexInSttsEntry,
               cur.cttsEntryIndex, cur.sampleIndexInCttsEntry)
  BY DEF Stands, PlacesAt
<1>3. cur \in Cursor /\ cur.sampleIndex \in Nat /\ cur.sampleIndex <= Len(w)
  BY DEF Stands, Cursor
<1> QED BY <1>1, <1>2, <1>3

\* Sizes up to two places.
LEMMA PartFacts ==
  ASSUME NEW tab, NEW video, NEW w, TableTells(tab, video, w),
         NEW x \in Nat, x <= Len(w), NEW c, NEW a, InRun(Pers(tab), x, c, a)
  PROVE  LET sum(i) == SumTo(Sizes(w, Len(w)), i)
         IN /\ a \in Nat /\ c \in Nat /\ a <= x
            /\ sum(x) \in Nat /\ sum(x - a) \in Nat /\ sum(x) - sum(x - a) \in Nat
<1> DEFINE n == Len(w)
           sizes == Sizes(w, n)
           pers == Pers(tab)
<1>1. n \in Nat /\ (\A i \in 1..n : sizes[i] \in Nat) /\ pers \in Seq(Nat)
  BY DEF TableTells
<1>2. a \in Nat /\ c \in 0..Len(pers) /\ x = SumTo(pers, c) + a
  BY DEF InRun
<1> HIDE DEF sizes, pers, n
<1>3. SumTo(pers, c) \in Nat
  <2>1. Len(pers) \in Nat /\ \A i \in 1..Len(pers) : pers[i] \in Nat
    BY <1>1, SeqFacts
  <2> QED BY <1>2, <2>1, SumGrows
<1>4. x - a \in 0..n /\ x \in 0..n /\ x - a <= x /\ a <= x
  BY <1>1, <1>2, <1>3 DEF n
<1>5. SumTo(sizes, x) \in Nat /\ SumTo(sizes, x - a) \in Nat /\ SumTo(sizes, x - a) <= SumTo(sizes, x)
  <2>1. /\ \A i \in 0..n : SumTo(sizes, i) \in Nat
        /\ \A i, j \in 0..n : i <= j => SumTo(sizes, i) <= SumTo(sizes, j)
    BY <1>1, SumGrows
  <2> QED BY <1>4, <2>1
<1>6. SumTo(sizes, x) - SumTo(sizes, x - a) \in Nat
  BY <1>5
<1> QED BY <1>2, <1>3, <1>4, <1>5, <1>6 DEF sizes, n

\* The loop over the sizes of the chunk, also where all sizes are alike.
LEMMA OffsetIs ==
  ASSUME NEW tab, NEW video, NEW w, TableTells(tab, video, w),
         NEW x \in Nat, x <= Len(w), NEW c, NEW a, InRun(Pers(tab), x, c, a)
  PROVE  OffsetInChunk(tab, a, x) = SumTo(Sizes(w, Len(w)), x) - SumTo(Sizes(w, Len(w)), x - a)
<1> DEFINE n == Len(w)
           sizes == Sizes(w, n)
<1>1. /\ n \in Nat /\ (\A i \in 1..n : sizes[i] \in Nat) /\ tab.fixed \in Nat
      /\ \A i \in 1..n : sizes[i] = IF tab.fixed # 0 THEN tab.fixed ELSE tab.sizes[i]
      /\ tab.sizes = IF tab.fixed # 0 THEN <<>> ELSE sizes
  BY DEF TableTells
<1>2. a \in Nat /\ a <= x /\ SumTo(sizes, x - a) \in Nat
  BY PartFacts
<1>3. CASE tab.fixed = 0
  BY <1>1, <1>3 DEF OffsetInChunk
<1>4. CASE tab.fixed # 0
  <2> DEFINE y == x - a
             k == tab.fixed
  <2>1. x \in Nat /\ y \in Nat /\ y <= x /\ x - y = a /\ k \in Int /\ \A i \in 1..x : i \in 1..n
    BY <1>1, <1>2
  <2>2. (\A i \in 1..x : sizes[i] \in Int) /\ \A i \in y + 1..x : sizes[i] = k
    <3>1. \A i \in 1..n : sizes[i] = k /\ sizes[i] \in Int
      BY <1>1, <1>4
    <3>2. \A i \in y + 1..x : i \in 1..x
      BY <2>1
    <3> HIDE DEF sizes, y, k
    <3> QED BY <2>1, <3>1, <3>2
  <2> HIDE DEF y, k, sizes
  <2>3. SumTo(sizes, x) = SumTo(sizes, y) + (x - y) * k
    BY <2>1, <2>2, SumAlike
  <2>4. SumTo(sizes, y) \in Nat /\ a * k \in Int
    BY <1>2, <2>1 DEF y
  <2>5. SumTo(sizes, x) - SumTo(sizes, y) = a * k
    BY <2>1, <2>3, <2>4
  <2>6. OffsetInChunk(tab, a, x) = a * k
    BY <1>4 DEF OffsetInChunk, k
  <2> QED BY <2>5, <2>6 DEF y, sizes
<1> QED BY <1>3, <1>4

\* A seek within the track sets the cursor as its places are.
LEMMA SetIs ==
  ASSUME NEW tab, NEW video, NEW w, TableTells(tab, video, w), NEW cur,
         NEW x \in Nat, x < Len(w), NEW c, NEW a, NEW e, NEW b, NEW f, NEW g,
         PlacesAt(tab, x, c, a, e, b, f, g)
  PROVE  setSampleIndex(tab, cur, x) = [ok |-> TRUE, cur |-> CursorAt(tab, w, x, c, a, e, b, f, g)]
<1> DEFINE n == Len(w)
           sizes == Sizes(w, n)
           pers == Pers(tab)
           T == Column(tab.stts, "count")
           C == Column(tab.ctts, "count")
<1>1. /\ n \in Nat /\ pers \in Seq(Nat) /\ Total(pers) = n
      /\ RunsOf(tab.stts, "duration", Durations(w), n)
      /\ IF video THEN RunsOf(tab.ctts, "offset", Offsets(w), n) ELSE tab.ctts = <<>>
      /\ tab.sizes = IF tab.fixed # 0 THEN <<>> ELSE sizes
      /\ \A i \in 1..n : sizes[i] \in Nat
  BY DEF TableTells
<1>2. /\ InRun(pers, x, c, a) /\ InRun(T, x, e, b)
      /\ IF tab.ctts = <<>> THEN f = 0 /\ g = 0 ELSE InRun(C, x, f, g)
  BY DEF PlacesAt
<1>3. T \in Seq(Nat) /\ Total(T) = n /\ Len(T) = Len(tab.stts)
  <2>1. RunsTell(tab.stts, T, "duration", Durations(w), n)
    BY <1>1, RunsFacts
  <2> HIDE DEF T
  <2> QED BY <2>1 DEF RunsTell
<1> HIDE DEF n, sizes, pers, T, C
<1>4. Locate(pers, x) = [found |-> TRUE, entry |-> c, at |-> a]
  <2>1. c \in 0..Len(pers) - 1
    <3>1. c \in 0..Len(pers) /\ c < Len(pers) /\ Len(pers) \in Nat
      BY <1>1, <1>2, InRunEnd, SeqFacts DEF n
    <3> QED BY <3>1
  <2> QED BY <1>1, <1>2, <2>1, LocateAt
<1>5. Locate(T, x) = [found |-> TRUE, entry |-> e, at |-> b] /\ e < Len(tab.stts)
  <2>1. e \in 0..Len(T) - 1 /\ e < Len(T)
    <3>1. e \in 0..Len(T) /\ e < Len(T) /\ Len(T) \in Nat
      BY <1>2, <1>3, InRunEnd, SeqFacts DEF n
    <3> QED BY <3>1
  <2> QED BY <1>2, <1>3, <2>1, LocateAt
<1>6. Locate(C, x) = [found |-> tab.ctts # <<>>, entry |-> f, at |-> g]
  <2>1. CASE tab.ctts = <<>>
    <3>1. C = <<>>
      BY <2>1 DEF C, Column
    <3> QED BY <1>2, <2>1, <3>1, LocateNothing
  <2>2. CASE tab.ctts # <<>>
    <3>1. RunsOf(tab.ctts, "offset", Offsets(w), n)
      BY <1>1, <2>2
    <3>2. RunsTell(tab.ctts, C, "offset", Offsets(w), n)
      BY <3>1, RunsFacts DEF C
    <3>3. C \in Seq(Nat) /\ Total(C) = n
      BY <3>2 DEF RunsTell
    <3>4. InRun(C, x, f, g)
      BY <1>2, <2>2
    <3>5. f \in 0..Len(C) - 1
      <4>1. f \in 0..Len(C) /\ f < Len(C) /\ Len(C) \in Nat
        BY <3>3, <3>4, InRunEnd, SeqFacts DEF n
      <4> QED BY <4>1
    <3>6. Locate(C, x) = [found |-> TRUE, entry |-> f, at |-> g]
      BY <3>3, <3>4, <3>5, LocateAt
    <3> QED BY <2>2, <3>6
  <2> QED BY <2>1, <2>2
<1>7. setSampleIndex(tab, cur, x) =
        SetTo(tab, cur, x, Locate(pers, x), Locate(T, x), Locate(C, x))
  BY DEF setSampleIndex, pers, T, C
<1>8. tab.fixed # 0 \/ x < Len(tab.sizes)
  <2>1. Len(sizes) = n
    <3>1. sizes = [i \in 1..n |-> sizes[i]]
      BY DEF sizes, Sizes
    <3> QED BY <1>1, <3>1, MakesSeq
  <2> QED BY <1>1, <2>1 DEF n
<1>9. OffsetInChunk(tab, a, x) = SumTo(sizes, x) - SumTo(sizes, x - a)
  BY <1>1, <1>2, OffsetIs DEF sizes, pers, n
<1>10. SumTo(Spans(tab), e) + b * tab.stts[e + 1].duration = SumTo(Durations(w), x)
  <2>1. Spans(tab) = Products(tab.stts, "duration")
    BY DEF Spans, Products
  <2>2. SumTo(Durations(w), x) = SumTo(Products(tab.stts, "duration"), e) + b * tab.stts[e + 1]["duration"]
    BY <1>1, <1>2, <1>5, RunSums DEF T
  <2> QED BY <2>1, <2>2
<1> DEFINE lp == [found |-> TRUE, entry |-> c, at |-> a]
           lt == [found |-> TRUE, entry |-> e, at |-> b]
           lc == [found |-> tab.ctts # <<>>, entry |-> f, at |-> g]
<1>11. SetTo(tab, cur, x, lp, lt, lc) = [ok |-> TRUE, cur |-> CursorAt(tab, w, x, c, a, e, b, f, g)]
  <2>1. lp.found /\ lt.found /\ (tab.ctts = <<>> \/ lc.found)
    OBVIOUS
  <2>2. lp.entry = c /\ lp.at = a /\ lt.entry = e /\ lt.at = b /\ lc.entry = f /\ lc.at = g
    OBVIOUS
  <2> HIDE DEF lp, lt, lc
  <2> QED BY <1>8, <1>9, <1>10, <2>1, <2>2 DEF SetTo, CursorAt, sizes, n
<1> QED BY <1>4, <1>5, <1>6, <1>7, <1>11

\* The cursor of such places stands at the sample.
LEMMA PlacesStand ==
  ASSUME NEW tab, NEW video, NEW w, TableTells(tab, video, w),
         NEW x \in Nat, x <= Len(w), NEW c, NEW a, NEW e, NEW b, NEW f, NEW g,
         PlacesAt(tab, x, c, a, e, b, f, g)
  PROVE  Stands(tab, w, CursorAt(tab, w, x, c, a, e, b, f, g))
<1> DEFINE cur == CursorAt(tab, w, x, c, a, e, b, f, g)
           n == Len(w)
<1>1. /\ n \in Nat /\ \A i \in 1..n : Durations(w)[i] \in Nat
      /\ tab.synced = video
      /\ IF video THEN Lists(tab.sync, {i \in 1 .. n : w[i].key}) ELSE tab.sync = <<>>
  BY DEF TableTells
<1>2. /\ InRun(Pers(tab), x, c, a) /\ InRun(Column(tab.stts, "count"), x, e, b)
      /\ IF tab.ctts = <<>> THEN f = 0 /\ g = 0 ELSE InRun(Column(tab.ctts, "count"), x, f, g)
  BY DEF PlacesAt
<1>3. e \in Nat /\ b \in Nat /\ f \in Nat /\ g \in Nat
  <2>1. \A counts : \A p, q : InRun(counts, x, p, q) => p \in Nat /\ q \in Nat
    BY DEF InRun
  <2> QED BY <1>2, <2>1
<1>4. /\ a \in Nat /\ c \in Nat
      /\ SumTo(Sizes(w, Len(w)), x) - SumTo(Sizes(w, Len(w)), x - a) \in Nat
  BY <1>2, PartFacts
<1>5. SumTo(Durations(w), x) \in Nat
  <2>1. x \in 0..n
    BY <1>1
  <2> QED BY <1>1, <2>1, SumGrows
<1>6. (IF tab.synced THEN SyncBefore(tab.sync, x) ELSE 0) \in Nat
  <2>1. CASE tab.synced /\ tab.sync # <<>>
    <3>1. tab.sync \in Seq(Nat) /\ x \in Int
      BY <1>1, <2>1 DEF Lists
    <3>2. KeyPlace(tab.sync, x, SyncBefore(tab.sync, x))
      BY <2>1, <3>1, SyncBeforeFacts
    <3>3. SyncBefore(tab.sync, x) \in Nat
      BY <3>2 DEF KeyPlace
    <3> QED BY <2>1, <3>3
  <2>2. CASE tab.sync = <<>>
    BY <2>2 DEF SyncBefore
  <2>3. CASE ~tab.synced
    BY <2>3
  <2> QED BY <2>1, <2>2, <2>3
<1>7. GroupOf(tab, c) \in Nat
  BY <1>4, GroupFacts
<1>8. cur \in Cursor
  BY <1>3, <1>4, <1>5, <1>6, <1>7 DEF Cursor, CursorAt
<1> QED BY <1>2, <1>8 DEF Stands, CursorAt

\* A cursor that stands in the track stands where a seek would put it.
LEMMA StandsAgrees ==
  ASSUME NEW tab, NEW video, NEW w, TableTells(tab, video, w), NEW cur,
         Stands(tab, w, cur), cur.sampleIndex < Len(w)
  PROVE  setSampleIndex(tab, cur, cur.sampleIndex) = [ok |-> TRUE, cur |-> cur]
<1> DEFINE x == cur.sampleIndex
           c == cur.chunkIndex
           a == cur.sampleIndexInChunk
           e == cur.sttsEntryIndex
           b == cur.sampleIndexInSttsEntry
           f == cur.cttsEntryIndex
           g == cur.sampleIndexInCttsEntry
<1>1. cur = CursorAt(tab, w, x, c, a, e, b, f, g) /\ PlacesAt(tab, x, c, a, e, b, f, g)
      /\ x \in Nat /\ x < Len(w)
  BY StandsIs
<1> HIDE DEF x, c, a, e, b, f, g
<1>2. setSampleIndex(tab, cur, x) = [ok |-> TRUE, cur |-> CursorAt(tab, w, x, c, a, e, b, f, g)]
  BY <1>1, SetIs
<1> QED BY <1>1, <1>2 DEF x

\* Every seek within a track succeeds, and comes to the sample.
LEMMA SetStands ==
  ASSUME NEW tab, NEW video, NEW w, TableTells(tab, video, w), NEW cur,
         NEW x \in Nat, x < Len(w)
  PROVE  \E r : /\ setSampleIndex(tab, cur, x) = [ok |-> TRUE, cur |-> r]
                /\ Stands(tab, w, r) /\ r.sampleIndex = x
<1> DEFINE n == Len(w)
           pers == Pers(tab)
           T == Column(tab.stts, "count")
           C == Column(tab.ctts, "count")
<1>1. /\ n \in Nat /\ pers \in Seq(Nat) /\ Total(pers) = n
      /\ RunsOf(tab.stts, "duration", Durations(w), n)
      /\ IF video THEN RunsOf(tab.ctts, "offset", Offsets(w), n) ELSE tab.ctts = <<>>
  BY DEF TableTells
<1>2. T \in Seq(Nat) /\ Total(T) = n
  <2>1. RunsTell(tab.stts, T, "duration", Durations(w), n)
    BY <1>1, RunsFacts
  <2> HIDE DEF T
  <2> QED BY <2>1 DEF RunsTell
<1>3. tab.ctts # <<>> => C \in Seq(Nat) /\ Total(C) = n
  <2> HAVE tab.ctts # <<>>
  <2>1. RunsOf(tab.ctts, "offset", Offsets(w), n)
    BY <1>1
  <2>2. RunsTell(tab.ctts, C, "offset", Offsets(w), n)
    BY <2>1, RunsFacts
  <2> HIDE DEF C
  <2> QED BY <2>2 DEF RunsTell
<1> HIDE DEF pers, T, C
<1>4. \A s \in Seq(Nat) : Total(s) = n => \E p, q : InRun(s, x, p, q)
  BY LocateFinds
<1>5. PICK c, a : InRun(pers, x, c, a)
  BY <1>1, <1>4
<1>6. PICK e, b : InRun(T, x, e, b)
  BY <1>2, <1>4
<1>7. PICK f, g : IF tab.ctts = <<>> THEN f = 0 /\ g = 0 ELSE InRun(C, x, f, g)
  <2>1. CASE tab.ctts = <<>>
    BY <2>1
  <2>2. CASE tab.ctts # <<>>
    BY <1>3, <1>4, <2>2
  <2> QED BY <2>1, <2>2
<1>8. PlacesAt(tab, x, c, a, e, b, f, g)
  BY <1>5, <1>6, <1>7 DEF PlacesAt, pers, T, C
<1> DEFINE r == CursorAt(tab, w, x, c, a, e, b, f, g)
<1>9. setSampleIndex(tab, cur, x) = [ok |-> TRUE, cur |-> r]
  BY <1>8, SetIs
<1>10. x <= Len(w)
  BY <1>1
<1>11. Stands(tab, w, r)
  BY <1>8, <1>10, PlacesStand
<1>12. r.sampleIndex = x
  BY DEF CursorAt
<1> HIDE DEF r
<1> QED BY <1>9, <1>11, <1>12

-----------------------------------------------------------------------------
(* One sample on. *)
LEMMA NextStands ==
  ASSUME NEW tab, NEW video, NEW w, TableTells(tab, video, w), NEW cur,
         Stands(tab, w, cur), cur.sampleIndex < Len(w)
  PROVE  /\ Stands(tab, w, incSampleIndex(tab, cur))
         /\ incSampleIndex(tab, cur).sampleIndex = cur.sampleIndex + 1
<1> DEFINE n == Len(w)
           sizes == Sizes(w, n)
           pers == Pers(tab)
           T == Column(tab.stts, "count")
           C == Column(tab.ctts, "count")
           D == Durations(w)
           sum(i) == SumTo(sizes, i)
           inc == incSampleIndex(tab, cur)
           x == cur.sampleIndex
           c == cur.chunkIndex
           a == cur.sampleIndexInChunk
           e == cur.sttsEntryIndex
           b == cur.sampleIndexInSttsEntry
           f == cur.cttsEntryIndex
           g == cur.sampleIndexInCttsEntry
<1>1. /\ n \in Nat /\ \A i \in 1..n : D[i] \in Nat /\ sizes[i] \in Nat
      /\ pers \in Seq(Nat) /\ Positive(pers) /\ Total(pers) = n /\ Len(pers) = Len(tab.offsets)
      /\ RunsOf(tab.stts, "duration", D, n)
      /\ IF video THEN RunsOf(tab.ctts, "offset", Offsets(w), n) ELSE tab.ctts = <<>>
      /\ tab.synced = video
      /\ IF video THEN Lists(tab.sync, {i \in 1 .. n : w[i].key}) ELSE tab.sync = <<>>
      /\ tab.groups \in Seq([first : Nat, per : Nat])
      /\ \A p, q \in DOMAIN tab.groups : p < q => tab.groups[p].first < tab.groups[q].first
      /\ \A i \in 1..n : sizes[i] = IF tab.fixed # 0 THEN tab.fixed ELSE tab.sizes[i]
  BY DEF TableTells
<1>2. /\ InRun(pers, x, c, a) /\ InRun(T, x, e, b) /\ x \in Nat /\ x < n
      /\ IF tab.ctts = <<>> THEN f = 0 /\ g = 0 ELSE InRun(C, x, f, g)
  BY StandsIs DEF PlacesAt
<1>20. n \in Nat /\ \A i \in 1..n : sizes[i] \in Nat /\ sizes[i] = IF tab.fixed # 0 THEN tab.fixed ELSE tab.sizes[i]
  BY <1>1
<1>21. a <= x /\ sum(x - a) \in Nat
  <2>1. x <= Len(w)
    BY <1>20, <1>2
  <2>2. InRun(Pers(tab), x, c, a) /\ x \in Nat
    BY <1>2
  <2> HIDE DEF x, a, c
  <2>3. a <= x /\ SumTo(Sizes(w, Len(w)), x - a) \in Nat
    BY <2>1, <2>2, PartFacts
  <2> QED BY <2>3
<1>3. /\ cur.chunkGroupIndex = GroupOf(tab, c)
      /\ cur.sampleOffsetInChunk = sum(x) - sum(x - a)
      /\ cur.dts = SumTo(D, x)
      /\ cur.syncSampleIndex = IF tab.synced THEN SyncBefore(tab.sync, x) ELSE 0
  BY DEF Stands
<1>4. /\ T \in Seq(Nat) /\ Positive(T) /\ Total(T) = n /\ Len(T) = Len(tab.stts)
  <2>1. RunsTell(tab.stts, T, "duration", D, n)
    BY <1>1, RunsFacts
  <2> HIDE DEF T, D, n
  <2> QED BY <2>1 DEF RunsTell
<1>5. tab.ctts # <<>> => C \in Seq(Nat) /\ Positive(C) /\ Total(C) = n
  <2> HAVE tab.ctts # <<>>
  <2>1. RunsOf(tab.ctts, "offset", Offsets(w), n)
    BY <1>1
  <2>2. RunsTell(tab.ctts, C, "offset", Offsets(w), n)
    BY <2>1, RunsFacts
  <2> HIDE DEF C, n
  <2> QED BY <2>2 DEF RunsTell
<1>6. /\ x + 1 \in Nat /\ x + 1 <= n /\ (x + 1) - 1 = x
      /\ SumTo(D, x + 1) = SumTo(D, x) + D[x + 1]
      /\ sum(x + 1) = sum(x) + sizes[x + 1] /\ sum(x) \in Nat
  <2>1. x + 1 \in Nat /\ x + 1 <= n /\ (x + 1) - 1 = x /\ x + 1 > 0 /\ x \in Nat /\ x \in 0..n
    BY <1>1, <1>2
  <2>2. \A i \in 1..x + 1 : i \in 1..n
    BY <1>1, <2>1
  <2>3. \A i \in 1..x + 1 : D[i] \in Int /\ sizes[i] \in Int
    BY <1>1, <2>2
  <2> HIDE DEF D, sizes, x
  <2>4. SumTo(D, x + 1) = SumTo(D, (x + 1) - 1) + D[x + 1]
    BY <2>1, <2>3, SumFacts
  <2>5. SumTo(sizes, x + 1) = SumTo(sizes, (x + 1) - 1) + sizes[x + 1]
    BY <2>1, <2>3, SumFacts
  <2>6. SumTo(sizes, x) \in Nat
    BY <1>1, <2>1, SumGrows
  <2> QED BY <2>1, <2>4, <2>5, <2>6
<1> DEFINE fresh == a + 1 = pers[c + 1]
<1>7. /\ tab.groups[cur.chunkGroupIndex + 1].per = pers[c + 1]
      /\ c \in 0..Len(pers) - 1 /\ a \in Nat
  <2>1. c \in 0..Len(pers) /\ c < Len(pers) /\ a \in Nat
    BY <1>1, <1>2, InRunEnd
  <2>2. Len(pers) \in Nat
    BY <1>1, SeqFacts, Zenon
  <2>3. c \in 0..Len(pers) - 1 /\ c + 1 \in 1..Len(pers) /\ (c + 1) - 1 = c
    BY <2>1, <2>2
  <2>4. DOMAIN tab.offsets = DOMAIN pers /\ DOMAIN pers = 1..Len(pers)
    <3>1. DOMAIN pers = 1..Len(pers)
      BY <1>1, SeqFacts, Zenon
    <3>2. DOMAIN pers = DOMAIN tab.offsets
      BY DEF Pers
    <3> QED BY <3>1, <3>2
  <2>5. pers[c + 1] = tab.groups[GroupOf(tab, (c + 1) - 1) + 1].per
    BY <2>3, <2>4 DEF Pers
  <2> QED BY <1>3, <2>1, <2>3, <2>5
<1> DEFINE c2 == inc.chunkIndex
           a2 == inc.sampleIndexInChunk
           e2 == inc.sttsEntryIndex
           b2 == inc.sampleIndexInSttsEntry
           f2 == inc.cttsEntryIndex
           g2 == inc.sampleIndexInCttsEntry
<1>8. /\ c2 = IF fresh THEN c + 1 ELSE c
      /\ a2 = IF fresh THEN 0 ELSE a + 1
      /\ inc.chunkGroupIndex = GroupAt(tab, cur.chunkGroupIndex, c2)
      /\ inc.sampleOffsetInChunk =
           IF fresh THEN 0
           ELSE cur.sampleOffsetInChunk + IF tab.fixed # 0 THEN tab.fixed ELSE tab.sizes[x + 1]
      /\ inc.dts = cur.dts + tab.stts[e + 1].duration
      /\ e2 = OnePlaceOn(T, e, b)[1] /\ b2 = OnePlaceOn(T, e, b)[2]
      /\ f2 = IF tab.ctts = <<>> THEN f ELSE OnePlaceOn(C, f, g)[1]
      /\ g2 = IF tab.ctts = <<>> THEN g ELSE OnePlaceOn(C, f, g)[2]
      /\ inc.syncSampleIndex =
           IF tab.synced /\ cur.syncSampleIndex + 1 < Len(tab.sync)
                /\ tab.sync[cur.syncSampleIndex + 2] - 1 = x + 1
           THEN cur.syncSampleIndex + 1 ELSE cur.syncSampleIndex
      /\ inc.sampleIndex = x + 1
      /\ inc = [chunkGroupIndex |-> inc.chunkGroupIndex, chunkIndex |-> c2,
                sampleIndexInChunk |-> a2,
                sampleOffsetInChunk |-> inc.sampleOffsetInChunk, dts |-> inc.dts,
                sttsEntryIndex |-> e2, sampleIndexInSttsEntry |-> b2,
                cttsEntryIndex |-> f2, sampleIndexInCttsEntry |-> g2,
                syncSampleIndex |-> inc.syncSampleIndex, sampleIndex |-> inc.sampleIndex]
  <2> HIDE DEF inc, T, C, pers
  <2> QED BY <1>7, IncFields DEF inc, T, C
<1> HIDE DEF inc, T, C, pers, D, sizes, n, x, c, a, e, b, f, g, c2, a2, e2, b2, f2, g2
<1>9. InRun(pers, x + 1, c2, a2)
  <2>1. InRun(pers, x + 1, OnePlaceOn(pers, c, a)[1], OnePlaceOn(pers, c, a)[2])
    BY <1>1, <1>2, <1>7, InRunNext
  <2>2. OnePlaceOn(pers, c, a)[1] = c2 /\ OnePlaceOn(pers, c, a)[2] = a2
    BY <1>8 DEF OnePlaceOn
  <2> QED BY <2>1, <2>2
<1>10. InRun(T, x + 1, e2, b2) /\ e \in 0..Len(T) - 1
  <2>1. e \in 0..Len(T) - 1
    <3>1. e \in 0..Len(T) /\ e < Len(T) /\ Len(T) \in Nat
      BY <1>2, <1>4, InRunEnd, SeqFacts
    <3> QED BY <3>1
  <2>2. InRun(T, x + 1, OnePlaceOn(T, e, b)[1], OnePlaceOn(T, e, b)[2])
    BY <1>2, <1>4, <2>1, InRunNext
  <2> QED BY <1>8, <2>1, <2>2
<1>11. IF tab.ctts = <<>> THEN f2 = 0 /\ g2 = 0 ELSE InRun(C, x + 1, f2, g2)
  <2>1. CASE tab.ctts = <<>>
    BY <1>2, <1>8, <2>1
  <2>2. CASE tab.ctts # <<>>
    <3>1. C \in Seq(Nat) /\ Positive(C) /\ Total(C) = n /\ InRun(C, x, f, g)
      BY <1>2, <1>5, <2>2
    <3>2. f \in 0..Len(C) - 1
      <4>1. f \in 0..Len(C) /\ f < Len(C) /\ Len(C) \in Nat
        BY <1>2, <3>1, InRunEnd, SeqFacts
      <4> QED BY <4>1
    <3>3. InRun(C, x + 1, OnePlaceOn(C, f, g)[1], OnePlaceOn(C, f, g)[2])
      BY <1>2, <3>1, <3>2, InRunNext
    <3> QED BY <1>8, <2>2, <3>3
  <2> QED BY <2>1, <2>2
<1>12. PlacesAt(tab, x + 1, c2, a2, e2, b2, f2, g2)
  BY <1>9, <1>10, <1>11 DEF PlacesAt, pers, T, C
<1>13. inc.chunkGroupIndex = GroupOf(tab, c2)
  <2>1. c \in Nat
    BY <1>7
  <2>2. CASE fresh
    <3>1. GroupOf(tab, c + 1) = GroupAt(tab, GroupOf(tab, c), c + 1)
      BY <2>1, GroupFacts
    <3> QED BY <1>3, <1>8, <2>2, <3>1
  <2>3. CASE ~fresh
    <3>1. GroupAt(tab, GroupOf(tab, c), c) = GroupOf(tab, c)
      BY <1>1, <2>1, GroupAgain
    <3> QED BY <1>3, <1>8, <2>3, <3>1
  <2> QED BY <2>2, <2>3
<1>14. inc.sampleOffsetInChunk = sum(x + 1) - sum((x + 1) - a2)
  <2>2. sizes[x + 1] \in Nat /\ sizes[x + 1] = IF tab.fixed # 0 THEN tab.fixed ELSE tab.sizes[x + 1]
    <3>1. x + 1 \in 1..n
      <4> DEFINE z == x + 1
      <4>1. z \in Nat /\ z <= n /\ n \in Nat /\ x \in Nat
        BY <1>20, <1>6, <1>2
      <4>2. z >= 1
        BY <4>1
      <4> HIDE DEF z
      <4>3. z \in 1..n
        BY <4>1, <4>2
      <4> QED BY <4>3 DEF z
    <3> QED BY <1>20, <3>1
  <2> HIDE DEF sum
  <2>3. CASE fresh
    <3>1. (x + 1) - a2 = x + 1 /\ inc.sampleOffsetInChunk = 0
      BY <1>2, <1>6, <1>8, <2>3
    <3>2. sum(x + 1) \in Nat
      BY <1>6, <2>2
    <3> QED BY <3>1, <3>2
  <2>4. CASE ~fresh
    <3>1. (x + 1) - a2 = x - a
      BY <1>2, <1>7, <1>8, <2>4
    <3>2. inc.sampleOffsetInChunk = (sum(x) - sum(x - a)) + sizes[x + 1]
      BY <1>3, <1>8, <2>2, <2>4
    <3> QED BY <1>6, <1>21, <2>2, <3>1, <3>2
  <2> QED BY <2>3, <2>4
<1>15. inc.dts = SumTo(D, x + 1)
  <2>1. e < Len(tab.stts)
    <3>1. Len(T) \in Nat
      BY <1>4, SeqFacts, Zenon
    <3> QED BY <1>4, <1>10, <3>1
  <2>2. D[x + 1] = tab.stts[e + 1]["duration"]
    BY <1>1, <1>2, <2>1, RunValue DEF T
  <2>3. tab.stts[e + 1].duration = tab.stts[e + 1]["duration"]
    OBVIOUS
  <2> QED BY <1>3, <1>6, <1>8, <2>2, <2>3
<1>16. inc.syncSampleIndex = IF tab.synced THEN SyncBefore(tab.sync, x + 1) ELSE 0
  <2>1. CASE tab.synced
    <3>1. tab.sync \in Seq(Nat) /\ \A i, j \in DOMAIN tab.sync : i < j => tab.sync[i] < tab.sync[j]
      BY <1>1, <2>1 DEF Lists
    <3> DEFINE s == SyncBefore(tab.sync, x)
    <3>2. SyncBefore(tab.sync, x + 1) = IF s + 1 < Len(tab.sync) /\ tab.sync[s + 2] - 1 = x + 1 THEN s + 1 ELSE s
      BY <1>2, <3>1, SyncNext
    <3> HIDE DEF s
    <3>3. cur.syncSampleIndex = s
      BY <1>3, <2>1 DEF s
    <3> QED BY <1>8, <2>1, <3>2, <3>3
  <2>2. CASE ~tab.synced
    BY <1>3, <1>8, <2>2
  <2> QED BY <2>1, <2>2
<1>17. inc = CursorAt(tab, w, x + 1, c2, a2, e2, b2, f2, g2)
  BY <1>8, <1>13, <1>14, <1>15, <1>16 DEF CursorAt, sum, sizes, n, D
<1>18. Stands(tab, w, CursorAt(tab, w, x + 1, c2, a2, e2, b2, f2, g2))
  BY <1>6, <1>12, PlacesStand DEF n
<1> QED BY <1>8, <1>17, <1>18 DEF inc, x

-----------------------------------------------------------------------------
(* The muxer's tables. *)
\* Runs tell the values that are there, whatever comes behind.
LEMMA RunsAgree ==
  ASSUME NEW runs, NEW field, NEW vals, NEW n, RunsOf(runs, field, vals, n),
         NEW other, \A i \in 1..n : other[i] = vals[i]
  PROVE  RunsOf(runs, field, other, n)
<1> DEFINE counts == Column(runs, "count")
<1>1. RunsTell(runs, counts, field, vals, n)
  BY RunsFacts
<1>2. /\ runs \in Seq([{"count", field} -> Nat]) /\ Positive(counts) /\ Total(counts) = n
      /\ \A e \in DOMAIN runs : \A i \in SumTo(counts, e - 1) + 1 .. SumTo(counts, e) : vals[i] = runs[e][field]
  BY DEF RunsOf
<1> HIDE DEF counts
<1>3. \A e \in 1..Len(runs) : \A i \in SumTo(counts, e - 1) + 1 .. SumTo(counts, e) : i \in 1..n
  <2>1. /\ Len(counts) \in Nat /\ Len(counts) = Len(runs) /\ \A e \in 1..Len(counts) : counts[e] \in Nat
        /\ SumTo(counts, Len(counts)) = n
    BY <1>1 DEF RunsTell, Total
  <2>2. /\ \A e \in 0..Len(counts) : SumTo(counts, e) \in Nat
        /\ \A d, e \in 0..Len(counts) : d <= e => SumTo(counts, d) <= SumTo(counts, e)
    BY <2>1, SumGrows
  <2> TAKE e \in 1..Len(runs)
  <2>3. e \in 0..Len(counts) /\ e - 1 \in 0..Len(counts) /\ Len(counts) \in 0..Len(counts) /\ e <= Len(counts)
    BY <2>1
  <2>4. SumTo(counts, e - 1) \in Nat /\ SumTo(counts, e) \in Nat /\ SumTo(counts, e) <= n /\ n \in Nat
    BY <2>1, <2>2, <2>3
  <2> QED BY <2>4
<1>4. DOMAIN runs = 1..Len(runs)
  BY <1>1 DEF RunsTell
<1>5. \A e \in DOMAIN runs : \A i \in SumTo(counts, e - 1) + 1 .. SumTo(counts, e) : other[i] = runs[e][field]
  BY <1>2, <1>3, <1>4
<1> QED BY <1>2, <1>5 DEF RunsOf, counts

\* Where one run ends and the next begins, in runs that agree with others up to m.
LEMMA GrowFits ==
  ASSUME NEW runs, NEW field, field # "count", NEW vals, NEW n \in Nat, RunsOf(runs, field, vals, n),
         NEW value \in Nat, vals[n + 1] = value
  PROVE  RunsOf(Grow(runs, field, value), field, vals, n + 1)
<1> DEFINE F == {"count", field}
           counts == Column(runs, "count")
           L == Len(runs)
           more == Grow(runs, field, value)
           grown == Column(more, "count")
           one == [r \in F |-> IF r = "count" THEN 1 ELSE value]
<1>1. RunsTell(runs, counts, field, vals, n)
  BY RunsFacts
<1>2. runs \in Seq([F -> Nat])
  BY DEF RunsOf
<1>3. /\ L \in Nat /\ Len(counts) = L /\ DOMAIN runs = 1..L /\ SumTo(counts, L) = n
      /\ \A e \in 1..L : counts[e] \in Nat \ {0} /\ counts[e] = runs[e].count /\ runs[e][field] \in Nat
      /\ \A e \in 1..L : \A i \in SumTo(counts, e - 1) + 1 .. SumTo(counts, e) : vals[i] = runs[e][field]
  <2>1. /\ counts \in Seq(Nat) /\ Positive(counts) /\ Total(counts) = n
        /\ L \in Nat /\ Len(counts) = L /\ DOMAIN runs = 1..L
        /\ \A e \in 1..L : counts[e] = runs[e].count /\ runs[e][field] \in Nat
        /\ \A e \in 1..L : \A i \in SumTo(counts, e - 1) + 1 .. SumTo(counts, e) : vals[i] = runs[e][field]
    BY <1>1 DEF RunsTell
  <2> HIDE DEF counts, L
  <2>2. SumTo(counts, L) = n
    BY <2>1 DEF Total
  <2>3. DOMAIN counts = 1..L
    BY <2>1, SeqFacts
  <2>4. \A e \in 1..L : counts[e] \in Nat \ {0}
    BY <2>1, <2>3 DEF Positive
  <2> QED BY <2>1, <2>2, <2>4
<1>4. one \in [F -> Nat] /\ one["count"] = 1 /\ one[field] = value
  OBVIOUS
<1>7. \A e \in 0..L : SumTo(counts, e) \in Nat
  <2>1. L \in Nat /\ \A e \in 1..L : counts[e] \in Nat
    BY <1>3
  <2> HIDE DEF L, counts
  <2> QED BY <2>1, SumGrows
<1>5. CASE runs # <<>> /\ Last(runs)[field] = value
  <2> DEFINE changed == [runs[L] EXCEPT !.count = @ + 1]
  <2>1. L > 0 /\ L \in 1..L /\ runs[L][field] = value
    BY <1>2, <1>3, <1>5 DEF Last
  <2>2. runs[L] \in [F -> Nat]
    <3> HIDE DEF F, L
    <3> QED BY <1>2, <1>3, <2>1, SeqFacts
  <2>3. changed \in [F -> Nat] /\ changed["count"] = runs[L]["count"] + 1 /\ changed[field] = runs[L][field]
    BY <2>2
  <2>4. more = [runs EXCEPT ![L] = changed]
    BY <1>5 DEF Grow
  <2> HIDE DEF changed, more, one, F
  <2>5. more \in Seq([F -> Nat]) /\ Len(more) = L /\ DOMAIN more = 1..L
        /\ more[L] = changed /\ \A e \in 1..L : e # L => more[e] = runs[e]
    BY <1>2, <1>3, <2>1, <2>3, <2>4
  <2>6. DOMAIN grown = 1..L /\ \A e \in 1..L : grown[e] = more[e]["count"]
    BY <2>5 DEF Column
  <2>7. runs[L].count = runs[L]["count"] /\ \A e \in 1..L : runs[e].count = runs[e]["count"]
    OBVIOUS
  <2> HIDE DEF counts, L, grown
  <2>8. grown[L] = counts[L] + 1 /\ \A e \in 1..L : e # L => grown[e] = counts[e]
    <3>1. \A e \in 1..L : counts[e] = runs[e]["count"]
      BY <1>3, <2>7
    <3>2. grown[L] = changed["count"]
      BY <2>1, <2>5, <2>6
    <3>3. grown[L] = counts[L] + 1
      BY <2>1, <2>3, <3>1, <3>2
    <3> QED BY <2>5, <2>6, <3>1, <3>3
  <2>9. \A e \in 1..L : grown[e] \in Nat \ {0} /\ grown[e] \in Int
    BY <1>3, <2>1, <2>8
  <2>10. \A e \in 0..L - 1 : SumTo(grown, e) = SumTo(counts, e)
    <3> TAKE e \in 0..L - 1
    <3>1. \A i \in 1..e : i \in 1..L /\ i # L
      BY <1>3
    <3>2. e \in Nat /\ \A i \in 1..e : counts[i] \in Int /\ grown[i] = counts[i]
      BY <1>3, <2>8, <3>1
    <3> QED BY <3>2, SumAgrees
  <2>11. SumTo(grown, L) = n + 1
    <3>1. SumTo(grown, L) = SumTo(grown, L - 1) + grown[L]
      BY <1>3, <2>1, <2>9, SumFacts
    <3>2. SumTo(counts, L) = SumTo(counts, L - 1) + counts[L] /\ SumTo(counts, L) \in Int
      <4>1. \A e \in 1..L : counts[e] \in Int
        BY <1>3
      <4> QED BY <1>3, <2>1, <4>1, SumFacts
    <3>3. L - 1 \in 0..L - 1
      BY <1>3, <2>1
    <3>4. SumTo(grown, L - 1) = SumTo(counts, L - 1)
      BY <2>10, <3>3
    <3>5. SumTo(counts, L - 1) \in Int
      <4>1. L - 1 \in 0..L
        BY <1>3, <2>1
      <4> QED BY <1>7, <4>1
    <3>6. counts[L] \in Nat
      BY <1>3, <2>1
    <3> QED BY <1>3, <2>8, <3>1, <3>2, <3>4, <3>5, <3>6
  <2>12. ASSUME NEW e \in 1..L, NEW i \in SumTo(grown, e - 1) + 1 .. SumTo(grown, e)
         PROVE  vals[i] = more[e][field]
    <3>1. e - 1 \in 0..L - 1
      BY <1>3
    <3>2. SumTo(grown, e - 1) = SumTo(counts, e - 1)
      BY <2>10, <3>1
    <3>3. CASE e # L
      <4>1. e \in 0..L - 1
        BY <1>3, <3>3
      <4>2. SumTo(grown, e) = SumTo(counts, e)
        BY <2>10, <4>1
      <4> QED BY <1>3, <2>5, <3>2, <3>3, <4>2
    <3>4. CASE e = L
      <4>1. more[e][field] = value /\ runs[e][field] = value
        BY <2>1, <2>3, <2>5, <3>4
      <4>2. CASE i = n + 1
        BY <4>1, <4>2
      <4>3. CASE i # n + 1
        <5>1. SumTo(counts, e - 1) \in Int
          <6>1. e - 1 \in 0..L
            BY <1>3
          <6> QED BY <1>7, <6>1
        <5>2. i \in SumTo(counts, e - 1) + 1 .. SumTo(counts, e)
          BY <1>3, <2>11, <3>2, <3>4, <4>3, <5>1
        <5> QED BY <1>3, <4>1, <5>2
      <4> QED BY <4>2, <4>3
    <3> QED BY <3>3, <3>4
  <2>13. Positive(grown) /\ Total(grown) = n + 1
    <3>1. Len(grown) = L
      <4>1. grown = [e \in 1..L |-> grown[e]]
        BY <2>6, <2>5 DEF grown, Column
      <4> QED BY <1>3, <2>9, <4>1, MakesSeq
    <3> QED BY <2>6, <2>9, <2>11, <3>1 DEF Positive, Total
  <2> QED BY <2>5, <2>12, <2>13 DEF RunsOf, grown, more, F
<1>6. CASE ~(runs # <<>> /\ Last(runs)[field] = value)
  <2>1. more = Append(runs, one)
    BY <1>6 DEF Grow
  <2> HIDE DEF more, one, F
  <2>2. more \in Seq([F -> Nat]) /\ Len(more) = L + 1 /\ DOMAIN more = 1..L + 1
        /\ more[L + 1] = one /\ \A e \in 1..L : more[e] = runs[e]
    BY <1>2, <1>3, <1>4, <2>1
  <2>3. DOMAIN grown = 1..L + 1 /\ \A e \in 1..L + 1 : grown[e] = more[e]["count"]
    BY <2>2 DEF Column
  <2>4. \A e \in 1..L : runs[e].count = runs[e]["count"]
    OBVIOUS
  <2> HIDE DEF counts, L, grown
  <2>5. L + 1 \in 1..L + 1 /\ (\A e \in 1..L : e \in 1..L + 1) /\ L + 1 \in Nat /\ (L + 1) - 1 = L
    BY <1>3
  <2>6. grown[L + 1] = 1 /\ \A e \in 1..L : grown[e] = counts[e]
    BY <1>3, <1>4, <2>2, <2>3, <2>4, <2>5
  <2>7. \A e \in 1..L + 1 : grown[e] \in Nat \ {0} /\ grown[e] \in Int
    <3> TAKE e \in 1..L + 1
    <3>1. CASE e = L + 1
      BY <2>6, <3>1
    <3>2. CASE e # L + 1
      <4>1. e \in 1..L
        BY <1>3, <3>2
      <4> QED BY <1>3, <2>6, <4>1
    <3> QED BY <3>1, <3>2
  <2>8. \A e \in 0..L : SumTo(grown, e) = SumTo(counts, e)
    <3> TAKE e \in 0..L
    <3>1. \A i \in 1..e : i \in 1..L
      BY <1>3
    <3>2. e \in Nat /\ \A i \in 1..e : counts[i] \in Int /\ grown[i] = counts[i]
      BY <1>3, <2>6, <3>1
    <3> QED BY <3>2, SumAgrees
  <2>9. SumTo(grown, L + 1) = n + 1
    <3>1. SumTo(grown, L + 1) = SumTo(grown, (L + 1) - 1) + grown[L + 1]
      <4>1. L + 1 > 0
        BY <1>3
      <4> QED BY <2>5, <2>7, <4>1, SumFacts
    <3>2. L \in 0..L
      BY <1>3
    <3> QED BY <1>3, <2>5, <2>6, <2>8, <3>1, <3>2
  <2>10. ASSUME NEW e \in 1..L + 1, NEW i \in SumTo(grown, e - 1) + 1 .. SumTo(grown, e)
         PROVE  vals[i] = more[e][field]
    <3>1. e - 1 \in 0..L
      BY <1>3
    <3>2. SumTo(grown, e - 1) = SumTo(counts, e - 1)
      BY <2>8, <3>1
    <3>3. CASE e # L + 1
      <4>1. e \in 1..L /\ e \in 0..L
        BY <1>3, <3>3
      <4>2. SumTo(grown, e) = SumTo(counts, e)
        BY <2>8, <4>1
      <4> QED BY <1>3, <2>2, <3>2, <4>1, <4>2
    <3>4. CASE e = L + 1
      <4>1. more[e][field] = value
        BY <1>4, <2>2, <3>4
      <4>2. i = n + 1
        BY <1>3, <2>5, <2>9, <3>2, <3>4
      <4> QED BY <4>1, <4>2
    <3> QED BY <3>3, <3>4
  <2>11. Positive(grown) /\ Total(grown) = n + 1
    <3>1. Len(grown) = L + 1
      <4>1. grown = [e \in 1..L + 1 |-> grown[e]]
        BY <2>2, <2>3 DEF grown, Column
      <4> QED BY <2>5, <2>7, <4>1, MakesSeq
    <3> QED BY <2>3, <2>7, <2>9, <3>1 DEF Positive, Total
  <2> QED BY <2>2, <2>10, <2>11 DEF RunsOf, grown, more, F
<1> QED BY <1>5, <1>6

\* A list of numbers and one that is greater than all of them.
LEMMA ListsAdd ==
  ASSUME NEW sync, NEW keys, Lists(sync, keys), NEW k \in Nat, \A j \in keys : j < k
  PROVE  Lists(Append(sync, k), keys \cup {k})
<1> DEFINE more == Append(sync, k)
           L == Len(sync)
<1>1. /\ sync \in Seq(Nat) /\ \A i, j \in DOMAIN sync : i < j => sync[i] < sync[j]
      /\ keys = {sync[i] : i \in DOMAIN sync}
  BY DEF Lists, ToSet
<1>2. L \in Nat /\ DOMAIN sync = 1..L
  BY <1>1, SeqFacts
<1>3. more \in Seq(Nat) /\ DOMAIN more = 1..L + 1 /\ more[L + 1] = k /\ \A i \in 1..L : more[i] = sync[i]
  BY <1>1, <1>2
<1> HIDE DEF more, L
<1>4. {more[i] : i \in 1..L + 1} = {sync[i] : i \in 1..L} \cup {k}
  <2>1. 1..L + 1 = (1..L) \cup {L + 1}
    BY <1>2
  <2> QED BY <1>3, <2>1
<1>5. ASSUME NEW i \in 1..L + 1, NEW j \in 1..L + 1, i < j PROVE more[i] < more[j]
  <2>1. i \in 1..L
    BY <1>2, <1>5
  <2>2. CASE j = L + 1
    <3>1. sync[i] \in keys
      BY <1>1, <1>2, <2>1
    <3> QED BY <1>3, <2>1, <2>2, <3>1
  <2>3. CASE j # L + 1
    <3>1. j \in 1..L
      BY <1>2, <2>3
    <3> QED BY <1>1, <1>2, <1>3, <1>5, <2>1, <3>1
  <2> QED BY <2>2, <2>3
<1> QED BY <1>1, <1>2, <1>3, <1>4, <1>5 DEF Lists, ToSet, more

-----------------------------------------------------------------------------
(* One packet more in the tables. *)
\* Ticks do not go back.
LEMMA TicksFacts ==
  ASSUME NEW x \in Nat
  PROVE  timeToTs(x) \in Nat /\ tsToTime(x) \in Nat
<1>1. TimeScale \in Nat \ {0} /\ Second \in Nat \ {0}
  BY ScaleAssumption
<1>2. x * TimeScale \in Nat /\ x * Second \in Nat
  BY <1>1
<1>3. \A p \in Nat, q \in Nat \ {0} : p \div q \in Nat
  OBVIOUS
<1> QED BY <1>1, <1>2, <1>3 DEF timeToTs, tsToTime

\* What is left of a number in 32 bits, and what fits stays.
LEMMA WrapFacts ==
  ASSUME NEW x \in Nat
  PROVE  x % Wrap \in Nat /\ x % Wrap <= x /\ (x < Wrap => x % Wrap = x)
<1>1. Wrap \in Nat \ {0}
  BY WrapAssumption
<1> DEFINE b == Wrap
<1> HIDE DEF b
<1>2. b \in Nat \ {0}
  BY <1>1 DEF b
<1>3. x % b \in Nat /\ x % b <= x /\ (x < b => x % b = x)
  BY <1>2
<1> QED BY <1>3 DEF b

\* A table tells of packets whatever comes behind, but the duration of the last.
LEMMA DescribedAgree ==
  ASSUME NEW tab, NEW video \in BOOLEAN, NEW w \in Seq(Pkt), NEW v \in Seq(Pkt), NEW m \in Nat,
         m <= Len(w), m <= Len(v), \A i \in 1..m : w[i] = v[i] /\ Gap(w, i) = Gap(v, i),
         Described(tab, video, w, m)
  PROVE  Described(tab, video, v, m)
<1>1. /\ DOMAIN w = 1..Len(w) /\ Len(w) \in Nat /\ DOMAIN v = 1..Len(v) /\ Len(v) \in Nat
  BY SeqFacts
<1>2. \A i \in 1..m : i \in DOMAIN w /\ i \in DOMAIN v
  BY <1>1
<1>3. \A i \in 1..m : Durations(v)[i] = Durations(w)[i] /\ Offsets(v)[i] = Offsets(w)[i]
  BY <1>2 DEF Durations, Offsets
<1>4. RunsOf(tab.stts, "duration", Durations(v), m)
  BY <1>3, RunsAgree DEF Described
<1>5. IF video THEN RunsOf(tab.ctts, "offset", Offsets(v), m) ELSE tab.ctts = <<>>
  BY <1>3, RunsAgree DEF Described
<1>6. {i \in 1 .. m : w[i].key} = {i \in 1 .. m : v[i].key}
  OBVIOUS
<1> QED BY <1>4, <1>5, <1>6 DEF Described

\* The tables of one sample a chunk need only the packets they tell of.
LEMMA OneEachAgree ==
  ASSUME NEW tab, NEW w, NEW v, NEW m \in Nat, \A i \in 1..m : w[i] = v[i], OneEach(tab, w, m)
  PROVE  OneEach(tab, v, m)
<1>1. Sizes(w, m) = Sizes(v, m)
  BY DEF Sizes
<1> QED BY <1>1 DEF OneEach

\* So does where the data is.
LEMMA InPlaceAgree ==
  ASSUME NEW tab, NEW w, NEW v, NEW m \in Nat, \A i \in 1..m : w[i] = v[i],
         tab.offsets \in Seq(Nat), Len(tab.offsets) = m, NEW d, InPlace(tab, w, d)
  PROVE  InPlace(tab, v, d)
<1>1. DOMAIN tab.offsets = 1..m
  BY SeqFacts
<1> QED BY <1>1 DEF InPlace

\* One packet more is told.
LEMMA AddDescribes ==
  ASSUME NEW tab, NEW video \in BOOLEAN, NEW w \in Seq(Pkt), NEW n \in Nat, n < Len(w),
         Described(tab, video, w, n), OneEach(tab, w, n), Gap(w, n + 1) \in Nat, NEW at \in Nat
  PROVE  LET add == AddSample(tab, video, w[n + 1], Gap(w, n + 1), at)
         IN /\ Described(add, video, w, n + 1)
            /\ OneEach(add, w, n + 1)
            /\ add.offsets = Append(tab.offsets, at % Wrap)
<1> DEFINE pkt == w[n + 1]
           add == AddSample(tab, video, pkt, Gap(w, n + 1), at)
<1>1. n + 1 \in Nat /\ n + 1 <= Len(w) /\ n <= Len(w) /\ n + 1 \in 1..Len(w) /\ DOMAIN w = 1..Len(w) /\ pkt \in Pkt
  BY SeqFacts
<1>2. pkt.cts \in Nat /\ pkt.key \in BOOLEAN
  BY <1>1 DEF Pkt
<1>3. /\ Fields \subseteq DOMAIN tab /\ tab.groups = << [first |-> 1, per |-> 1] >> /\ tab.fixed = 0
      /\ tab.sizes = Sizes(w, n) /\ tab.offsets \in Seq(Nat) /\ Len(tab.offsets) = n
  BY DEF OneEach
<1>4. /\ RunsOf(tab.stts, "duration", Durations(w), n)
      /\ IF video THEN RunsOf(tab.ctts, "offset", Offsets(w), n) ELSE tab.ctts = <<>>
      /\ tab.synced = video
      /\ IF video THEN Lists(tab.sync, {i \in 1 .. n : w[i].key}) ELSE tab.sync = <<>>
  BY DEF Described
<1>5. Durations(w)[n + 1] = timeToTs(Gap(w, n + 1)) % Wrap /\ timeToTs(Gap(w, n + 1)) % Wrap \in Nat
  <2>1. Durations(w)[n + 1] = timeToTs(Gap(w, n + 1)) % Wrap
    BY <1>1 DEF Durations
  <2>2. timeToTs(Gap(w, n + 1)) \in Nat
    BY TicksFacts
  <2> QED BY <2>1, <2>2, WrapFacts
<1>6. Offsets(w)[n + 1] = timeToTs(pkt.cts) % Wrap /\ timeToTs(pkt.cts) % Wrap \in Nat
  <2>1. Offsets(w)[n + 1] = timeToTs(pkt.cts) % Wrap
    BY <1>1 DEF Offsets
  <2>2. timeToTs(pkt.cts) \in Nat
    BY <1>2, TicksFacts
  <2> QED BY <2>1, <2>2, WrapFacts
<1>7. /\ Fields \subseteq DOMAIN add
      /\ add.groups = tab.groups /\ add.fixed = tab.fixed /\ add.synced = tab.synced
      /\ add.sync = IF pkt.key /\ tab.synced THEN Append(tab.sync, Len(tab.sizes) + 1) ELSE tab.sync
      /\ add.stts = Grow(tab.stts, "duration", timeToTs(Gap(w, n + 1)) % Wrap)
      /\ add.ctts = IF video THEN Grow(tab.ctts, "offset", timeToTs(pkt.cts) % Wrap) ELSE tab.ctts
      /\ add.offsets = Append(tab.offsets, at % Wrap)
      /\ add.sizes = Append(tab.sizes, Len(pkt.data))
  <2>1. Fields \subseteq DOMAIN tab
    BY <1>3
  <2> HIDE DEF pkt
  <2> QED BY <2>1 DEF add, AddSample, Fields
<1>8. Len(Sizes(w, n)) = n /\ Append(Sizes(w, n), Len(pkt.data)) = Sizes(w, n + 1)
  <2>1. Sizes(w, n) \in Seq(Nat) /\ Len(Sizes(w, n)) = n
    BY <1>1, SizesFacts
  <2>2. Append(Sizes(w, n), Len(pkt.data)) = [i \in 1..n + 1 |-> IF i = n + 1 THEN Len(pkt.data) ELSE Sizes(w, n)[i]]
    BY <2>1
  <2>3. \A i \in 1..n : Sizes(w, n)[i] = Len(w[i].data)
    BY <1>1, SizesFacts
  <2>4. \A i \in 1..n + 1 : i = n + 1 \/ i \in 1..n
    OBVIOUS
  <2>5. [i \in 1..n + 1 |-> IF i = n + 1 THEN Len(pkt.data) ELSE Sizes(w, n)[i]] = [i \in 1..n + 1 |-> Len(w[i].data)]
    BY <2>3, <2>4
  <2> QED BY <2>1, <2>2, <2>5 DEF Sizes
<1> HIDE DEF add, pkt
<1>9. RunsOf(add.stts, "duration", Durations(w), n + 1)
  <2>1. "duration" # "count"
    OBVIOUS
  <2> QED BY <1>4, <1>5, <1>7, <2>1, GrowFits
<1>10. IF video THEN RunsOf(add.ctts, "offset", Offsets(w), n + 1) ELSE add.ctts = <<>>
  <2>1. "offset" # "count"
    OBVIOUS
  <2> QED BY <1>4, <1>6, <1>7, <2>1, GrowFits
<1>11. IF video THEN Lists(add.sync, {i \in 1 .. n + 1 : w[i].key}) ELSE add.sync = <<>>
  <2>1. CASE ~video
    BY <1>4, <1>7, <2>1
  <2>2. CASE video
    <3> DEFINE keys == {i \in 1 .. n : w[i].key}
    <3>1. Lists(tab.sync, keys)
      BY <1>4, <2>2
    <3>2. CASE pkt.key
      <4>1. {i \in 1 .. n + 1 : w[i].key} = keys \cup {n + 1}
        BY <3>2 DEF pkt
      <4>2. \A j \in keys : j < n + 1
        OBVIOUS
      <4>3. add.sync = Append(tab.sync, n + 1)
        BY <1>3, <1>4, <1>7, <1>8, <2>2, <3>2
      <4> HIDE DEF keys
      <4>4. Lists(Append(tab.sync, n + 1), keys \cup {n + 1})
        BY <1>1, <3>1, <4>2, ListsAdd
      <4> QED BY <2>2, <4>1, <4>3, <4>4
    <3>3. CASE ~pkt.key
      <4>1. {i \in 1 .. n + 1 : w[i].key} = keys
        BY <3>3 DEF pkt
      <4> QED BY <1>7, <2>2, <3>1, <3>3, <4>1
    <3> QED BY <3>2, <3>3
  <2> QED BY <2>1, <2>2
<1>12. Described(add, video, w, n + 1)
  BY <1>4, <1>7, <1>9, <1>10, <1>11 DEF Described
<1>13. add.offsets \in Seq(Nat) /\ Len(add.offsets) = n + 1
  <2>1. at % Wrap \in Nat
    BY WrapFacts
  <2> QED BY <1>3, <1>7, <2>1
<1>14. OneEach(add, w, n + 1)
  BY <1>3, <1>7, <1>8, <1>13 DEF OneEach
<1> QED BY <1>7, <1>12, <1>14 DEF add, pkt

\* Data written behind moves nothing, and is where it was put.
LEMMA PlacedMore ==
  ASSUME NEW X, NEW d \in Seq(X), NEW b \in Seq(X)
  PROVE  /\ \A at \in Int, bytes \in Seq(X) : Placed(d, at, bytes) => Placed(d \o b, at, bytes)
         /\ Placed(d \o b, 8 + Len(d), b)
<1>1. Len(d) \in Nat /\ Len(b) \in Nat /\ DOMAIN b = 1..Len(b)
  BY SeqFacts
<1>2. d \o b \in Seq(X) /\ Len(d \o b) = Len(d) + Len(b)
      /\ (\A i \in 1..Len(d) : (d \o b)[i] = d[i]) /\ \A i \in 1..Len(b) : (d \o b)[Len(d) + i] = b[i]
  OBVIOUS
<1> DEFINE e == d \o b
<1> HIDE DEF e
<1>3. ASSUME NEW at \in Int, NEW bytes \in Seq(X), Placed(d, at, bytes) PROVE Placed(e, at, bytes)
  <2>1. at - 8 \in Nat /\ at - 8 + Len(bytes) <= Len(d) /\ \A j \in DOMAIN bytes : d[at - 8 + j] = bytes[j]
    BY <1>3 DEF Placed
  <2>2. Len(bytes) \in Nat /\ DOMAIN bytes = 1..Len(bytes)
    BY SeqFacts
  <2>3. \A j \in 1..Len(bytes) : at - 8 + j \in 1..Len(d)
    BY <1>1, <2>1, <2>2
  <2>4. at - 8 + Len(bytes) <= Len(e)
    BY <1>1, <1>2, <2>1, <2>2 DEF e
  <2>5. \A j \in DOMAIN bytes : e[at - 8 + j] = bytes[j]
    BY <1>2, <2>1, <2>2, <2>3 DEF e
  <2> QED BY <2>1, <2>4, <2>5 DEF Placed
<1>4. Placed(e, 8 + Len(d), b)
  <2>1. 8 + Len(d) - 8 = Len(d)
    BY <1>1
  <2>2. \A j \in DOMAIN b : e[8 + Len(d) - 8 + j] = b[j]
    BY <1>1, <1>2, <2>1 DEF e
  <2>3. 8 + Len(d) - 8 + Len(b) <= Len(e)
    BY <1>1, <1>2, <2>1 DEF e
  <2> QED BY <1>1, <2>1, <2>2, <2>3 DEF Placed
<1> QED BY <1>3, <1>4 DEF e

\* More data behind leaves the data in place.
LEMMA InPlaceMore ==
  ASSUME NEW tab, NEW w \in Seq(Pkt), NEW n \in Nat, n <= Len(w),
         tab.offsets \in Seq(Nat), Len(tab.offsets) = n,
         NEW d \in Seq(Seq(Nat)), NEW b \in Seq(Seq(Nat)), InPlace(tab, w, d)
  PROVE  InPlace(tab, w, d \o b)
<1> SUFFICES ASSUME Fits(d \o b) PROVE InPlace(tab, w, d \o b)
  BY DEF InPlace
<1>0. Fits(d)
  <2>1. Len(d \o b) = Len(d) + Len(b) /\ Len(d) \in Nat /\ Len(b) \in Nat
    OBVIOUS
  <2>2. Wrap \in Nat
    BY WrapAssumption
  <2> QED BY <2>1, <2>2 DEF Fits
<1>1. DOMAIN tab.offsets = 1..n /\ (\A i \in 1..n : tab.offsets[i] \in Int) /\ DOMAIN w = 1..Len(w) /\ Len(w) \in Nat
  <2>1. DOMAIN tab.offsets = 1..n /\ \A i \in 1..n : tab.offsets[i] \in Nat
    BY SeqFacts, Zenon
  <2>2. DOMAIN w = 1..Len(w) /\ Len(w) \in Nat
    BY SeqFacts
  <2> QED BY <2>1, <2>2
<1>2. \A i \in 1..n : w[i].data \in Seq(Seq(Nat))
  <2>1. \A p \in Pkt : p.data \in Seq(Seq(Nat))
    BY DEF Pkt
  <2>2. \A i \in 1..n : i \in 1..Len(w)
    BY <1>1
  <2>3. \A i \in 1..Len(w) : w[i] \in Pkt
    BY SeqFacts, Zenon
  <2> QED BY <2>1, <2>2, <2>3
<1>3. \A i \in 1..n : Placed(d, tab.offsets[i], w[i].data)
  BY <1>0, <1>1 DEF InPlace
<1> DEFINE X == Seq(Nat)
<1>4. d \in Seq(X) /\ b \in Seq(X) /\ \A i \in 1..n : w[i].data \in Seq(X)
  BY <1>2
<1> HIDE DEF X
<1>5. \A at \in Int, bytes \in Seq(X) : Placed(d, at, bytes) => Placed(d \o b, at, bytes)
  BY <1>4, PlacedMore
<1>6. \A i \in 1..n : Placed(d \o b, tab.offsets[i], w[i].data)
  BY <1>1, <1>3, <1>4, <1>5
<1> QED BY <1>1, <1>6 DEF InPlace

\* A sample added at the end of the data is in place there.
LEMMA AddInPlace ==
  ASSUME NEW tab, NEW w \in Seq(Pkt), NEW n \in Nat, n < Len(w),
         tab.offsets \in Seq(Nat), Len(tab.offsets) = n,
         NEW d \in Seq(Seq(Nat)), InPlace(tab, w, d),
         NEW add, add.offsets = Append(tab.offsets, (8 + Len(d)) % Wrap)
  PROVE  InPlace(add, w, d \o w[n + 1].data) /\ d \o w[n + 1].data \in Seq(Seq(Nat))
<1> DEFINE X == Seq(Nat)
           b == w[n + 1].data
<1>1. b \in Seq(X) /\ d \in Seq(X)
  <2>1. \A i \in 1..Len(w) : w[i] \in Pkt
    BY SeqFacts, Zenon
  <2>2. Len(w) \in Nat /\ n + 1 \in 1..Len(w)
    BY SeqFacts
  <2>3. w[n + 1] \in Pkt
    BY <2>1, <2>2
  <2> QED BY <2>3 DEF Pkt
<1>2. InPlace(tab, w, d \o b)
  <2>1. n <= Len(w)
    BY SeqFacts
  <2> HIDE DEF b
  <2> QED BY <1>1, <2>1, InPlaceMore DEF X
<1>3. Placed(d \o b, 8 + Len(d), b)
  <2> HIDE DEF b, X
  <2> QED BY <1>1, PlacedMore
<1>4. d \o b \in Seq(X)
  <2> HIDE DEF b, X
  <2> QED BY <1>1
<1>5. /\ DOMAIN tab.offsets = 1..n /\ DOMAIN add.offsets = 1..n + 1
      /\ add.offsets[n + 1] = (8 + Len(d)) % Wrap /\ \A i \in 1..n : add.offsets[i] = tab.offsets[i]
  <2> DEFINE p == (8 + Len(d)) % Wrap
  <2>1. 8 + Len(d) \in Nat /\ DOMAIN tab.offsets = 1..n
    BY SeqFacts
  <2>2. p \in Nat
    BY <2>1, WrapFacts
  <2> HIDE DEF p
  <2>3. add.offsets = Append(tab.offsets, p)
    BY DEF p
  <2>4. /\ DOMAIN tab.offsets = 1..n /\ DOMAIN add.offsets = 1..n + 1
        /\ add.offsets[n + 1] = p /\ \A i \in 1..n : add.offsets[i] = tab.offsets[i]
    <3> DEFINE s == tab.offsets
               more == add.offsets
    <3>1. s \in Seq(Nat) /\ Len(s) = n /\ more = Append(s, p) /\ DOMAIN s = 1..n
      BY <2>1, <2>3
    <3> HIDE DEF s, more
    <3>2. more \in Seq(Nat) /\ Len(more) = n + 1
      BY <2>2, <3>1
    <3>3. more[n + 1] = p /\ \A i \in 1..n : more[i] = s[i]
      BY <2>2, <3>1
    <3>4. DOMAIN more = 1..n + 1
      BY <3>2
    <3> QED BY <3>1, <3>3, <3>4 DEF s, more
  <2> QED BY <2>4 DEF p
<1> DEFINE e == d \o b
<1>6. Len(e) = Len(d) + Len(b) /\ Len(d) \in Nat /\ Len(b) \in Nat
  <2> HIDE DEF b, X
  <2> QED BY <1>1
<1>7. ASSUME Fits(e) PROVE Fits(d) /\ (8 + Len(d)) % Wrap = 8 + Len(d)
  <2> HIDE DEF e, b
  <2>1. 8 + Len(d) < Wrap
    <3>1. Wrap \in Nat
      BY WrapAssumption
    <3> QED BY <1>6, <1>7, <3>1 DEF Fits
  <2>2. 8 + Len(d) \in Nat
    BY <1>6
  <2> QED BY <2>1, <2>2, WrapFacts DEF Fits
<1>8. ASSUME Fits(e) PROVE \A i \in 1..n + 1 : Placed(e, add.offsets[i], w[i].data)
  <2> HIDE DEF e
  <2> TAKE i \in 1..n + 1
  <2>1. CASE i = n + 1
    BY <1>3, <1>5, <1>7, <1>8, <2>1 DEF e
  <2>2. CASE i # n + 1
    <3>1. i \in 1..n
      BY <2>2
    <3>2. Placed(e, tab.offsets[i], w[i].data)
      BY <1>2, <1>5, <1>8, <3>1 DEF InPlace, e
    <3> QED BY <1>5, <3>1, <3>2
  <2> QED BY <2>1, <2>2
<1> QED BY <1>4, <1>5, <1>8 DEF InPlace

-----------------------------------------------------------------------------
(* The layouts of a finished file. *)
\* The muxer's own: a chunk for each packet.
LEMMA OneLaid ==
  ASSUME NEW tab, NEW w \in Seq(Pkt), NEW d, OneEach(tab, w, Len(w)), InPlace(tab, w, d)
  PROVE  Laid(tab, w, d)
<1> DEFINE n == Len(w)
           sizes == Sizes(w, n)
           pers == Pers(tab)
           G == [first : Nat, per : Nat]
<1>1. n \in Nat
  BY SeqFacts, Zenon
<1>2. /\ tab.groups = << [first |-> 1, per |-> 1] >> /\ tab.fixed = 0 /\ tab.sizes = sizes
      /\ tab.offsets \in Seq(Nat) /\ Len(tab.offsets) = n
  BY DEF OneEach
<1>3. DOMAIN tab.offsets = 1..n /\ \A c \in 1..n : tab.offsets[c] \in Nat
  <2>1. tab.offsets \in Seq(Nat) /\ Len(tab.offsets) = n
    BY <1>2
  <2> HIDE DEF n
  <2> QED BY <2>1, SeqFacts, Zenon
<1>4. \A c \in Nat : GroupOf(tab, c) = 0
  <2>1. Len(tab.groups) = 1
    BY <1>2
  <2>2. Len(tab.groups) \in Nat \ {0}
    BY <2>1
  <2>3. \A c \in Nat : GroupOf(tab, c) < Len(tab.groups) /\ GroupOf(tab, c) \in Nat
    BY <2>2, GroupBelow, GroupFacts
  <2> QED BY <2>1, <2>3
<1>5. pers = [c \in 1..n |-> 1]
  <2>1. \A c \in 1..n : c - 1 \in Nat /\ tab.groups[0 + 1].per = 1
    BY <1>1, <1>2
  <2>2. \A c \in 1..n : tab.groups[GroupOf(tab, c - 1) + 1].per = 1
    BY <1>4, <2>1
  <2> QED BY <1>3, <2>2 DEF Pers
<1>6. pers \in Seq(Nat) /\ Len(pers) = n /\ DOMAIN pers = 1..n /\ \A c \in 1..n : pers[c] = 1
  BY <1>1, <1>5
<1> HIDE DEF n, pers, sizes
<1>7. \A k \in 0..n : SumTo(pers, k) = k
  <2> TAKE k \in 0..n
  <2>1. k \in Nat /\ 0 \in Nat /\ 0 <= k /\ 1 \in Int /\ \A i \in 1..k : i \in 1..n
    BY <1>1
  <2>2. (\A i \in 1..k : pers[i] \in Int) /\ \A i \in 0 + 1..k : pers[i] = 1
    BY <1>6, <2>1
  <2>3. SumTo(pers, k) = SumTo(pers, 0) + (k - 0) * 1
    BY <2>1, <2>2, SumAlike
  <2>4. SumTo(pers, 0) = 0
    <3>1. \A i \in 1..0 : pers[i] \in Int
      OBVIOUS
    <3> QED BY <2>1, <3>1, SumFacts
  <2> QED BY <2>1, <2>3, <2>4
<1>8. Chunked(tab, n)
  <2>1. tab.groups \in Seq(G) /\ DOMAIN tab.groups = 1..1
    BY <1>2
  <2>2. \A g, h \in DOMAIN tab.groups : g < h => tab.groups[g].first < tab.groups[h].first
    BY <2>1
  <2>3. tab.groups # <<>> /\ tab.groups[1].first = 1
    BY <1>2
  <2>4. Positive(pers) /\ Total(pers) = n
    <3>1. n \in 0..n
      BY <1>1
    <3> QED BY <1>6, <1>7, <3>1 DEF Positive, Total
  <2> QED BY <1>2, <2>1, <2>2, <2>3, <2>4 DEF Chunked, pers
<1>9. Sized(tab, sizes)
  BY <1>2 DEF Sized
<1>10. ASSUME Fits(d), NEW c \in 1..n, NEW a \in 0..pers[c] - 1
       PROVE  Placed(d, tab.offsets[c] + SumTo(sizes, SumTo(pers, c - 1) + a) - SumTo(sizes, SumTo(pers, c - 1)),
                     w[SumTo(pers, c - 1) + a + 1].data)
  <2>1. a = 0 /\ c - 1 \in 0..n /\ c - 1 \in Nat /\ (c - 1) + a = c - 1 /\ (c - 1) + a + 1 = c
    BY <1>1, <1>6
  <2>2. SumTo(pers, c - 1) = c - 1
    BY <1>7, <2>1
  <2>3. SumTo(sizes, c - 1) \in Int
    <3>1. sizes \in Seq(Nat) /\ Len(sizes) = n
      BY <1>1, SizesFacts DEF sizes, n
    <3>2. \A i \in 1..c - 1 : sizes[i] \in Int
      BY <3>1, <1>1, SeqFacts
    <3> QED BY <2>1, <3>2, SumFacts
  <2>4. tab.offsets[c] + SumTo(sizes, c - 1) - SumTo(sizes, c - 1) = tab.offsets[c]
    BY <1>3, <2>3
  <2>5. Placed(d, tab.offsets[c], w[c].data)
    BY <1>3, <1>10 DEF InPlace
  <2> QED BY <2>1, <2>2, <2>4, <2>5
<1> QED BY <1>3, <1>8, <1>9, <1>10 DEF Laid, n, sizes, pers

\* The recursion of FlattenSeq, unfolded: where each sequence is in the whole.
FlatTo(h, ss) == h = [i \in 1..Len(ss) |-> IF i = 1 THEN ss[i] ELSE h[i - 1] \o ss[i]]

\* The function that FlattenSeq chooses exists.
LEMMA FlatSolved ==
  ASSUME NEW ss, Len(ss) \in Nat
  PROVE  \E h : FlatTo(h, ss)
<1> DEFINE To(h, n) == h = [i \in 1..n |-> IF i = 1 THEN ss[i] ELSE h[i - 1] \o ss[i]]
           P == {n \in Nat : \E h : To(h, n)}
<1>1. 0 \in P
  <2> DEFINE h == [i \in 1..0 |-> ss[i]]
  <2>1. To(h, 0)
    OBVIOUS
  <2> QED BY <2>1
<1>2. ASSUME NEW n \in Nat, n \in P PROVE n + 1 \in P
  <2>1. PICK h : To(h, n)
    BY <1>2
  <2> DEFINE new == IF n + 1 = 1 THEN ss[n + 1] ELSE h[n] \o ss[n + 1]
             g == [i \in 1..n + 1 |-> IF i = n + 1 THEN new ELSE h[i]]
  <2>2. \A i \in 1..n + 1 : g[i] = IF i = 1 THEN ss[i] ELSE g[i - 1] \o ss[i]
    <3> TAKE i \in 1..n + 1
    <3>1. CASE i = n + 1
      <4>1. g[i] = new
        BY <3>1
      <4>2. i # 1 => g[i - 1] = h[n] /\ i - 1 = n
        BY <3>1
      <4> QED BY <3>1, <4>1, <4>2
    <3>2. CASE i # n + 1
      <4>1. i \in 1..n /\ g[i] = h[i]
        BY <3>2
      <4>2. i # 1 => i - 1 \in 1..n + 1 /\ i - 1 # n + 1 /\ g[i - 1] = h[i - 1]
        BY <3>2
      <4>3. h[i] = IF i = 1 THEN ss[i] ELSE h[i - 1] \o ss[i]
        BY <2>1, <4>1
      <4> QED BY <4>1, <4>2, <4>3
    <3> QED BY <3>1, <3>2
  <2>3. g = [i \in 1..n + 1 |-> g[i]]
    OBVIOUS
  <2> HIDE DEF g
  <2>4. To(g, n + 1)
    BY <2>2, <2>3
  <2> HIDE DEF To
  <2>5. \E f : To(f, n + 1)
    BY <2>4
  <2> QED BY <2>5
<1> HIDE DEF P
<1>3. \A n \in Nat : n \in P
  BY <1>1, <1>2, Induction
<1> QED BY <1>3 DEF P, FlatTo

FlatTells(flat, ss, X, lens) ==
  /\ flat \in Seq(X) /\ Len(flat) = SumTo(lens, Len(ss))
  /\ \A i \in 1..Len(ss) :
       /\ SumTo(lens, i - 1) \in Nat
       /\ SumTo(lens, i - 1) + Len(ss[i]) <= Len(flat)
       /\ \A j \in 1..Len(ss[i]) : flat[SumTo(lens, i - 1) + j] = ss[i][j]

\* Sequences one behind the other are each at the sum of the lengths before it.
LEMMA FlatAt ==
  ASSUME NEW X, NEW ss \in Seq(Seq(X)), NEW lens, \A i \in 1..Len(ss) : lens[i] = Len(ss[i])
  PROVE  FlatTells(FlattenSeq(ss), ss, X, lens)
<1> DEFINE N == Len(ss)
           Y == Seq(X)
<1>1. N \in Nat /\ \A i \in 1..N : ss[i] \in Y /\ Len(ss[i]) \in Nat
  <2>1. N \in Nat /\ \A i \in 1..N : ss[i] \in Y
    BY SeqFacts, Zenon
  <2> QED BY <2>1, SeqFacts
<1>2. \A i \in 1..N : lens[i] \in Nat /\ lens[i] \in Int
  BY <1>1
<1>3. /\ \A a \in 0..N : SumTo(lens, a) \in Nat
      /\ \A a, b \in 0..N : a <= b => SumTo(lens, a) <= SumTo(lens, b)
  BY <1>1, <1>2, SumGrows
<1>4. CASE N = 0
  <2>1. ss = <<>>
    BY <1>4, SeqFacts
  <2>2. FlattenSeq(ss) = ss
    BY <1>4 DEF FlattenSeq
  <2>3. SumTo(lens, 0) = 0
    <3>1. \A i \in 1..0 : lens[i] \in Int
      OBVIOUS
    <3> QED BY <3>1, SumFacts
  <2>4. <<>> \in Seq(X) /\ Len(<<>>) = 0
    OBVIOUS
  <2>5. \A i \in 1..Len(ss) : FALSE
    BY <1>4
  <2>6. FlattenSeq(ss) \in Seq(X) /\ Len(FlattenSeq(ss)) = 0
    BY <2>1, <2>2, <2>4
  <2> QED BY <1>4, <2>3, <2>5, <2>6 DEF FlatTells
<1>5. CASE N # 0
  <2> DEFINE h == CHOOSE h : FlatTo(h, ss)
  <2>1. FlatTo(h, ss)
    BY <1>1, FlatSolved
  <2>2. FlattenSeq(ss) = h[N]
    BY <1>5 DEF FlattenSeq, FlatTo
  <2> HIDE DEF h, N
  <2>3. \A i \in 1..N : h[i] = IF i = 1 THEN ss[i] ELSE h[i - 1] \o ss[i]
    BY <2>1 DEF FlatTo, N
  <2> DEFINE Holds(k) == /\ h[k] \in Seq(X) /\ Len(h[k]) = SumTo(lens, k)
                         /\ \A i \in 1..k : \A j \in 1..Len(ss[i]) : h[k][SumTo(lens, i - 1) + j] = ss[i][j]
             P == {m \in Nat : m + 1 <= N => Holds(m + 1)}
  <2>4. \A k \in 1..N : SumTo(lens, k) = SumTo(lens, k - 1) + lens[k] /\ SumTo(lens, k - 1) \in Nat
    <3> TAKE k \in 1..N
    <3>1. k \in Nat /\ k > 0 /\ k - 1 \in 0..N /\ \A i \in 1..k : i \in 1..N
      BY <1>1
    <3>2. \A i \in 1..k : lens[i] \in Int
      BY <1>2, <3>1
    <3>3. SumTo(lens, k) = SumTo(lens, k - 1) + lens[k]
      BY <3>1, <3>2, SumFacts
    <3> QED BY <1>3, <3>1, <3>3
  <2>5. SumTo(lens, 0) = 0
    <3>1. \A i \in 1..0 : lens[i] \in Int
      OBVIOUS
    <3> QED BY <3>1, SumFacts
  <2>6. 0 \in P
    <3>1. 1 \in 1..N /\ 1 - 1 = 0
      BY <1>1, <1>5
    <3>2. h[1] = ss[1] /\ ss[1] \in Seq(X) /\ Len(ss[1]) \in Nat /\ lens[1] = Len(ss[1])
      BY <1>1, <2>3, <3>1 DEF N
    <3>3. SumTo(lens, 1) = Len(ss[1])
      BY <2>4, <2>5, <3>1, <3>2
    <3>4. \A i \in 1..1 : \A j \in 1..Len(ss[i]) : h[1][SumTo(lens, i - 1) + j] = ss[i][j]
      <4>1. \A i \in 1..1 : i = 1 /\ i - 1 = 0
        OBVIOUS
      <4>2. \A j \in 1..Len(ss[1]) : 0 + j = j
        BY <3>2
      <4> QED BY <2>5, <3>2, <4>1, <4>2
    <3>5. Holds(1)
      BY <3>2, <3>3, <3>4
    <3>6. 0 + 1 = 1
      OBVIOUS
    <3> HIDE DEF Holds
    <3> QED BY <3>5, <3>6
  <2>7. ASSUME NEW m \in Nat, m \in P PROVE m + 1 \in P
    <3> SUFFICES ASSUME (m + 1) + 1 <= N PROVE Holds((m + 1) + 1)
      OBVIOUS
    <3> DEFINE k == m + 1
               q == k + 1
    <3>1. k \in 1..N /\ q \in 1..N /\ q # 1 /\ q - 1 = k /\ m + 1 <= N
      BY <1>1
    <3>2. Holds(k)
      BY <2>7, <3>1
    <3> HIDE DEF k, q
    <3>3. h[q] = h[k] \o ss[q] /\ ss[q] \in Seq(X) /\ Len(ss[q]) \in Nat /\ lens[q] = Len(ss[q])
      BY <1>1, <2>3, <3>1 DEF N
    <3>4. h[k] \in Seq(X) /\ Len(h[k]) = SumTo(lens, k) /\ SumTo(lens, k) \in Nat
      BY <2>4, <3>1, <3>2
    <3>5. h[q] \in Seq(X) /\ Len(h[q]) = Len(h[k]) + Len(ss[q])
          /\ (\A x \in 1..Len(h[k]) : h[q][x] = h[k][x])
          /\ \A j \in 1..Len(ss[q]) : h[q][Len(h[k]) + j] = ss[q][j]
      <4> DEFINE a == h[k]
                 b == ss[q]
      <4>1. a \in Seq(X) /\ b \in Seq(X) /\ h[q] = a \o b
        BY <3>3, <3>4
      <4> HIDE DEF a, b
      <4>2. a \o b \in Seq(X) /\ Len(a \o b) = Len(a) + Len(b)
            /\ (\A i \in 1..Len(a) : (a \o b)[i] = a[i])
            /\ \A i \in 1..Len(b) : (a \o b)[Len(a) + i] = b[i]
        BY <4>1
      <4> QED BY <4>1, <4>2 DEF a, b
    <3>6. Len(h[q]) = SumTo(lens, q)
      BY <2>4, <3>1, <3>3, <3>4, <3>5
    <3>7. ASSUME NEW i \in 1..q, NEW j \in 1..Len(ss[i]) PROVE h[q][SumTo(lens, i - 1) + j] = ss[i][j]
      <4>1. CASE i = q
        BY <3>1, <3>4, <3>5, <4>1
      <4>2. CASE i # q
        <5>1. i \in 1..k /\ i \in 1..N /\ i \in 0..N /\ k \in 0..N /\ i <= k
          BY <1>1, <3>1, <4>2
        <5>2. SumTo(lens, i) = SumTo(lens, i - 1) + Len(ss[i]) /\ SumTo(lens, i - 1) \in Nat
          BY <1>2, <2>4, <5>1 DEF N
        <5>3. SumTo(lens, i) <= SumTo(lens, k) /\ SumTo(lens, i) \in Nat /\ Len(ss[i]) \in Nat
          BY <1>1, <1>3, <5>1
        <5>4. SumTo(lens, i - 1) + j \in 1..Len(h[k])
          BY <3>4, <5>2, <5>3
        <5> QED BY <3>2, <3>5, <5>1, <5>4
      <4> QED BY <4>1, <4>2
    <3> QED BY <3>5, <3>6, <3>7 DEF k, q
  <2> HIDE DEF P
  <2>8. \A m \in Nat : m \in P
    BY <2>6, <2>7, Induction
  <2>9. Holds(N)
    <3> HIDE DEF Holds
    <3>1. N - 1 \in Nat /\ (N - 1) + 1 = N /\ N <= N
      BY <1>1, <1>5
    <3>2. N - 1 \in P
      BY <2>8, <3>1
    <3> QED BY <3>1, <3>2 DEF P
  <2>10. \A i \in 1..N : SumTo(lens, i - 1) \in Nat /\ SumTo(lens, i - 1) + Len(ss[i]) <= SumTo(lens, N)
    <3> TAKE i \in 1..N
    <3>1. i \in 0..N /\ N \in 0..N /\ i <= N
      BY <1>1
    <3>2. SumTo(lens, i) <= SumTo(lens, N) /\ lens[i] = Len(ss[i])
      BY <1>3, <3>1 DEF N
    <3> QED BY <2>4, <3>2
  <2> QED BY <2>2, <2>9, <2>10 DEF N, FlatTells
<1> QED BY <1>4, <1>5

-----------------------------------------------------------------------------
(* Several packets in a chunk. *)
\* The group that chunk j is in, and groups that tell the first c chunks.
GroupPlace(gs, g, j) == gs[g].first <= j /\ (g = Len(gs) \/ gs[g + 1].first > j)
Grouped(gs, chunks, c) ==
  /\ gs \in Seq([first : Nat, per : Nat]) /\ Len(gs) > 0 /\ gs[1].first = 1
  /\ \A g, h \in 1..Len(gs) : g < h => gs[g].first < gs[h].first
  /\ \A g \in 1..Len(gs) : gs[g].first <= c
  /\ \A j \in 1..c : \A g \in 1..Len(gs) : GroupPlace(gs, g, j) => gs[g].per = chunks[j]

\* A chunk that is as the one before needs no group.
LEMMA GroupedSame ==
  ASSUME NEW gs, NEW chunks, NEW c \in Nat \ {0}, Grouped(gs, chunks, c), chunks[c + 1] = chunks[c]
  PROVE  Grouped(gs, chunks, c + 1)
<1> DEFINE L == Len(gs)
<1>1. /\ gs \in Seq([first : Nat, per : Nat]) /\ L > 0 /\ gs[1].first = 1
      /\ \A g, h \in 1..L : g < h => gs[g].first < gs[h].first
      /\ \A g \in 1..L : gs[g].first <= c
      /\ \A j \in 1..c : \A g \in 1..L : GroupPlace(gs, g, j) => gs[g].per = chunks[j]
  BY DEF Grouped
<1>2. L \in Nat /\ \A g \in 1..L : gs[g].first \in Nat
  <2>1. L \in Nat /\ \A g \in 1..L : gs[g] \in [first : Nat, per : Nat]
    BY <1>1, SeqFacts, Zenon
  <2> QED BY <2>1
<1> HIDE DEF L
<1>3. \A g \in 1..L : gs[g].first <= c + 1
  BY <1>1, <1>2
<1>4. ASSUME NEW j \in 1..c + 1, NEW g \in 1..L, GroupPlace(gs, g, j) PROVE gs[g].per = chunks[j]
  <2>1. CASE j \in 1..c
    BY <1>1, <1>4, <2>1
  <2>2. CASE j = c + 1
    <3>1. g = L
      <4>1. SUFFICES ASSUME g # L PROVE FALSE
        OBVIOUS
      <4>2. g + 1 \in 1..L /\ gs[g + 1].first > c + 1
        BY <1>2, <1>4, <2>2, <4>1 DEF GroupPlace, L
      <4>3. gs[g + 1].first <= c /\ gs[g + 1].first \in Nat
        BY <1>1, <1>2, <4>2
      <4> QED BY <4>2, <4>3
    <3>2. c \in 1..c /\ GroupPlace(gs, g, c)
      BY <1>1, <3>1 DEF GroupPlace, L
    <3> QED BY <1>1, <2>2, <3>2
  <2> QED BY <2>1, <2>2
<1> QED BY <1>1, <1>3, <1>4 DEF Grouped, L

\* Another chunk begins a group.
LEMMA GroupedNew ==
  ASSUME NEW gs, NEW chunks, NEW c \in Nat \ {0}, Grouped(gs, chunks, c), chunks[c + 1] \in Nat
  PROVE  Grouped(Append(gs, [first |-> c + 1, per |-> chunks[c + 1]]), chunks, c + 1)
<1> DEFINE L == Len(gs)
           new == [first |-> c + 1, per |-> chunks[c + 1]]
           more == Append(gs, new)
           G == [first : Nat, per : Nat]
<1>1. /\ gs \in Seq(G) /\ L > 0 /\ gs[1].first = 1
      /\ \A g, h \in 1..L : g < h => gs[g].first < gs[h].first
      /\ \A g \in 1..L : gs[g].first <= c
      /\ \A j \in 1..c : \A g \in 1..L : GroupPlace(gs, g, j) => gs[g].per = chunks[j]
  BY DEF Grouped
<1>2. L \in Nat /\ \A g \in 1..L : gs[g].first \in Nat
  <2>1. L \in Nat /\ \A g \in 1..L : gs[g] \in [first : Nat, per : Nat]
    BY <1>1, SeqFacts, Zenon
  <2> QED BY <2>1
<1>3. new \in G /\ new.first = c + 1 /\ new.per = chunks[c + 1]
  OBVIOUS
<1> HIDE DEF new, G
<1>4. /\ more \in Seq(G) /\ Len(more) = L + 1 /\ more[L + 1] = new /\ \A g \in 1..L : more[g] = gs[g]
  BY <1>1, <1>3
<1> HIDE DEF more, L
<1>5. 1 \in 1..L /\ \A g \in 1..L + 1 : g = L + 1 \/ g \in 1..L
  BY <1>1, <1>2
<1>6. \A g, h \in 1..L + 1 : g < h => more[g].first < more[h].first
  <2> TAKE g, h \in 1..L + 1
  <2> HAVE g < h
  <2>1. g \in 1..L
    BY <1>2
  <2>2. CASE h = L + 1
    <3>1. gs[g].first <= c /\ gs[g].first \in Nat
      BY <1>1, <1>2, <2>1
    <3> QED BY <1>3, <1>4, <2>1, <2>2, <3>1
  <2>3. CASE h \in 1..L
    BY <1>1, <1>4, <2>1, <2>3
  <2> QED BY <1>5, <2>2, <2>3
<1>7. \A g \in 1..L + 1 : more[g].first <= c + 1
  <2> TAKE g \in 1..L + 1
  <2>1. CASE g = L + 1
    BY <1>3, <1>4, <2>1
  <2>2. CASE g \in 1..L
    BY <1>1, <1>2, <1>4, <2>2
  <2> QED BY <1>5, <2>1, <2>2
<1>8. ASSUME NEW j \in 1..c + 1, NEW g \in 1..L + 1, GroupPlace(more, g, j) PROVE more[g].per = chunks[j]
  <2>1. more[g].first <= j /\ (g = L + 1 \/ more[g + 1].first > j)
    BY <1>4, <1>8 DEF GroupPlace
  <2>2. CASE g = L + 1
    BY <1>3, <1>4, <2>1, <2>2
  <2>3. CASE g \in 1..L
    <3>1. g # L + 1
      BY <1>2, <2>3
    <3>2. j # c + 1 /\ j \in 1..c
      <4>1. more[g + 1].first <= c + 1 /\ g + 1 \in 1..L + 1
        BY <1>2, <1>7, <2>3
      <4>2. more[g + 1].first > j
        BY <2>1, <3>1
      <4>3. more[g + 1].first \in Nat
        <5>1. CASE g + 1 = L + 1
          BY <1>3, <1>4, <5>1
        <5>2. CASE g + 1 \in 1..L
          BY <1>2, <1>4, <5>2
        <5> QED BY <1>5, <4>1, <5>1, <5>2
      <4>4. j # c + 1
        BY <4>1, <4>2, <4>3
      <4> QED BY <4>4
    <3>3. GroupPlace(gs, g, j)
      <4>1. gs[g].first <= j
        BY <1>4, <2>1, <2>3
      <4>2. g = L \/ gs[g + 1].first > j
        <5>1. CASE g # L
          <6>1. g + 1 \in 1..L
            BY <1>2, <2>3, <5>1
          <6> QED BY <1>4, <2>1, <3>1, <6>1
        <5> QED BY <5>1
      <4> QED BY <4>1, <4>2 DEF GroupPlace, L
    <3> QED BY <1>1, <1>4, <2>3, <3>2, <3>3
  <2> QED BY <1>5, <2>2, <2>3
<1>9. more[1].first = 1 /\ L + 1 > 0
  BY <1>1, <1>2, <1>4, <1>5
<1> QED BY <1>4, <1>6, <1>7, <1>8, <1>9 DEF Grouped, more, new, L, G

\* The recursion of Groups, unfolded.
GroupsOfTo(h, chunks) ==
  h = [c \in 0..Len(chunks) |->
        IF c = 0 THEN <<>>
        ELSE IF c = 1 \/ chunks[c - 1] # chunks[c]
        THEN Append(h[c - 1], [first |-> c, per |-> chunks[c]])
        ELSE h[c - 1]]

\* The function that Groups chooses exists.
LEMMA GroupsSolved ==
  ASSUME NEW chunks \in Seq(Nat \ {0})
  PROVE  \E h : GroupsOfTo(h, chunks)
<1> DEFINE L == Len(chunks)
           X == Seq([first : Nat, per : Nat])
           New(c) == [first |-> c, per |-> chunks[c]]
           step == [c \in Nat |-> [s \in X |->
                      IF c \in 1..L /\ (c = 1 \/ chunks[c - 1] # chunks[c]) THEN Append(s, New(c)) ELSE s]]
<1>1. L \in Nat /\ \A c \in 1..L : chunks[c] \in Nat
  BY SeqFacts
<1> HIDE DEF L
<1>2. \A c \in Nat, s \in X : c \in 1..L => Append(s, New(c)) \in X
  <2> TAKE c \in Nat, s \in X
  <2> HAVE c \in 1..L
  <2>1. New(c) \in [first : Nat, per : Nat]
    BY <1>1
  <2> HIDE DEF New
  <2> QED BY <2>1
<1>3. <<>> \in X
  OBVIOUS
<1> HIDE DEF New, X
<1>4. step \in [Nat -> [X -> X]]
  BY <1>2
<1>5. \A c \in 1..L, s \in X :
        step[c][s] = IF c = 1 \/ chunks[c - 1] # chunks[c] THEN Append(s, New(c)) ELSE s
  BY <1>1
<1> HIDE DEF step
<1>6. PICK h : Unfolds(h, X, <<>>, step, L)
  BY <1>1, <1>3, <1>4, Recursion
<1>7. \A c \in 0..L : h[c] = IF c = 0 THEN <<>>
                             ELSE IF c = 1 \/ chunks[c - 1] # chunks[c]
                             THEN Append(h[c - 1], New(c)) ELSE h[c - 1]
  <2> TAKE c \in 0..L
  <2>1. CASE c = 0
    BY <1>6, <2>1 DEF Unfolds
  <2>2. CASE c # 0
    <3>1. c \in 1..L /\ c - 1 \in 0..L
      BY <1>1, <2>2
    <3>2. h[c - 1] \in X /\ h[c] = step[c][h[c - 1]]
      BY <1>6, <3>1 DEF Unfolds
    <3> QED BY <1>5, <2>2, <3>1, <3>2
  <2> QED BY <2>1, <2>2
<1>8. h = [c \in 0..L |-> h[c]]
  BY <1>6 DEF Unfolds
<1> QED BY <1>7, <1>8 DEF GroupsOfTo, L, New

\* Groups tells the number of samples of each chunk.
LEMMA GroupsTell ==
  ASSUME NEW chunks \in Seq(Nat \ {0}), chunks # <<>>
  PROVE  Grouped(Groups(chunks), chunks, Len(chunks))
<1> DEFINE L == Len(chunks)
           h == CHOOSE h : GroupsOfTo(h, chunks)
<1>1. L \in Nat /\ (\A c \in 1..L : chunks[c] \in Nat) /\ L > 0
  BY SeqFacts
<1>2. GroupsOfTo(h, chunks)
  BY GroupsSolved
<1>3. Groups(chunks) = h[L]
  BY DEF Groups, GroupsOfTo
<1> HIDE DEF h
<1>4. h[0] = <<>> /\ \A c \in 1..L :
        h[c] = IF c = 1 \/ chunks[c - 1] # chunks[c]
               THEN Append(h[c - 1], [first |-> c, per |-> chunks[c]]) ELSE h[c - 1]
  <2>1. \A c \in 0..L : h[c] =
          IF c = 0 THEN <<>>
          ELSE IF c = 1 \/ chunks[c - 1] # chunks[c]
          THEN Append(h[c - 1], [first |-> c, per |-> chunks[c]]) ELSE h[c - 1]
    BY <1>2 DEF GroupsOfTo
  <2>2. 0 \in 0..L /\ \A c \in 1..L : c \in 0..L /\ c # 0
    BY <1>1
  <2> HIDE DEF L
  <2> QED BY <2>1, <2>2
<1> DEFINE P == {m \in Nat : m + 1 <= L => Grouped(h[m + 1], chunks, m + 1)}
<1> HIDE DEF L
<1>5. 0 \in P
  <2>1. 1 \in 1..L /\ chunks[1] \in Nat
    BY <1>1
  <2> DEFINE one == [first |-> 1, per |-> chunks[1]]
  <2>2. h[1] = << one >>
    <3>1. h[1] = Append(h[1 - 1], one)
      BY <1>4, <2>1
    <3>2. h[1 - 1] = <<>>
      BY <1>4
    <3> HIDE DEF one
    <3> QED BY <3>1, <3>2
  <2>3. one \in [first : Nat, per : Nat] /\ one.first = 1 /\ one.per = chunks[1]
    BY <2>1
  <2> HIDE DEF one
  <2>4. << one >> \in Seq([first : Nat, per : Nat]) /\ Len(<< one >>) = 1 /\ << one >>[1] = one
    BY <2>3
  <2> DEFINE gs == << one >>
  <2> HIDE DEF gs
  <2>5. Grouped(gs, chunks, 1)
    BY <2>3, <2>4 DEF Grouped, gs
  <2>6. 0 + 1 = 1
    OBVIOUS
  <2> QED BY <2>2, <2>5, <2>6 DEF gs
<1>6. ASSUME NEW m \in Nat, m \in P PROVE m + 1 \in P
  <2> SUFFICES ASSUME (m + 1) + 1 <= L PROVE Grouped(h[(m + 1) + 1], chunks, (m + 1) + 1)
    OBVIOUS
  <2> DEFINE c == m + 1
  <2>1. c \in Nat \ {0} /\ c + 1 \in 1..L /\ c + 1 # 1 /\ (c + 1) - 1 = c /\ m + 1 <= L
    BY <1>1
  <2>2. Grouped(h[c], chunks, c)
    BY <1>6, <2>1
  <2> HIDE DEF c
  <2>3. chunks[c + 1] \in Nat
    BY <1>1, <2>1
  <2>4. CASE chunks[c] # chunks[c + 1]
    <3>1. h[c + 1] = Append(h[c], [first |-> c + 1, per |-> chunks[c + 1]])
      BY <1>4, <2>1, <2>4
    <3>2. Grouped(Append(h[c], [first |-> c + 1, per |-> chunks[c + 1]]), chunks, c + 1)
      BY <2>1, <2>2, <2>3, GroupedNew
    <3> QED BY <3>1, <3>2 DEF c
  <2>5. CASE chunks[c] = chunks[c + 1]
    <3>1. h[c + 1] = h[c]
      BY <1>4, <2>1, <2>5
    <3>2. Grouped(h[c], chunks, c + 1)
      BY <2>1, <2>2, <2>5, GroupedSame
    <3> QED BY <3>1, <3>2 DEF c
  <2> QED BY <2>4, <2>5
<1> HIDE DEF P
<1>7. \A m \in Nat : m \in P
  BY <1>5, <1>6, Induction
<1>8. L - 1 \in Nat /\ (L - 1) + 1 = L /\ L <= L
  BY <1>1
<1>9. Grouped(h[L], chunks, L)
  <2>1. L - 1 \in P
    BY <1>7, <1>8
  <2> QED BY <1>8, <2>1 DEF P
<1> QED BY <1>3, <1>9 DEF L

\* The group that the cursor keeps is the one its chunk is in.
LEMMA GroupOfPlace ==
  ASSUME NEW tab, NEW chunks, NEW n, Grouped(tab.groups, chunks, n)
  PROVE  \A c \in Nat : /\ GroupOf(tab, c) + 1 \in 1..Len(tab.groups)
                        /\ GroupPlace(tab.groups, GroupOf(tab, c) + 1, c + 1)
<1> DEFINE gs == tab.groups
           L == Len(gs)
           P == {c \in Nat : GroupPlace(gs, GroupOf(tab, c) + 1, c + 1)}
<1>1. /\ gs \in Seq([first : Nat, per : Nat]) /\ L > 0 /\ gs[1].first = 1
      /\ \A g, h \in 1..L : g < h => gs[g].first < gs[h].first
  BY DEF Grouped
<1>2. L \in Nat /\ \A g \in 1..L : gs[g].first \in Nat
  <2>1. L \in Nat /\ \A g \in 1..L : gs[g] \in [first : Nat, per : Nat]
    BY <1>1, SeqFacts, Zenon
  <2> QED BY <2>1
<1>3. \A c \in Nat : GroupOf(tab, c) \in Nat /\ GroupOf(tab, c) + 1 \in 1..L
  <2>1. Len(tab.groups) \in Nat \ {0}
    BY <1>1, <1>2
  <2>2. \A c \in Nat : GroupOf(tab, c) < Len(tab.groups) /\ GroupOf(tab, c) \in Nat
    BY <2>1, GroupBelow, GroupFacts
  <2>3. Len(tab.groups) = L
    OBVIOUS
  <2> TAKE c \in Nat
  <2> DEFINE g == GroupOf(tab, c)
  <2>4. g < L /\ g \in Nat
    BY <2>2, <2>3
  <2> HIDE DEF g, L
  <2>5. g + 1 \in 1..L
    BY <1>2, <2>4
  <2> QED BY <2>4, <2>5 DEF g
<1> HIDE DEF gs, L
<1>4. 0 \in P
  <2>1. GroupOf(tab, 0) = GroupAt(tab, 0, 0)
    BY GroupFacts
  <2>2. 1 \in 1..L
    BY <1>1, <1>2
  <2>3. ASSUME 1 < L PROVE gs[2].first > 1
    <3>1. 2 \in 1..L
      BY <1>2, <2>3
    <3> QED BY <1>1, <2>2, <3>1
  <2>4. GroupAt(tab, 0, 0) = 0
    <3>1. ~(0 + 1 < Len(gs) /\ 0 + 1 = gs[0 + 2].first)
      <4>1. SUFFICES ASSUME 1 < L PROVE 1 # gs[2].first
        BY DEF L
      <4>2. 2 \in 1..L
        BY <1>2, <4>1
      <4> QED BY <1>2, <2>3, <4>1, <4>2
    <3> QED BY <3>1 DEF GroupAt, gs
  <2>5. GroupPlace(gs, 1, 1)
    <3>1. 1 = L \/ gs[1 + 1].first > 1
      <4>1. 1 = L \/ 1 < L
        BY <1>1, <1>2
      <4>2. 1 + 1 = 2
        OBVIOUS
      <4> QED BY <2>3, <4>1, <4>2
    <3>2. gs[1].first <= 1
      BY <1>1
    <3> QED BY <3>1, <3>2 DEF GroupPlace, L
  <2>6. 0 + 1 = 1
    OBVIOUS
  <2> QED BY <2>1, <2>4, <2>5, <2>6
<1>5. ASSUME NEW c \in Nat, c \in P PROVE c + 1 \in P
  <2> DEFINE g == GroupOf(tab, c)
  <2>1. GroupOf(tab, c + 1) = GroupAt(tab, g, c + 1)
    BY GroupFacts
  <2>2. g \in Nat /\ g + 1 \in 1..L /\ GroupPlace(gs, g + 1, c + 1)
    BY <1>3, <1>5
  <2> HIDE DEF g
  <2>3. /\ gs[g + 1].first <= c + 1 /\ gs[g + 1].first \in Nat
        /\ g + 1 = L \/ gs[g + 2].first > c + 1
    <3>1. (g + 1) + 1 = g + 2
      BY <2>2
    <3> QED BY <1>2, <2>2, <3>1 DEF GroupPlace, L
  <2>4. CASE g + 1 < L /\ (c + 1) + 1 = gs[g + 2].first
    <3>1. GroupAt(tab, g, c + 1) = g + 1
      BY <2>4 DEF GroupAt, gs, L
    <3>2. g + 2 \in 1..L /\ (g + 1) + 1 = g + 2
      BY <1>2, <2>2, <2>4
    <3>3. g + 2 = L \/ gs[(g + 2) + 1].first > (c + 1) + 1
      <4>1. SUFFICES ASSUME g + 2 # L PROVE gs[(g + 2) + 1].first > (c + 1) + 1
        OBVIOUS
      <4>2. (g + 2) + 1 \in 1..L /\ g + 2 < (g + 2) + 1
        BY <1>2, <2>2, <3>2, <4>1
      <4>3. gs[g + 2].first < gs[(g + 2) + 1].first /\ gs[g + 2].first \in Nat /\ gs[(g + 2) + 1].first \in Nat
        BY <1>1, <1>2, <3>2, <4>2
      <4> QED BY <2>4, <4>3
    <3>4. GroupPlace(gs, g + 2, (c + 1) + 1)
      BY <2>4, <3>3 DEF GroupPlace, L
    <3> QED BY <2>1, <3>1, <3>2, <3>4
  <2>5. CASE ~(g + 1 < L /\ (c + 1) + 1 = gs[g + 2].first)
    <3>1. GroupAt(tab, g, c + 1) = g
      BY <2>5 DEF GroupAt, gs, L
    <3>2. g + 1 = L \/ gs[(g + 1) + 1].first > (c + 1) + 1
      <4>1. SUFFICES ASSUME g + 1 # L PROVE gs[g + 2].first > (c + 1) + 1
        <5>1. (g + 1) + 1 = g + 2
          BY <2>2
        <5> QED BY <5>1
      <4>2. g + 2 \in 1..L /\ g + 1 < L
        BY <1>2, <2>2, <4>1
      <4>3. gs[g + 2].first \in Nat /\ gs[g + 2].first # (c + 1) + 1
        BY <1>2, <2>5, <4>2
      <4> QED BY <2>3, <4>1, <4>3
    <3>3. gs[g + 1].first <= (c + 1) + 1
      BY <2>3
    <3>4. GroupPlace(gs, g + 1, (c + 1) + 1)
      BY <3>2, <3>3 DEF GroupPlace, L
    <3> QED BY <2>1, <3>1, <3>4
  <2> QED BY <2>4, <2>5
<1> HIDE DEF P
<1>6. \A c \in Nat : c \in P
  BY <1>4, <1>5, Induction
<1> QED BY <1>3, <1>6 DEF P, gs, L

\* The file as another program lays it out: chunks of several packets, and
\* one size for all of them if they agree.
LEMMA RegroupedPers ==
  ASSUME NEW tab, NEW chunks \in Seq(Nat \ {0}), tab.groups = Groups(chunks),
         DOMAIN tab.offsets = DOMAIN chunks
  PROVE  /\ Pers(tab) = chunks
         /\ tab.groups \in Seq([first : Nat, per : Nat])
         /\ \A g, h \in DOMAIN tab.groups : g < h => tab.groups[g].first < tab.groups[h].first
         /\ chunks # <<>> => tab.groups # <<>>
         /\ tab.groups # <<>> => tab.groups[1].first = 1
<1> DEFINE L == Len(chunks)
           gs == tab.groups
<1>1. L \in Nat /\ DOMAIN chunks = 1..L
  BY SeqFacts
<1>2. CASE chunks = <<>>
  <2>1. L = 0
    BY <1>2
  <2>2. gs = <<>>
    <3> DEFINE h == CHOOSE h : GroupsOfTo(h, chunks)
    <3>1. GroupsOfTo(h, chunks)
      BY GroupsSolved
    <3>2. Groups(chunks) = h[L]
      BY DEF Groups, GroupsOfTo
    <3> HIDE DEF h
    <3>3. h[0] = <<>>
      BY <2>1, <3>1 DEF GroupsOfTo
    <3> QED BY <2>1, <3>2, <3>3
  <2>3. Pers(tab) = [c \in 1..0 |-> tab.groups[GroupOf(tab, c - 1) + 1].per]
    BY <1>1, <2>1 DEF Pers
  <2>4. Pers(tab) = <<>>
    BY <2>3
  <2>5. <<>> \in Seq([first : Nat, per : Nat]) /\ DOMAIN <<>> = {}
    OBVIOUS
  <2> QED BY <1>2, <2>2, <2>4, <2>5
<1>3. CASE chunks # <<>>
  <2>1. Grouped(gs, chunks, L)
    BY <1>3, GroupsTell
  <2>2. /\ gs \in Seq([first : Nat, per : Nat]) /\ Len(gs) > 0 /\ gs[1].first = 1
        /\ \A g, h \in 1..Len(gs) : g < h => gs[g].first < gs[h].first
        /\ \A j \in 1..L : \A g \in 1..Len(gs) : GroupPlace(gs, g, j) => gs[g].per = chunks[j]
    BY <2>1 DEF Grouped
  <2>3. \A c \in Nat : GroupOf(tab, c) + 1 \in 1..Len(gs) /\ GroupPlace(gs, GroupOf(tab, c) + 1, c + 1)
    BY <2>1, GroupOfPlace
  <2>4. gs # <<>> /\ DOMAIN gs = 1..Len(gs)
    BY <2>2, SeqFacts
  <2>5. \A c \in 1..L : gs[GroupOf(tab, c - 1) + 1].per = chunks[c]
    <3> TAKE c \in 1..L
    <3>1. c - 1 \in Nat /\ (c - 1) + 1 = c
      BY <1>1
    <3>2. GroupOf(tab, c - 1) + 1 \in 1..Len(gs) /\ GroupPlace(gs, GroupOf(tab, c - 1) + 1, c)
      BY <2>3, <3>1
    <3> QED BY <2>2, <3>2
  <2>6. Pers(tab) = [c \in 1..L |-> chunks[c]]
    BY <1>1, <2>5 DEF Pers
  <2>7. chunks = [c \in 1..L |-> chunks[c]]
    OBVIOUS
  <2> QED BY <2>2, <2>4, <2>6, <2>7
<1> QED BY <1>2, <1>3

\* A table regrouped in chunks, wherever its track begins, tells the same packets.
LEMMA RegroupedLaid ==
  ASSUME NEW tab, NEW video \in BOOLEAN, NEW w \in Seq(Pkt), \A i \in DOMAIN w : w[i].data # <<>>,
         Described(tab, video, w, Len(w)), OneEach(tab, w, Len(w)),
         NEW chunks \in Seq(Nat \ {0}), Total(chunks) = Len(w), NEW at \in Nat, NEW fix \in BOOLEAN,
         NEW d, \A i \in 1..Len(w) : Placed(d, at + SumTo(Sizes(w, Len(w)), i - 1), w[i].data)
  PROVE  /\ Described(Regrouped(tab, chunks, at, fix), video, w, Len(w))
         /\ Laid(Regrouped(tab, chunks, at, fix), w, d)
<1> DEFINE n == Len(w)
           sizes == Sizes(w, n)
           L == Len(chunks)
           before(c) == SumTo(tab.sizes, SumTo(chunks, c - 1))
           one == fix /\ tab.sizes # <<>> /\ \A i \in DOMAIN tab.sizes : tab.sizes[i] = tab.sizes[1]
           reg == Regrouped(tab, chunks, at, fix)
<1>1. n \in Nat /\ L \in Nat /\ DOMAIN w = 1..n /\ DOMAIN chunks = 1..L /\ \A c \in 1..L : chunks[c] \in Nat \ {0}
  BY SeqFacts
<1>2. Fields \subseteq DOMAIN tab /\ tab.fixed = 0 /\ tab.sizes = sizes
  BY DEF OneEach
<1>3. /\ reg.groups = Groups(chunks)
      /\ reg.offsets = [c \in DOMAIN chunks |-> at + before(c)]
      /\ reg.fixed = IF one THEN tab.sizes[1] ELSE 0
      /\ reg.sizes = IF one THEN <<>> ELSE tab.sizes
      /\ reg.stts = tab.stts /\ reg.ctts = tab.ctts /\ reg.synced = tab.synced /\ reg.sync = tab.sync
  BY <1>2 DEF Regrouped, Fields
<1>4. /\ sizes \in Seq(Nat) /\ Len(sizes) = n /\ DOMAIN sizes = 1..n
      /\ \A i \in 1..n : sizes[i] \in Nat \ {0} /\ sizes[i] \in Int
  <2>1. sizes \in Seq(Nat) /\ Len(sizes) = n /\ \A i \in 1..n : sizes[i] = Len(w[i].data) /\ Len(w[i].data) \in Nat
    BY <1>1, SizesFacts
  <2>2. \A i \in 1..n : Len(w[i].data) # 0
    <3> TAKE i \in 1..n
    <3>1. w[i] \in Pkt
      BY SeqFacts, Zenon
    <3>2. w[i].data \in Seq(Seq(Nat))
      BY <3>1 DEF Pkt
    <3>3. w[i].data # <<>>
      BY <1>1
    <3> QED BY <3>2, <3>3, SeqFacts, Zenon
  <2>3. DOMAIN sizes = 1..n
    BY DEF Sizes
  <2>4. \A i \in 1..n : sizes[i] \in Nat \ {0} /\ sizes[i] \in Int
    <3> HIDE DEF sizes, n
    <3> TAKE i \in 1..n
    <3>1. sizes[i] = Len(w[i].data) /\ Len(w[i].data) \in Nat /\ Len(w[i].data) # 0
      BY <2>1, <2>2
    <3> QED BY <3>1
  <2> QED BY <2>1, <2>3, <2>4
<1> HIDE DEF one, reg, sizes, n, L
<1>5. Described(reg, video, w, n)
  BY <1>3 DEF Described, n
<1>6. /\ SumTo(chunks, L) = n
      /\ \A c \in 0..L : SumTo(chunks, c) \in Nat
      /\ \A b, c \in 0..L : b <= c => SumTo(chunks, b) <= SumTo(chunks, c)
      /\ \A c \in 1..L : SumTo(chunks, c) = SumTo(chunks, c - 1) + chunks[c]
  <2>1. SumTo(chunks, L) = n
    BY DEF Total, n, L
  <2>2. \A c \in 1..L : chunks[c] \in Nat /\ chunks[c] \in Int
    BY <1>1
  <2>3. /\ \A c \in 0..L : SumTo(chunks, c) \in Nat
        /\ \A b, c \in 0..L : b <= c => SumTo(chunks, b) <= SumTo(chunks, c)
    BY <1>1, <2>2, SumGrows
  <2>4. \A c \in 1..L : SumTo(chunks, c) = SumTo(chunks, c - 1) + chunks[c]
    <3> TAKE c \in 1..L
    <3>1. c \in Nat /\ c > 0 /\ \A i \in 1..c : i \in 1..L
      BY <1>1
    <3>2. \A i \in 1..c : chunks[i] \in Int
      BY <2>2, <3>1
    <3> QED BY <3>1, <3>2, SumFacts
  <2> QED BY <2>1, <2>3, <2>4
<1>7. \A i \in 0..n : SumTo(sizes, i) \in Nat
  BY <1>1, <1>4, SumGrows
<1>8. \A c \in 1..L : SumTo(chunks, c - 1) \in 0..n /\ before(c) \in Nat
  <2> TAKE c \in 1..L
  <2>1. c - 1 \in 0..L /\ L \in 0..L /\ c - 1 <= L
    BY <1>1
  <2>2. SumTo(chunks, c - 1) \in Nat /\ SumTo(chunks, c - 1) <= n
    BY <1>6, <2>1
  <2>3. SumTo(chunks, c - 1) \in 0..n
    BY <1>1, <2>2
  <2> QED BY <1>2, <1>7, <2>3
<1>9. reg.offsets \in Seq(Nat) /\ DOMAIN reg.offsets = 1..L /\ (reg.offsets # <<>> => chunks # <<>>)
      /\ \A c \in 1..L : reg.offsets[c] = at + SumTo(sizes, SumTo(chunks, c - 1))
  <2> DEFINE off == [c \in 1..L |-> at + before(c)]
  <2>1. reg.offsets = off
    BY <1>1, <1>3
  <2>2. \A c \in 1..L : at + before(c) \in Nat
    BY <1>8
  <2>3. off \in Seq(Nat) /\ DOMAIN off = 1..L
    BY <1>1, <2>2
  <2>4. off # <<>> => chunks # <<>>
    <3>1. ASSUME chunks = <<>> PROVE off = <<>>
      <4>1. L = 0
        BY <3>1 DEF L
      <4> QED BY <4>1
    <3> QED BY <3>1
  <2>5. \A c \in 1..L : off[c] = at + SumTo(sizes, SumTo(chunks, c - 1))
    BY <1>2
  <2> QED BY <2>1, <2>3, <2>4, <2>5
<1>10. /\ Pers(reg) = chunks
       /\ reg.groups \in Seq([first : Nat, per : Nat])
       /\ \A g, h \in DOMAIN reg.groups : g < h => reg.groups[g].first < reg.groups[h].first
       /\ chunks # <<>> => reg.groups # <<>>
       /\ reg.groups # <<>> => reg.groups[1].first = 1
  BY <1>1, <1>3, <1>9, RegroupedPers
<1>11. Chunked(reg, n)
  <2>1. Positive(chunks) /\ Total(chunks) = n
    BY <1>1 DEF Positive, n
  <2> QED BY <1>9, <1>10, <2>1 DEF Chunked
<1>12. Sized(reg, sizes)
  <2>1. CASE one
    <3>1. reg.fixed = sizes[1] /\ reg.sizes = <<>>
      BY <1>2, <1>3, <2>1
    <3>2. sizes # <<>> /\ \A i \in 1..n : sizes[i] = sizes[1]
      BY <1>2, <1>4, <2>1 DEF one
    <3>3. n # 0
      BY <1>4, <3>2, SeqFacts
    <3>4. 1 \in 1..n
      BY <1>1, <3>3
    <3>5. sizes[1] \in Nat \ {0}
      BY <1>4, <3>4
    <3> QED BY <1>4, <3>1, <3>2, <3>5 DEF Sized
  <2>2. CASE ~one
    BY <1>2, <1>3, <2>2 DEF Sized
  <2> QED BY <2>1, <2>2
<1>13. ASSUME NEW c \in 1..L, NEW a \in 0..chunks[c] - 1
       PROVE  Placed(d, reg.offsets[c] + SumTo(sizes, SumTo(chunks, c - 1) + a) - SumTo(sizes, SumTo(chunks, c - 1)),
                     w[SumTo(chunks, c - 1) + a + 1].data)
  <2> DEFINE f == SumTo(chunks, c - 1)
             i == f + a + 1
  <2>1. f \in Nat /\ SumTo(chunks, c) = f + chunks[c] /\ chunks[c] \in Nat
    <3>1. f \in 0..n
      BY <1>8
    <3>2. f \in Nat
      BY <1>1, <3>1
    <3> QED BY <1>1, <1>6, <3>2
  <2>2. SumTo(chunks, c) <= n
    <3>1. c \in 0..L /\ L \in 0..L /\ c <= L
      BY <1>1
    <3> QED BY <1>6, <3>1
  <2>3. i \in 1..n /\ i - 1 = f + a /\ f + a \in 0..n /\ f \in 0..n
    BY <1>1, <2>1, <2>2
  <2> HIDE DEF i, f
  <2>4. reg.offsets[c] + SumTo(sizes, f + a) - SumTo(sizes, f) = at + SumTo(sizes, f + a)
    <3>1. reg.offsets[c] = at + SumTo(sizes, f)
      BY <1>9 DEF f
    <3>2. SumTo(sizes, f) \in Nat /\ SumTo(sizes, f + a) \in Nat
      BY <1>7, <2>3
    <3> QED BY <3>1, <3>2
  <2>5. Placed(d, at + SumTo(sizes, i - 1), w[i].data)
    BY <2>3 DEF sizes, n
  <2> QED BY <2>3, <2>4, <2>5 DEF i, f
<1>14. Laid(reg, w, d)
  BY <1>9, <1>10, <1>11, <1>12, <1>13 DEF Laid, n, sizes
<1> QED BY <1>5, <1>14 DEF reg, n

\* The tracks one after the other.
LEMMA FlatPlaced ==
  ASSUME NEW X, NEW ss \in Seq(Seq(Seq(X))), NEW lens, NEW d,
         \A t \in DOMAIN ss : lens[t] = Len(FlattenSeq(ss[t])),
         d = FlattenSeq([t \in DOMAIN ss |-> FlattenSeq(ss[t])])
  PROVE  /\ d \in Seq(X)
         /\ \A t \in DOMAIN ss : SumTo(lens, t - 1) \in Nat
         /\ \A t \in DOMAIN ss : \A sizes : (\A i \in DOMAIN ss[t] : sizes[i] = Len(ss[t][i])) =>
              \A i \in DOMAIN ss[t] : Placed(d, 8 + SumTo(lens, t - 1) + SumTo(sizes, i - 1), ss[t][i])
<1> DEFINE N == Len(ss)
           flat == [t \in DOMAIN ss |-> FlattenSeq(ss[t])]
           Y == Seq(X)
<1>1. N \in Nat /\ DOMAIN ss = 1..N /\ \A t \in 1..N : ss[t] \in Seq(Y)
  BY SeqFacts, Zenon
<1>2. \A t \in 1..N : FlattenSeq(ss[t]) \in Y
  <2> TAKE t \in 1..N
  <2> DEFINE s == ss[t]
  <2>1. s \in Seq(Seq(X))
    BY <1>1
  <2> DEFINE len == [i \in 1..Len(s) |-> Len(s[i])]
  <2> HIDE DEF s
  <2>2. \A i \in 1..Len(s) : len[i] = Len(s[i])
    OBVIOUS
  <2> HIDE DEF len
  <2>3. FlattenSeq(s) \in Seq(X)
    <3>1. FlatTells(FlattenSeq(s), s, X, len)
      BY <2>1, <2>2, FlatAt
    <3> QED BY <3>1 DEF FlatTells
  <2> QED BY <2>3 DEF s
<1> HIDE DEF Y
<1>3. flat \in Seq(Y) /\ Len(flat) = N /\ \A t \in 1..N : flat[t] = FlattenSeq(ss[t]) /\ lens[t] = Len(flat[t])
  <2>1. flat = [t \in 1..N |-> flat[t]] /\ \A t \in 1..N : flat[t] = FlattenSeq(ss[t])
    BY <1>1
  <2>2. \A t \in 1..N : lens[t] = Len(flat[t])
    BY <1>1, <2>1
  <2>3. \A t \in 1..N : flat[t] \in Y
    BY <1>2, <2>1
  <2> HIDE DEF flat, N
  <2>4. flat \in Seq(Y) /\ Len(flat) = N
    BY <1>1, <2>1, <2>3, MakesSeq
  <2> QED BY <2>1, <2>2, <2>4
<1> HIDE DEF flat, N
<1>4. /\ d \in Seq(X) /\ Len(d) = SumTo(lens, N)
      /\ \A t \in 1..N : /\ SumTo(lens, t - 1) \in Nat
                         /\ SumTo(lens, t - 1) + Len(flat[t]) <= Len(d)
                         /\ \A j \in 1..Len(flat[t]) : d[SumTo(lens, t - 1) + j] = flat[t][j]
  <2>1. flat \in Seq(Seq(X)) /\ \A t \in 1..Len(flat) : lens[t] = Len(flat[t])
    BY <1>3 DEF Y
  <2>2. d = FlattenSeq(flat)
    BY DEF flat
  <2>3. FlatTells(FlattenSeq(flat), flat, X, lens)
    BY <2>1, FlatAt
  <2> QED BY <1>3, <2>2, <2>3 DEF FlatTells
<1>5. ASSUME NEW t \in 1..N, NEW sizes, \A i \in DOMAIN ss[t] : sizes[i] = Len(ss[t][i]), NEW i \in DOMAIN ss[t]
      PROVE  Placed(d, 8 + SumTo(lens, t - 1) + SumTo(sizes, i - 1), ss[t][i])
  <2> DEFINE s == ss[t]
             f == FlattenSeq(s)
             p == SumTo(lens, t - 1)
             q == SumTo(sizes, i - 1)
  <2>1. s \in Seq(Seq(X))
    BY <1>1 DEF Y
  <2>2. DOMAIN s = 1..Len(s) /\ i \in 1..Len(s)
    <3>1. DOMAIN s = 1..Len(s)
      BY <2>1, SeqFacts, Zenon
    <3> QED BY <3>1
  <2>3. s[i] \in Seq(X)
    BY <2>1, <2>2, SeqFacts, Zenon
  <2>4. p \in Nat /\ p + Len(f) <= Len(d) /\ \A j \in 1..Len(f) : d[p + j] = f[j]
    BY <1>3, <1>4
  <2>5. \A k \in 1..Len(s) : sizes[k] = Len(s[k])
    BY <1>5, <2>2
  <2> HIDE DEF s
  <2>6. /\ f \in Seq(X) /\ q \in Nat /\ q + Len(s[i]) <= Len(f)
        /\ \A j \in 1..Len(s[i]) : f[q + j] = s[i][j]
    <3>1. FlatTells(FlattenSeq(s), s, X, sizes)
      BY <2>1, <2>5, FlatAt
    <3> QED BY <2>2, <3>1 DEF FlatTells
  <2> HIDE DEF f, p, q
  <2> DEFINE b == s[i]
  <2>7. Len(b) \in Nat /\ DOMAIN b = 1..Len(b) /\ Len(f) \in Nat /\ Len(d) \in Nat
    <3>1. Len(b) \in Nat /\ DOMAIN b = 1..Len(b)
      BY <2>3, SeqFacts, Zenon
    <3>2. Len(f) \in Nat /\ Len(d) \in Nat
      BY <1>4, <2>6, SeqFacts, Zenon
    <3> QED BY <3>1, <3>2
  <2> HIDE DEF b
  <2>8. q + Len(b) <= Len(f) /\ \A j \in 1..Len(b) : f[q + j] = b[j]
    BY <2>6 DEF b
  <2>9. (8 + p + q) - 8 = p + q /\ p + q \in Nat
    BY <2>4, <2>6
  <2>10. \A j \in 1..Len(b) : d[p + q + j] = b[j]
    <3> TAKE j \in 1..Len(b)
    <3>1. q + j \in 1..Len(f) /\ p + (q + j) = p + q + j
      BY <2>4, <2>6, <2>7, <2>8
    <3>2. d[p + (q + j)] = f[q + j]
      BY <2>4, <3>1
    <3> QED BY <2>8, <3>1, <3>2
  <2>11. p + q + Len(b) <= Len(d)
    BY <2>4, <2>6, <2>7, <2>8
  <2>12. Placed(d, 8 + p + q, b)
    BY <2>7, <2>9, <2>10, <2>11 DEF Placed
  <2> QED BY <2>12 DEF b, p, q, s
<1> QED BY <1>1, <1>4, <1>5

-----------------------------------------------------------------------------
(* The muxer's steps, track by track. *)
\* The tables of a new stream tell of nothing.
LEMMA NewTells ==
  ASSUME NEW codec, NEW w, NEW d
  PROVE  /\ Described(NewTable(codec), codec # "AAC", w, 0)
         /\ OneEach(NewTable(codec), w, 0) /\ InPlace(NewTable(codec), w, d)
<1> DEFINE tab == NewTable(codec)
<1>1. /\ tab.groups = << [first |-> 1, per |-> 1] >> /\ tab.offsets = <<>> /\ tab.fixed = 0 /\ tab.sizes = <<>>
      /\ tab.stts = <<>> /\ tab.ctts = <<>> /\ tab.synced = (codec # "AAC") /\ tab.sync = <<>>
      /\ Fields \subseteq DOMAIN tab
  BY DEF NewTable, Fields
<1> HIDE DEF tab
<1>2. \A field, vals : RunsOf(<<>>, field, vals, 0)
  <2> TAKE field, vals
  <2>1. Column(<<>>, "count") = <<>> /\ <<>> \in Seq([{"count", field} -> Nat]) /\ DOMAIN <<>> = {} /\ Len(<<>>) = 0
    BY DEF Column
  <2>2. SumTo(<<>>, 0) = 0
    <3>1. \A i \in 1..0 : <<>>[i] \in Int
      OBVIOUS
    <3> QED BY <3>1, SumFacts
  <2>3. Positive(<<>>) /\ Total(<<>>) = 0
    BY <2>1, <2>2 DEF Positive, Total
  <2> QED BY <2>1, <2>3 DEF RunsOf
<1>3. Lists(<<>>, {i \in 1..0 : w[i].key})
  <2>1. <<>> \in Seq(Nat) /\ DOMAIN <<>> = {} /\ {i \in 1..0 : w[i].key} = {}
    OBVIOUS
  <2> QED BY <2>1 DEF Lists, ToSet
<1>4. Sizes(w, 0) = <<>> /\ <<>> \in Seq(Nat) /\ Len(<<>>) = 0 /\ DOMAIN <<>> = {}
  BY DEF Sizes
<1>5. Described(tab, codec # "AAC", w, 0)
  BY <1>1, <1>2, <1>3 DEF Described
<1> QED BY <1>1, <1>4, <1>5 DEF OneEach, InPlace, tab

\* The first packet of a track waits.
LEMMA FirstWaits ==
  ASSUME NEW tab, NEW video \in BOOLEAN, NEW w \in Seq(Pkt), NEW v \in Seq(Pkt), NEW d,
         Described(tab, video, w, 0), OneEach(tab, w, 0), InPlace(tab, w, d)
  PROVE  Described(tab, video, v, 0) /\ OneEach(tab, v, 0) /\ InPlace(tab, v, d)
<1>1. 0 \in Nat /\ 0 <= Len(w) /\ 0 <= Len(v) /\ \A i \in 1..0 : FALSE
  BY SeqFacts
<1>2. Described(tab, video, v, 0)
  BY <1>1, DescribedAgree
<1>3. OneEach(tab, v, 0)
  BY <1>1, OneEachAgree
<1>4. tab.offsets \in Seq(Nat) /\ Len(tab.offsets) = 0
  BY DEF OneEach
<1>5. InPlace(tab, v, d)
  BY <1>1, <1>4, InPlaceAgree
<1> QED BY <1>2, <1>3, <1>5

\* The packet that waited is written.
LEMMA WaitingWritten ==
  ASSUME NEW tab, NEW video \in BOOLEAN, NEW w \in Seq(Pkt), NEW n \in Nat, n < Len(w), Gap(w, n + 1) \in Nat,
         Described(tab, video, w, n), OneEach(tab, w, n),
         NEW d \in Seq(Seq(Nat)), InPlace(tab, w, d)
  PROVE  /\ Described(AddSample(tab, video, w[n + 1], Gap(w, n + 1), 8 + Len(d)), video, w, n + 1)
         /\ OneEach(AddSample(tab, video, w[n + 1], Gap(w, n + 1), 8 + Len(d)), w, n + 1)
         /\ InPlace(AddSample(tab, video, w[n + 1], Gap(w, n + 1), 8 + Len(d)), w, d \o w[n + 1].data)
         /\ d \o w[n + 1].data \in Seq(Seq(Nat))
<1> DEFINE at == 8 + Len(d)
           add == AddSample(tab, video, w[n + 1], Gap(w, n + 1), at)
<1>1. at \in Nat
  BY SeqFacts
<1> HIDE DEF at
<1>2. /\ Described(add, video, w, n + 1) /\ OneEach(add, w, n + 1)
      /\ add.offsets = Append(tab.offsets, at % Wrap)
  BY <1>1, AddDescribes, Zenon
<1> HIDE DEF add
<1>3. tab.offsets \in Seq(Nat) /\ Len(tab.offsets) = n
  BY DEF OneEach
<1>4. InPlace(add, w, d \o w[n + 1].data) /\ d \o w[n + 1].data \in Seq(Seq(Nat))
  BY <1>2, <1>3, AddInPlace DEF at
<1> QED BY <1>2, <1>4 DEF add, at

\* A packet that is not before the one that waits takes its place.
LEMMA NextWaits ==
  ASSUME NEW w \in Seq(Pkt), NEW pkt \in Pkt, NEW gap \in Nat, Len(w) > 0,
         pkt.time = gap + w[Len(w)].time
  PROVE  /\ Append(w, pkt) \in Seq(Pkt) /\ Len(Append(w, pkt)) = Len(w) + 1
         /\ \A i \in 1..Len(w) : Append(w, pkt)[i] = w[i]
         /\ \A i \in 1..Len(w) - 1 : Gap(Append(w, pkt), i) = Gap(w, i)
         /\ Gap(Append(w, pkt), Len(w)) = gap /\ Gap(Append(w, pkt), Len(w) + 1) = 0
<1> DEFINE n == Len(w)
           v == Append(w, pkt)
<1>1. n \in Nat
  BY SeqFacts
<1>2. v \in Seq(Pkt) /\ Len(v) = n + 1 /\ v[n + 1] = pkt /\ \A i \in 1..n : v[i] = w[i]
  OBVIOUS
<1> HIDE DEF v
<1>3. \A i \in 1..n - 1 : Gap(v, i) = Gap(w, i)
  <2> TAKE i \in 1..n - 1
  <2>1. i < n /\ i < n + 1 /\ i \in 1..n /\ i + 1 \in 1..n
    BY <1>1
  <2> QED BY <1>2, <2>1 DEF Gap
<1>4. Gap(v, n) = gap
  <2>1. n < n + 1 /\ n \in 1..n
    BY <1>1
  <2>2. Gap(v, n) = pkt.time - w[n].time
    BY <1>2, <2>1 DEF Gap
  <2>3. w[n] \in Pkt
    BY <2>1, SeqFacts, Zenon
  <2>4. w[n].time \in Int
    BY <2>3 DEF Pkt
  <2> QED BY <2>2, <2>4
<1>5. Gap(v, n + 1) = 0
  BY <1>1, <1>2 DEF Gap
<1> QED BY <1>2, <1>3, <1>4, <1>5 DEF v

\* The packet that waited is written when the next one comes (writePacket).
LEMMA PacketWritten ==
  ASSUME NEW tab, NEW video \in BOOLEAN, NEW w \in Seq(Pkt), NEW pkt \in Pkt, NEW gap \in Nat, Len(w) > 0,
         pkt.time = gap + w[Len(w)].time,
         Described(tab, video, w, Len(w) - 1), OneEach(tab, w, Len(w) - 1),
         NEW d \in Seq(Seq(Nat)), InPlace(tab, w, d)
  PROVE  /\ Described(AddSample(tab, video, w[Len(w)], gap, 8 + Len(d)), video, Append(w, pkt), Len(w))
         /\ OneEach(AddSample(tab, video, w[Len(w)], gap, 8 + Len(d)), Append(w, pkt), Len(w))
         /\ InPlace(AddSample(tab, video, w[Len(w)], gap, 8 + Len(d)), Append(w, pkt), d \o w[Len(w)].data)
         /\ d \o w[Len(w)].data \in Seq(Seq(Nat))
<1> DEFINE m == Len(w) - 1
           v == Append(w, pkt)
<1>1. m \in Nat /\ m + 1 = Len(w) /\ m + 1 \in 1..Len(w)
  BY SeqFacts
<1>2. /\ v \in Seq(Pkt) /\ Len(v) = Len(w) + 1 /\ v[m + 1] = w[m + 1]
      /\ (\A i \in 1..m : v[i] = w[i] /\ Gap(w, i) = Gap(v, i)) /\ Gap(v, m + 1) = gap
  <2>1. /\ v \in Seq(Pkt) /\ Len(v) = Len(w) + 1
        /\ \A i \in 1..Len(w) : v[i] = w[i]
        /\ \A i \in 1..Len(w) - 1 : Gap(v, i) = Gap(w, i)
        /\ Gap(v, Len(w)) = gap
    BY NextWaits
  <2>2. \A i \in 1..m : i \in 1..Len(w)
    BY <1>1
  <2> HIDE DEF v
  <2> QED BY <1>1, <2>1, <2>2
<1>3. m <= Len(w) /\ m <= Len(v) /\ m < Len(v)
  BY <1>1, <1>2
<1>4. Described(tab, video, w, m) /\ OneEach(tab, w, m)
  OBVIOUS
<1> HIDE DEF v, m
<1>5. Described(tab, video, v, m)
  BY <1>1, <1>2, <1>3, <1>4, DescribedAgree
<1>6. OneEach(tab, v, m)
  BY <1>1, <1>2, <1>4, OneEachAgree
<1>7. InPlace(tab, v, d)
  <2>1. tab.offsets \in Seq(Nat) /\ Len(tab.offsets) = m
    BY <1>6 DEF OneEach
  <2> QED BY <1>1, <1>2, <2>1, InPlaceAgree
<1>8. /\ Described(AddSample(tab, video, v[m + 1], Gap(v, m + 1), 8 + Len(d)), video, v, m + 1)
      /\ OneEach(AddSample(tab, video, v[m + 1], Gap(v, m + 1), 8 + Len(d)), v, m + 1)
      /\ InPlace(AddSample(tab, video, v[m + 1], Gap(v, m + 1), 8 + Len(d)), v, d \o v[m + 1].data)
      /\ d \o v[m + 1].data \in Seq(Seq(Nat))
  BY <1>1, <1>2, <1>3, <1>5, <1>6, <1>7, WaitingWritten
<1> QED BY <1>1, <1>2, <1>8 DEF v

-----------------------------------------------------------------------------
(* The packets that wait are written by the trailer, track after track. *)
Put(w, t) ==
  IF lastpkt[t] = <<>> THEN w
  ELSE [sample |-> [w.sample EXCEPT ![t] = AddSample(@, Video(t), lastpkt[t], 0, w.wpos)],
        wpos |-> w.wpos + Len(lastpkt[t].data), data |-> w.data \o lastpkt[t].data]
PutTo(h, n) ==
  h = [t \in 0..n |-> IF t = 0 THEN [sample |-> sample, wpos |-> wpos, data |-> data] ELSE Put(h[t - 1], t)]

\* The function that WriteTrailer's loop computes exists.
LEMMA PutSolved == \A n \in Nat : \E h : PutTo(h, n)
<1> DEFINE start == [sample |-> sample, wpos |-> wpos, data |-> data]
           P == {n \in Nat : \E h : PutTo(h, n)}
<1>1. 0 \in P
  <2> DEFINE h == [t \in 0..0 |-> start]
  <2>1. h = [t \in 0..0 |-> IF t = 0 THEN start ELSE Put(h[t - 1], t)]
    OBVIOUS
  <2>2. PutTo(h, 0)
    BY <2>1 DEF PutTo
  <2> QED BY <2>2
<1>2. ASSUME NEW n \in Nat, n \in P PROVE n + 1 \in P
  <2>1. PICK h : PutTo(h, n)
    BY <1>2
  <2> DEFINE g == [t \in 0..n + 1 |-> IF t = n + 1 THEN Put(h[n], n + 1) ELSE h[t]]
  <2> HIDE DEF start
  <2>2. \A t \in 0..n : h[t] = IF t = 0 THEN start ELSE Put(h[t - 1], t)
    BY <2>1 DEF PutTo, start
  <2>3. \A t \in 0..n + 1 : g[t] = IF t = 0 THEN start ELSE Put(g[t - 1], t)
    <3> TAKE t \in 0..n + 1
    <3>1. CASE t = n + 1
      <4>1. g[t] = Put(h[n], n + 1) /\ t - 1 = n /\ g[n] = h[n] /\ t # 0
        BY <3>1
      <4> QED BY <3>1, <4>1
    <3>2. CASE t # n + 1
      <4>1. t \in 0..n /\ g[t] = h[t]
        BY <3>2
      <4>2. t # 0 => t - 1 \in 0..n + 1 /\ t - 1 # n + 1 /\ g[t - 1] = h[t - 1]
        BY <3>2
      <4> QED BY <2>2, <4>1, <4>2
    <3> QED BY <3>1, <3>2
  <2>4. g = [t \in 0..n + 1 |-> g[t]]
    OBVIOUS
  <2> HIDE DEF g
  <2>5. PutTo(g, n + 1)
    BY <2>3, <2>4 DEF PutTo, start
  <2> QED BY <2>5
<1> HIDE DEF P
<1>3. \A n \in Nat : n \in P
  BY <1>1, <1>2, Induction
<1> QED BY <1>3 DEF P

-----------------------------------------------------------------------------
(* The muxer keeps its tables. *)
LEMMA PktIsNot == \A p \in Pkt : p # <<>>
<1> TAKE p \in Pkt
<1>1. "time" \in DOMAIN p
  BY DEF Pkt
<1>2. DOMAIN <<>> = {}
  OBVIOUS
<1> QED BY <1>1, <1>2

\* The tracks are numbered from 1.
LEMMA TracksAre ==
  ASSUME streams \in Tracks
  PROVE  /\ Len(streams) \in Nat /\ DOMAIN streams = 1..Len(streams)
         /\ \A t \in DOMAIN streams : t \in Nat /\ Video(t) \in BOOLEAN
<1>1. streams \in Seq({"H264", "H265", "AAC"})
  BY TracksAssumption
<1>2. Len(streams) \in Nat /\ DOMAIN streams = 1..Len(streams)
  BY <1>1, SeqFacts, Zenon
<1> QED BY <1>2 DEF Video

\* What waits of a track, and how much of it is in the tables.
LEMMA WaitingFacts ==
  ASSUME WrittenInv, NEW t \in DOMAIN streams
  PROVE  /\ written[t] \in Seq(Pkt) /\ Len(written[t]) \in Nat /\ DOMAIN written[t] = 1..Len(written[t])
         /\ \A i \in 1..Len(written[t]) : /\ written[t][i] \in Pkt /\ written[t][i].data # <<>>
                                          /\ Gap(written[t], i) >= 0
         /\ stage = "open" /\ written[t] # <<>> =>
              /\ Waiting(t) = written[t][Len(written[t])] /\ Waiting(t) \in Pkt /\ Waiting(t) # <<>>
              /\ Sampled(t) = Len(written[t]) - 1 /\ Len(written[t]) > 0
         /\ ~(stage = "open" /\ written[t] # <<>>) =>
              Waiting(t) = <<>> /\ Sampled(t) = Len(written[t])
<1> DEFINE w == written[t]
<1>1. w \in Seq(Pkt) /\ \A i \in DOMAIN w : Gap(w, i) >= 0 /\ w[i].data # <<>>
  BY DEF WrittenInv
<1>2. Len(w) \in Nat /\ DOMAIN w = 1..Len(w) /\ \A i \in 1..Len(w) : w[i] \in Pkt
  BY <1>1, SeqFacts, Zenon
<1>3. ASSUME w # <<>> PROVE Len(w) > 0 /\ w[Len(w)] \in Pkt /\ w[Len(w)] # <<>>
  <2>1. Len(w) # 0
    BY <1>1, <1>3, SeqFacts
  <2>2. Len(w) \in 1..Len(w)
    BY <1>2, <2>1
  <2> QED BY <1>2, <2>1, <2>2, PktIsNot
<1>4. Last(w) = w[Len(w)]
  BY DEF Last
<1>5. ASSUME stage = "open", w # <<>>
      PROVE  /\ Waiting(t) = w[Len(w)] /\ Waiting(t) \in Pkt /\ Waiting(t) # <<>>
             /\ Sampled(t) = Len(w) - 1 /\ Len(w) > 0
  <2>1. Waiting(t) = w[Len(w)] /\ Sampled(t) = Len(w) - 1
    BY <1>4, <1>5 DEF Waiting, Sampled
  <2> QED BY <1>3, <1>5, <2>1
<1>6. ASSUME ~(stage = "open" /\ w # <<>>)
      PROVE  Waiting(t) = <<>> /\ Sampled(t) = Len(w)
  <2>1. Waiting(t) = <<>> /\ Sampled(t) = Len(w) - 0
    BY <1>6 DEF Waiting, Sampled
  <2> QED BY <1>2, <2>1
<1> QED BY <1>1, <1>2, <1>5, <1>6

\* The trailer after the first k tracks.
PutUpTo(w, k) ==
  /\ DOMAIN w.sample = DOMAIN streams /\ w.data \in Seq(Seq(Nat)) /\ w.wpos = 8 + Len(w.data)
  /\ \A t \in DOMAIN streams :
       LET m == IF t <= k THEN Len(written[t]) ELSE Sampled(t)
       IN /\ Described(w.sample[t], Video(t), written[t], m)
          /\ OneEach(w.sample[t], written[t], m)
          /\ InPlace(w.sample[t], written[t], w.data)

\* Before the trailer each table tells all packets but the one that waits.
LEMMA PutStarts ==
  ASSUME WrittenInv, stage = "open"
  PROVE  PutUpTo([sample |-> sample, wpos |-> wpos, data |-> data], 0)
<1> DEFINE w == [sample |-> sample, wpos |-> wpos, data |-> data]
<1>1. w.sample = sample /\ w.wpos = wpos /\ w.data = data
  OBVIOUS
<1> HIDE DEF w
<1>2. \A t \in DOMAIN streams : ~(t <= 0)
  BY TracksAre DEF WrittenInv
<1>3. \A t \in DOMAIN streams :
        /\ Described(sample[t], Video(t), written[t], Sampled(t))
        /\ OneEach(sample[t], written[t], Sampled(t))
        /\ InPlace(sample[t], written[t], data)
  BY DEF WrittenInv
<1>4. DOMAIN sample = DOMAIN streams /\ data \in Seq(Seq(Nat)) /\ wpos = 8 + Len(data)
  BY DEF WrittenInv
<1>5. PutUpTo(w, 0)
  BY <1>1, <1>2, <1>3, <1>4 DEF PutUpTo
<1> QED BY <1>5 DEF w

\* The trailer writes the packet of one track more.
LEMMA PutGoesOn ==
  ASSUME WrittenInv, stage = "open", NEW t \in DOMAIN streams, NEW w, PutUpTo(w, t - 1)
  PROVE  PutUpTo(Put(w, t), t)
<1> DEFINE v == written[t]
           n == Len(v)
           new == Put(w, t)
<1>1. /\ DOMAIN w.sample = DOMAIN streams /\ w.data \in Seq(Seq(Nat)) /\ w.wpos = 8 + Len(w.data)
      /\ \A u \in DOMAIN streams :
           /\ Described(w.sample[u], Video(u), written[u], IF u <= t - 1 THEN Len(written[u]) ELSE Sampled(u))
           /\ OneEach(w.sample[u], written[u], IF u <= t - 1 THEN Len(written[u]) ELSE Sampled(u))
           /\ InPlace(w.sample[u], written[u], w.data)
  BY DEF PutUpTo
<1>2. /\ t \in Nat /\ ~(t <= t - 1) /\ Video(t) \in BOOLEAN
      /\ \A u \in DOMAIN streams : u # t => (u <= t - 1 <=> u <= t)
  <2>1. \A u \in DOMAIN streams : u \in Nat /\ Video(u) \in BOOLEAN
    BY TracksAre DEF WrittenInv
  <2> QED BY <2>1
<1>3. lastpkt[t] = Waiting(t)
  BY DEF WrittenInv
<1>4. CASE v = <<>>
  <2>1. new = w
    BY <1>3, <1>4, WaitingFacts DEF Put
  <2>2. Sampled(t) = Len(written[t])
    BY <1>4, WaitingFacts
  <2> HIDE DEF new, v, n
  <2>3. \A u \in DOMAIN streams :
          (IF u <= t THEN Len(written[u]) ELSE Sampled(u)) = (IF u <= t - 1 THEN Len(written[u]) ELSE Sampled(u))
    BY <1>2, <2>2
  <2>4. PutUpTo(w, t)
    BY <1>1, <2>3 DEF PutUpTo
  <2> QED BY <2>1, <2>4 DEF new
<1>5. CASE v # <<>>
  <2> DEFINE b == v[n].data
             d == w.data
             add == AddSample(w.sample[t], Video(t), v[n], 0, 8 + Len(d))
             m == n - 1
  <2>1. /\ v \in Seq(Pkt) /\ n \in Nat /\ n > 0 /\ Sampled(t) = m
        /\ lastpkt[t] = v[n] /\ lastpkt[t] # <<>> /\ v[n] \in Pkt
    BY <1>3, <1>5, WaitingFacts
  <2>2. /\ new.sample = [w.sample EXCEPT ![t] = add]
        /\ new.wpos = w.wpos + Len(b) /\ new.data = d \o b
    BY <1>1, <2>1 DEF Put
  <2>3. m \in Nat /\ m < n /\ m + 1 = n
    BY <2>1
  <2>4. Gap(v, n) = 0
    BY <2>1 DEF Gap
  <2>5. Described(w.sample[t], Video(t), v, m) /\ OneEach(w.sample[t], v, m) /\ InPlace(w.sample[t], v, d)
    BY <1>1, <1>2, <2>1
  <2> HIDE DEF m, v
  <2> DEFINE at == 8 + Len(d)
             made == AddSample(w.sample[t], Video(t), v[m + 1], Gap(v, m + 1), 8 + Len(d))
  <2>6. /\ Described(made, Video(t), v, m + 1) /\ OneEach(made, v, m + 1)
        /\ InPlace(made, v, d \o v[m + 1].data) /\ d \o v[m + 1].data \in Seq(Seq(Nat))
    <3>1. m < Len(v) /\ Gap(v, m + 1) \in Nat /\ d \in Seq(Seq(Nat))
      BY <1>1, <2>3, <2>4
    <3> HIDE DEF d
    <3> QED BY <1>2, <2>1, <2>3, <2>5, <3>1, WaitingWritten
  <2>7. made = add
    BY <2>3, <2>4
  <2> HIDE DEF made, add, n
  <2>8. /\ Described(add, Video(t), v, n) /\ OneEach(add, v, n)
        /\ InPlace(add, v, d \o b) /\ d \o b \in Seq(Seq(Nat))
    BY <2>3, <2>6, <2>7
  <2>9. b \in Seq(Seq(Nat))
    BY <2>1 DEF Pkt
  <2> HIDE DEF b, new
  <2>10. /\ DOMAIN new.sample = DOMAIN streams /\ new.sample[t] = add
         /\ \A u \in DOMAIN streams : u # t => new.sample[u] = w.sample[u]
    BY <1>1, <2>2
  <2>11. new.wpos = 8 + Len(new.data)
    <3>1. Len(d \o b) = Len(d) + Len(b) /\ Len(d) \in Nat /\ Len(b) \in Nat
      BY <1>1, <2>9
    <3> QED BY <1>1, <2>2, <3>1
  <2>12. ASSUME NEW u \in DOMAIN streams, u # t
         PROVE  /\ Described(new.sample[u], Video(u), written[u], IF u <= t THEN Len(written[u]) ELSE Sampled(u))
                /\ OneEach(new.sample[u], written[u], IF u <= t THEN Len(written[u]) ELSE Sampled(u))
                /\ InPlace(new.sample[u], written[u], new.data)
    <3> DEFINE k == IF u <= t THEN Len(written[u]) ELSE Sampled(u)
               tab == w.sample[u]
               x == written[u]
    <3>1. new.sample[u] = tab /\ k = IF u <= t - 1 THEN Len(written[u]) ELSE Sampled(u)
      BY <1>2, <2>10, <2>12
    <3>2. Described(tab, Video(u), x, k) /\ OneEach(tab, x, k) /\ InPlace(tab, x, d)
      BY <1>1, <3>1
    <3>3. x \in Seq(Pkt) /\ k \in Nat /\ k <= Len(x)
      <4>1. x \in Seq(Pkt) /\ Len(x) \in Nat /\ (Sampled(u) = Len(x) \/ (Sampled(u) = Len(x) - 1 /\ Len(x) > 0))
        BY WaitingFacts
      <4> QED BY <4>1
    <3> HIDE DEF k, x, tab
    <3>4. tab.offsets \in Seq(Nat) /\ Len(tab.offsets) = k
      BY <3>2 DEF OneEach
    <3>5. d \in Seq(Seq(Nat))
      BY <1>1
    <3> HIDE DEF d
    <3>6. InPlace(tab, x, d \o b)
      BY <2>9, <3>2, <3>3, <3>4, <3>5, InPlaceMore
    <3> QED BY <2>2, <3>1, <3>2, <3>6 DEF k, x, tab
  <2>13. \A u \in DOMAIN streams :
           /\ Described(new.sample[u], Video(u), written[u], IF u <= t THEN Len(written[u]) ELSE Sampled(u))
           /\ OneEach(new.sample[u], written[u], IF u <= t THEN Len(written[u]) ELSE Sampled(u))
           /\ InPlace(new.sample[u], written[u], new.data)
    <3>1. t <= t
      BY <1>2
    <3>2. /\ Described(new.sample[t], Video(t), written[t], Len(written[t]))
          /\ OneEach(new.sample[t], written[t], Len(written[t]))
          /\ InPlace(new.sample[t], written[t], new.data)
      BY <2>2, <2>8, <2>10 DEF v, n
    <3> QED BY <2>12, <3>1, <3>2
  <2>14. new.data \in Seq(Seq(Nat))
    BY <2>2, <2>8
  <2>15. PutUpTo(new, t)
    BY <2>10, <2>11, <2>13, <2>14 DEF PutUpTo
  <2> QED BY <2>15 DEF new
<1> QED BY <1>4, <1>5

\* After the trailer the tables tell all packets.
LEMMA PutEnds ==
  ASSUME WrittenInv, stage = "open", Trailer
  PROVE  \E w : /\ PutUpTo(w, Len(streams))
                /\ sample' = w.sample /\ wpos' = w.wpos /\ data' = w.data
<1> DEFINE L == Len(streams)
           h == CHOOSE h : PutTo(h, L)
           P == {k \in Nat : k <= L => PutUpTo(h[k], k)}
<1>1. L \in Nat /\ DOMAIN streams = 1..L
  BY TracksAre DEF WrittenInv
<1>2. PutTo(h, L)
  BY <1>1, PutSolved
<1>3. sample' = h[L].sample /\ wpos' = h[L].wpos /\ data' = h[L].data
  BY DEF Trailer, PutTo, Put
<1> HIDE DEF h, L
<1>4. \A t \in 0..L : h[t] = IF t = 0 THEN [sample |-> sample, wpos |-> wpos, data |-> data] ELSE Put(h[t - 1], t)
  BY <1>2 DEF PutTo
<1>5. 0 \in P
  <2>1. 0 \in 0..L
    BY <1>1
  <2>2. h[0] = [sample |-> sample, wpos |-> wpos, data |-> data]
    BY <1>4, <2>1
  <2> QED BY <2>2, PutStarts
<1>6. ASSUME NEW k \in Nat, k \in P PROVE k + 1 \in P
  <2> SUFFICES ASSUME k + 1 <= L PROVE PutUpTo(h[k + 1], k + 1)
    OBVIOUS
  <2> DEFINE t == k + 1
  <2>1. t \in DOMAIN streams /\ t \in 0..L /\ t # 0 /\ t - 1 = k /\ k <= L
    BY <1>1
  <2>2. h[t] = Put(h[t - 1], t)
    BY <1>4, <2>1
  <2>3. PutUpTo(h[t - 1], t - 1)
    BY <1>6, <2>1
  <2> HIDE DEF t
  <2>4. PutUpTo(Put(h[t - 1], t), t)
    BY <2>1, <2>3, PutGoesOn
  <2> QED BY <2>2, <2>4 DEF t
<1> HIDE DEF P
<1>7. \A k \in Nat : k \in P
  BY <1>5, <1>6, Induction
<1>8. PutUpTo(h[L], L)
  <2>1. L \in P /\ L <= L
    BY <1>1, <1>7
  <2> QED BY <2>1 DEF P
<1> QED BY <1>3, <1>8 DEF L

\* NewMuxer and newStream: nothing is written, and the empty tables tell it.
LEMMA InitTells == Init => WrittenInv /\ MovieInv /\ CursorInv
<1> SUFFICES ASSUME Init PROVE WrittenInv /\ MovieInv /\ CursorInv
  OBVIOUS
<1>1. /\ streams \in Tracks /\ stage = "open" /\ lastpkt = [t \in DOMAIN streams |-> <<>>]
      /\ sample = [t \in DOMAIN streams |-> NewTable(streams[t])]
      /\ wpos = 8 /\ data = <<>> /\ mdatsize = 0 /\ moov = <<>>
      /\ written = [t \in DOMAIN streams |-> <<>>]
      /\ opened = "no" /\ cursors = <<>> /\ last = <<>>
  BY DEF Init
<1>2. MovieInv /\ CursorInv
  BY <1>1 DEF MovieInv, CursorInv
<1>3. \A t \in DOMAIN streams :
        /\ lastpkt[t] = <<>> /\ written[t] = <<>> /\ Waiting(t) = <<>> /\ Sampled(t) = 0
        /\ Described(sample[t], Video(t), written[t], 0)
        /\ OneEach(sample[t], written[t], 0) /\ InPlace(sample[t], written[t], data)
  <2> TAKE t \in DOMAIN streams
  <2>1. lastpkt[t] = <<>> /\ written[t] = <<>> /\ sample[t] = NewTable(streams[t])
    BY <1>1
  <2>2. Waiting(t) = <<>> /\ Sampled(t) = 0
    <3>1. Len(<<>>) = 0
      OBVIOUS
    <3> QED BY <2>1, <3>1 DEF Waiting, Sampled
  <2>3. /\ Described(sample[t], Video(t), written[t], 0)
        /\ OneEach(sample[t], written[t], 0) /\ InPlace(sample[t], written[t], data)
    BY <2>1, NewTells DEF Video
  <2> QED BY <2>1, <2>2, <2>3
<1>4. /\ streams \in Tracks /\ stage \in {"open", "flushed", "sized", "done", "dead"}
      /\ DOMAIN written = DOMAIN streams /\ DOMAIN lastpkt = DOMAIN streams /\ DOMAIN sample = DOMAIN streams
  BY <1>1
<1>5. \A t \in DOMAIN streams :
       /\ written[t] \in Seq(Pkt)
       /\ \A i \in DOMAIN written[t] : Gap(written[t], i) >= 0 /\ written[t][i].data # <<>>
  <2>1. <<>> \in Seq(Pkt) /\ DOMAIN <<>> = {}
    OBVIOUS
  <2> QED BY <1>3, <2>1
<1>6. data \in Seq(Seq(Nat)) /\ wpos \in Nat /\ wpos = 8 + Len(data)
  <2>1. <<>> \in Seq(Seq(Nat)) /\ Len(<<>>) = 0
    OBVIOUS
  <2> QED BY <1>1, <2>1
<1>7. WrittenInv
  BY <1>3, <1>4, <1>5, <1>6 DEF WrittenInv
<1> QED BY <1>2, <1>7

\* WriteTrailer.
LEMMA TrailerTells ==
  ASSUME WrittenInv, Trailer
  PROVE  WrittenInv'
<1>1. /\ stage = "open" /\ stage' \in {"flushed", "dead"} /\ lastpkt' = [t \in DOMAIN streams |-> <<>>]
      /\ UNCHANGED << streams, written >>
  BY DEF Trailer
<1>2. PICK w : PutUpTo(w, Len(streams)) /\ sample' = w.sample /\ wpos' = w.wpos /\ data' = w.data
  BY <1>1, PutEnds
<1>3. /\ DOMAIN sample' = DOMAIN streams /\ data' \in Seq(Seq(Nat)) /\ wpos' = 8 + Len(data')
      /\ \A t \in DOMAIN streams :
           /\ Described(sample'[t], Video(t), written[t], IF t <= Len(streams) THEN Len(written[t]) ELSE Sampled(t))
           /\ OneEach(sample'[t], written[t], IF t <= Len(streams) THEN Len(written[t]) ELSE Sampled(t))
           /\ InPlace(sample'[t], written[t], data')
  BY <1>2 DEF PutUpTo
<1>4. \A t \in DOMAIN streams : t <= Len(streams)
  BY TracksAre DEF WrittenInv
<1>5. wpos' \in Nat
  BY <1>3, SeqFacts
<1>6. \A t \in DOMAIN streams : Waiting(t)' = <<>> /\ Sampled(t)' = Len(written[t])
  <2> TAKE t \in DOMAIN streams
  <2>1. stage' # "open" /\ written'[t] = written[t]
    BY <1>1
  <2>2. Len(written[t]) \in Nat
    BY WaitingFacts
  <2> QED BY <2>1, <2>2 DEF Waiting, Sampled
<1>7. \A t \in DOMAIN streams : Video(t)' = Video(t)
  BY <1>1 DEF Video
<1>8. /\ streams \in Tracks /\ DOMAIN written = DOMAIN streams
      /\ \A t \in DOMAIN streams :
           /\ written[t] \in Seq(Pkt)
           /\ \A i \in DOMAIN written[t] : Gap(written[t], i) >= 0 /\ written[t][i].data # <<>>
  BY DEF WrittenInv
<1>9. \A t \in DOMAIN streams :
        /\ lastpkt'[t] = Waiting(t)'
        /\ Described(sample'[t], Video(t)', written'[t], Sampled(t)')
        /\ OneEach(sample'[t], written'[t], Sampled(t)')
        /\ InPlace(sample'[t], written'[t], data')
  BY <1>1, <1>3, <1>4, <1>6, <1>7
<1>10. stage' # "open" /\ stage' \in {"open", "flushed", "sized", "done", "dead"} /\ DOMAIN lastpkt' = DOMAIN streams
  BY <1>1
<1>11. streams' = streams /\ written' = written
  BY <1>1
<1> QED BY <1>3, <1>5, <1>8, <1>9, <1>10, <1>11 DEF WrittenInv

\* The stages after the trailer change no table.
LEMMA StagesTell ==
  ASSUME WrittenInv, UNCHANGED << streams, lastpkt, sample, wpos, data, written >>,
         \/ stage' = stage
         \/ stage = "flushed" /\ stage' = "sized"
         \/ stage = "sized" /\ stage' = "done"
         \/ stage' = "dead"
  PROVE  WrittenInv'
<1>1. /\ streams' = streams /\ lastpkt' = lastpkt /\ sample' = sample /\ wpos' = wpos
      /\ data' = data /\ written' = written
  OBVIOUS
<1>2. stage' # "dead" => (stage' = "open" <=> stage = "open") /\ stage # "dead"
  OBVIOUS
<1>3. stage' # "dead" => \A t \in DOMAIN streams : Waiting(t)' = Waiting(t) /\ Sampled(t)' = Sampled(t)
  BY <1>1, <1>2 DEF Waiting, Sampled
<1>4. \A t \in DOMAIN streams : Video(t)' = Video(t)
  BY <1>1 DEF Video
<1>5. stage' \in {"open", "flushed", "sized", "done", "dead"}
  BY DEF WrittenInv
<1>6. stage' # "dead" => \A t \in DOMAIN streams :
        /\ lastpkt'[t] = Waiting(t)'
        /\ Described(sample'[t], Video(t)', written'[t], Sampled(t)')
        /\ OneEach(sample'[t], written'[t], Sampled(t)')
  <2> HAVE stage' # "dead"
  <2>1. \A t \in DOMAIN streams :
          /\ lastpkt[t] = Waiting(t) /\ Described(sample[t], Video(t), written[t], Sampled(t))
          /\ OneEach(sample[t], written[t], Sampled(t))
    BY <1>2 DEF WrittenInv
  <2> QED BY <1>1, <1>3, <1>4, <2>1
<1>7. /\ stage' = "open" => wpos' = 8 + Len(data')
      /\ stage' \in {"open", "flushed", "sized"} => \A t \in DOMAIN streams : InPlace(sample'[t], written'[t], data')
  BY <1>1, <1>2 DEF WrittenInv
<1>8. /\ streams \in Tracks /\ DOMAIN written = DOMAIN streams /\ DOMAIN lastpkt = DOMAIN streams
      /\ DOMAIN sample = DOMAIN streams /\ data \in Seq(Seq(Nat)) /\ wpos \in Nat
      /\ \A t \in DOMAIN streams :
           /\ written[t] \in Seq(Pkt)
           /\ \A i \in DOMAIN written[t] : Gap(written[t], i) >= 0 /\ written[t][i].data # <<>>
  BY DEF WrittenInv
<1> QED BY <1>1, <1>5, <1>6, <1>7, <1>8 DEF WrittenInv

\* A packet that is accepted waits; the one before it is written.
LEMMA PacketTells ==
  ASSUME WrittenInv, NEW t \in DOMAIN streams, NEW shape \in Shapes, WritePacket(t, shape)
  PROVE  WrittenInv'
<1> DEFINE w == written[t]
           n == Len(w)
           waits == lastpkt[t]
           pkt == [time |-> shape.gap + (IF n = 0 THEN 0 ELSE waits.time), cts |-> shape.cts,
                   key |-> shape.key, data |-> [i \in 1 .. shape.size |-> << t, n + 1 >>]]
<1>1. CASE n > 0 /\ shape.gap < 0
  <2>1. UNCHANGED << streams, stage, lastpkt, sample, wpos, data, written >>
    BY <1>1 DEF WritePacket
  <2> QED BY <2>1, StagesTell
<1>2. CASE ~(n > 0 /\ shape.gap < 0)
  <2>1. /\ stage = "open" /\ UNCHANGED << streams, stage >>
        /\ lastpkt' = [lastpkt EXCEPT ![t] = pkt] /\ written' = [written EXCEPT ![t] = Append(w, pkt)]
        /\ n = 0 => UNCHANGED << sample, wpos, data >>
        /\ n # 0 => /\ sample' = [sample EXCEPT ![t] = AddSample(sample[t], Video(t), waits, pkt.time - waits.time, wpos)]
                    /\ wpos' = wpos + Len(waits.data) /\ data' = data \o waits.data
    BY <1>2 DEF WritePacket
  <2>2. /\ streams \in Tracks /\ DOMAIN written = DOMAIN streams /\ DOMAIN lastpkt = DOMAIN streams
        /\ DOMAIN sample = DOMAIN streams /\ data \in Seq(Seq(Nat)) /\ wpos = 8 + Len(data) /\ wpos \in Nat
        /\ \A u \in DOMAIN streams :
             /\ written[u] \in Seq(Pkt)
             /\ \A i \in DOMAIN written[u] : Gap(written[u], i) >= 0 /\ written[u][i].data # <<>>
        /\ \A u \in DOMAIN streams :
             /\ lastpkt[u] = Waiting(u) /\ Described(sample[u], Video(u), written[u], Sampled(u))
             /\ OneEach(sample[u], written[u], Sampled(u)) /\ InPlace(sample[u], written[u], data)
    BY <2>1 DEF WrittenInv
  <2>3. /\ w \in Seq(Pkt) /\ n \in Nat /\ DOMAIN w = 1..n
        /\ n # 0 => waits = w[n] /\ w[n] \in Pkt /\ Sampled(t) = n - 1 /\ n > 0
        /\ n = 0 => w = <<>> /\ Sampled(t) = 0
    <3>1. w = <<>> <=> n = 0
      BY <2>2, SeqFacts
    <3> QED BY <2>1, <2>2, <3>1, WaitingFacts
  <2>4. t \in Nat /\ \A u \in DOMAIN streams : Video(u) \in BOOLEAN
    BY <2>2, TracksAre
  <2>5. shape.gap \in Int /\ shape.cts \in Nat /\ shape.size \in Nat \ {0} /\ shape.key \in BOOLEAN
    BY ShapesAssumption
  <2>6. pkt \in Pkt /\ pkt.data # <<>> /\ pkt.time = shape.gap + (IF n = 0 THEN 0 ELSE waits.time)
    <3> DEFINE bytes == [i \in 1 .. shape.size |-> << t, n + 1 >>]
    <3>1. << t, n + 1 >> \in Seq(Nat)
      BY <2>3, <2>4
    <3>2. bytes \in Seq(Seq(Nat)) /\ Len(bytes) = shape.size
      <4> DEFINE e == << t, n + 1 >>
                 X == Seq(Nat)
                 k == shape.size
      <4>2. k \in Nat
        BY <2>5
      <4> HIDE DEF e, X, k
      <4>1. [i \in 1 .. k |-> e] \in Seq(X) /\ Len([i \in 1 .. k |-> e]) = k
        <5>1. e \in X
          BY <3>1 DEF e, X
        <5> QED BY <4>2, <5>1
      <4> QED BY <4>1 DEF e, X, k
    <3>3. bytes # <<>>
      BY <2>5, <3>2, SeqFacts
    <3>4. n # 0 => waits.time \in Int
      BY <2>3 DEF Pkt
    <3> HIDE DEF bytes, w, n, waits
    <3>5. shape.gap + (IF n = 0 THEN 0 ELSE waits.time) \in Int
      BY <2>5, <3>4
    <3>6. pkt.data = bytes /\ pkt.time = shape.gap + (IF n = 0 THEN 0 ELSE waits.time)
      BY DEF bytes
    <3>7. pkt \in Pkt
      BY <2>5, <3>2, <3>5 DEF Pkt, bytes
    <3> QED BY <3>3, <3>6, <3>7
  <2> DEFINE v == Append(w, pkt)
  <2> HIDE DEF pkt, w, n, waits
  <2>7. /\ v \in Seq(Pkt) /\ Len(v) = n + 1 /\ v[n + 1] = pkt /\ v # <<>> /\ Last(v) = pkt
        /\ DOMAIN v = 1..n + 1 /\ \A i \in 1..n : v[i] = w[i]
    <3>1. v \in Seq(Pkt) /\ Len(v) = n + 1 /\ v[n + 1] = pkt /\ \A i \in 1..n : v[i] = w[i]
      BY <2>3, <2>6 DEF n
    <3>2. v # <<>> /\ DOMAIN v = 1..n + 1
      <4> HIDE DEF v
      <4>1. n + 1 # 0
        BY <2>3
      <4> QED BY <3>1, <4>1, SeqFacts
    <3> QED BY <3>1, <3>2 DEF Last
  <2>8. \A i \in 1..n + 1 : Gap(v, i) >= 0 /\ v[i].data # <<>>
    <3>1. \A i \in 1..n : v[i].data # <<>>
      BY <2>2, <2>3, <2>7 DEF w
    <3>2. v[n + 1].data # <<>>
      BY <2>6, <2>7
    <3>3. Gap(v, n + 1) = 0
      BY <2>7 DEF Gap
    <3>4. \A i \in 1..n : Gap(v, i) >= 0
      <4> TAKE i \in 1..n
      <4>1. n > 0 /\ n # 0 /\ shape.gap \in Nat
        BY <1>2, <2>3, <2>5 DEF n, w
      <4>2. pkt.time = shape.gap + w[Len(w)].time
        BY <2>3, <2>6, <4>1 DEF n
      <4>3. (\A j \in 1..n - 1 : Gap(v, j) = Gap(w, j)) /\ Gap(v, n) = shape.gap
        <5>1. /\ \A j \in 1..Len(w) - 1 : Gap(Append(w, pkt), j) = Gap(w, j)
              /\ Gap(Append(w, pkt), Len(w)) = shape.gap
          BY <2>3, <2>6, <4>1, <4>2, NextWaits DEF n
        <5> QED BY <5>1 DEF n
      <4>4. \A j \in 1..n : Gap(w, j) >= 0
        BY <2>2, <2>3 DEF w
      <4>5. i = n \/ i \in 1..n - 1
        BY <2>3
      <4> QED BY <4>1, <4>3, <4>4, <4>5
    <3>5. \A i \in 1..n + 1 : i = n + 1 \/ i \in 1..n
      BY <2>3
    <3> HIDE DEF v
    <3> QED BY <3>1, <3>2, <3>3, <3>4, <3>5
  <2> HIDE DEF v
  <2>9. /\ written'[t] = v /\ lastpkt'[t] = pkt
        /\ \A u \in DOMAIN streams : u # t => written'[u] = written[u] /\ lastpkt'[u] = lastpkt[u]
        /\ DOMAIN written' = DOMAIN streams /\ DOMAIN lastpkt' = DOMAIN streams
    BY <2>1, <2>2 DEF v
  <2>10. /\ Waiting(t)' = pkt /\ Sampled(t)' = n
         /\ \A u \in DOMAIN streams : u # t => Waiting(u)' = Waiting(u) /\ Sampled(u)' = Sampled(u)
    <3>1. Waiting(t)' = pkt /\ Sampled(t)' = n
      <4>1. stage' = "open" /\ written'[t] # <<>>
        BY <2>1, <2>7, <2>9
      <4>2. Len(v) - 1 = n
        BY <2>3, <2>7
      <4> QED BY <2>7, <2>9, <4>1, <4>2 DEF Waiting, Sampled
    <3>2. stage' = stage
      BY <2>1
    <3> QED BY <2>9, <3>1, <3>2 DEF Waiting, Sampled
  <2> DEFINE old == IF n = 0 THEN <<>> ELSE waits.data
  <2>11. /\ data' = data \o old /\ wpos' = wpos + Len(old) /\ old \in Seq(Seq(Nat))
         /\ DOMAIN sample' = DOMAIN streams /\ \A u \in DOMAIN streams : u # t => sample'[u] = sample[u]
    <3>1. CASE n = 0
      <4>1. old = <<>> /\ <<>> \in Seq(Seq(Nat)) /\ Len(<<>>) = 0
        BY <3>1
      <4>2. data \o <<>> = data /\ wpos + 0 = wpos
        BY <2>2
      <4> QED BY <2>1, <2>2, <3>1, <4>1, <4>2
    <3>2. CASE n # 0
      <4>1. old = waits.data /\ old \in Seq(Seq(Nat))
        BY <2>3, <3>2 DEF Pkt
      <4> QED BY <2>1, <2>2, <3>2, <4>1
    <3> QED BY <3>1, <3>2
  <2>12. /\ Described(sample'[t], Video(t), v, n) /\ OneEach(sample'[t], v, n)
         /\ InPlace(sample'[t], v, data \o old)
    <3>1. /\ Described(sample[t], Video(t), w, Sampled(t)) /\ OneEach(sample[t], w, Sampled(t))
          /\ InPlace(sample[t], w, data)
      BY <2>2 DEF w
    <3>2. CASE n = 0
      <4>1. sample'[t] = sample[t] /\ data \o old = data
        BY <2>1, <2>11, <3>2
      <4>2. /\ Described(sample[t], Video(t), v, 0) /\ OneEach(sample[t], v, 0) /\ InPlace(sample[t], v, data)
        <5>1. Described(sample[t], Video(t), w, 0) /\ OneEach(sample[t], w, 0) /\ InPlace(sample[t], w, data)
          BY <2>3, <3>1, <3>2
        <5> QED BY <2>3, <2>4, <2>7, <5>1, FirstWaits
      <4> QED BY <3>2, <4>1, <4>2
    <3>3. CASE n # 0
      <4> DEFINE tab == sample[t]
                 add == AddSample(tab, Video(t), w[Len(w)], shape.gap, 8 + Len(data))
      <4>1. shape.gap \in Nat /\ Len(w) > 0 /\ pkt.time = shape.gap + w[Len(w)].time /\ waits.time \in Int
        <5>1. waits.time \in Int
          BY <2>3, <3>3 DEF Pkt
        <5> QED BY <1>2, <2>3, <2>5, <2>6, <3>3, <5>1 DEF n, w
      <4>2. sample'[t] = add
        <5>1. pkt.time - waits.time = shape.gap /\ waits = w[Len(w)]
          BY <2>3, <3>3, <4>1 DEF n
        <5>2. sample'[t] = AddSample(sample[t], Video(t), waits, pkt.time - waits.time, wpos)
          BY <2>1, <2>2, <3>3
        <5> QED BY <2>2, <5>1, <5>2
      <4>3. Described(tab, Video(t), w, Len(w) - 1) /\ OneEach(tab, w, Len(w) - 1) /\ InPlace(tab, w, data)
        BY <2>3, <3>1, <3>3 DEF n
      <4>4. data \in Seq(Seq(Nat)) /\ w \in Seq(Pkt) /\ pkt \in Pkt /\ Video(t) \in BOOLEAN
        BY <2>2, <2>3, <2>4, <2>6
      <4> HIDE DEF tab
      <4>5. /\ Described(AddSample(tab, Video(t), w[Len(w)], shape.gap, 8 + Len(data)), Video(t), Append(w, pkt), Len(w))
            /\ OneEach(AddSample(tab, Video(t), w[Len(w)], shape.gap, 8 + Len(data)), Append(w, pkt), Len(w))
            /\ InPlace(AddSample(tab, Video(t), w[Len(w)], shape.gap, 8 + Len(data)), Append(w, pkt), data \o w[Len(w)].data)
        BY <4>1, <4>3, <4>4, PacketWritten
      <4>6. old = w[Len(w)].data
        BY <2>3, <3>3 DEF n
      <4> QED BY <4>2, <4>5, <4>6 DEF v, n
    <3> QED BY <3>2, <3>3
  <2> HIDE DEF old
  <2>13. ASSUME NEW u \in DOMAIN streams, u # t
         PROVE  /\ Described(sample'[u], Video(u), written'[u], Sampled(u)) /\ OneEach(sample'[u], written'[u], Sampled(u))
                /\ InPlace(sample'[u], written'[u], data \o old)
    <3> DEFINE tab == sample[u]
               x == written[u]
               k == Sampled(u)
    <3>1. Described(tab, Video(u), x, k) /\ OneEach(tab, x, k) /\ InPlace(tab, x, data)
      BY <2>2
    <3>2. x \in Seq(Pkt) /\ k \in Nat /\ k <= Len(x)
      <4>1. x \in Seq(Pkt) /\ Len(x) \in Nat /\ (k = Len(x) \/ (k = Len(x) - 1 /\ Len(x) > 0))
        BY WaitingFacts
      <4> QED BY <4>1
    <3> HIDE DEF k, x, tab
    <3>3. tab.offsets \in Seq(Nat) /\ Len(tab.offsets) = k
      BY <3>1 DEF OneEach
    <3>4. data \in Seq(Seq(Nat)) /\ old \in Seq(Seq(Nat))
      BY <2>2, <2>11
    <3>5. InPlace(tab, x, data \o old)
      BY <3>1, <3>2, <3>3, <3>4, InPlaceMore
    <3> QED BY <2>9, <2>11, <2>13, <3>1, <3>5 DEF k, x, tab
  <2>14. \A u \in DOMAIN streams : Video(u)' = Video(u)
    BY <2>1 DEF Video
  <2>15. \A u \in DOMAIN streams :
           /\ lastpkt'[u] = Waiting(u)' /\ Described(sample'[u], Video(u)', written'[u], Sampled(u)')
           /\ OneEach(sample'[u], written'[u], Sampled(u)') /\ InPlace(sample'[u], written'[u], data')
    <3> TAKE u \in DOMAIN streams
    <3>1. CASE u = t
      BY <2>9, <2>10, <2>11, <2>12, <2>14, <3>1
    <3>2. CASE u # t
      BY <2>2, <2>9, <2>10, <2>11, <2>13, <2>14, <3>2
    <3> QED BY <3>1, <3>2
  <2>16. \A u \in DOMAIN streams :
           /\ written'[u] \in Seq(Pkt)
           /\ \A i \in DOMAIN written'[u] : Gap(written'[u], i) >= 0 /\ written'[u][i].data # <<>>
    BY <2>2, <2>7, <2>8, <2>9
  <2>17. data' \in Seq(Seq(Nat)) /\ wpos' = 8 + Len(data') /\ wpos' \in Nat
    <3>1. /\ data \o old \in Seq(Seq(Nat)) /\ Len(data \o old) = Len(data) + Len(old)
          /\ Len(data) \in Nat /\ Len(old) \in Nat
      BY <2>2, <2>11
    <3> QED BY <2>2, <2>11, <3>1
  <2>18. streams' = streams /\ stage' = "open" /\ streams \in Tracks
    BY <2>1, <2>2
  <2> QED BY <2>9, <2>11, <2>15, <2>16, <2>17, <2>18 DEF WrittenInv
<1> QED BY <1>1, <1>2

\* Another program lays out the data and the tables of the finished file.
LEMMA RemuxTells ==
  ASSUME WrittenInv, NEW layout \in [DOMAIN streams -> Chunkings], NEW fix \in BOOLEAN, Remux(layout, fix)
  PROVE  /\ WrittenInv'
         /\ DOMAIN moov' = DOMAIN streams
         /\ \A t \in DOMAIN streams :
              /\ Described(moov'[t], Video(t), written[t], Len(written[t]))
              /\ Laid(moov'[t], written[t], data')
<1> DEFINE N == Len(streams)
           ss == [t \in DOMAIN streams |-> Column(written[t], "data")]
           lens == [u \in DOMAIN streams |-> Total(sample[u].sizes)]
           at(t) == 8 + SumTo(lens, t - 1)
           X == Seq(Nat)
<1>1. /\ stage = "done" /\ UNCHANGED << streams, stage, lastpkt, sample, wpos, mdatsize, written, readVars >>
      /\ \A t \in DOMAIN streams : Total(layout[t]) = Len(sample[t].sizes)
      /\ moov' = [t \in DOMAIN streams |-> Regrouped(sample[t], layout[t], at(t), fix)]
      /\ data' = FlattenSeq([t \in DOMAIN streams |-> FlattenSeq(Column(written[t], "data"))])
  BY DEF Remux
<1>2. /\ streams \in Tracks /\ DOMAIN written = DOMAIN streams /\ DOMAIN lastpkt = DOMAIN streams
      /\ DOMAIN sample = DOMAIN streams /\ wpos \in Nat
      /\ \A u \in DOMAIN streams :
           /\ written[u] \in Seq(Pkt)
           /\ \A i \in DOMAIN written[u] : Gap(written[u], i) >= 0 /\ written[u][i].data # <<>>
      /\ \A u \in DOMAIN streams :
           /\ lastpkt[u] = Waiting(u) /\ Described(sample[u], Video(u), written[u], Sampled(u))
           /\ OneEach(sample[u], written[u], Sampled(u))
  BY <1>1 DEF WrittenInv
<1>3. N \in Nat /\ DOMAIN streams = 1..N /\ \A t \in DOMAIN streams : t \in Nat /\ Video(t) \in BOOLEAN
  BY <1>2, TracksAre
<1>4. \A t \in DOMAIN streams : Sampled(t) = Len(written[t])
  BY <1>1, WaitingFacts
<1>5. \A t \in DOMAIN streams :
        /\ ss[t] \in Seq(Seq(X)) /\ DOMAIN ss[t] = DOMAIN written[t]
        /\ \A i \in DOMAIN written[t] : ss[t][i] = written[t][i].data
        /\ lens[t] = Len(FlattenSeq(ss[t]))
  <2> TAKE t \in DOMAIN streams
  <2> DEFINE w == written[t]
             s == Column(w, "data")
             sizes == Sizes(w, Len(w))
  <2>1. w \in Seq(Pkt) /\ Len(w) \in Nat /\ DOMAIN w = 1..Len(w) /\ \A i \in 1..Len(w) : w[i] \in Pkt
    BY WaitingFacts
  <2>2. s = [i \in 1..Len(w) |-> w[i].data]
    <3>1. \A i \in 1..Len(w) : w[i]["data"] = w[i].data
      OBVIOUS
    <3> HIDE DEF w
    <3> QED BY <2>1, <3>1 DEF Column
  <2>3. sample[t].sizes = sizes
    BY <1>2, <1>4 DEF OneEach
  <2>4. ss[t] = s /\ lens[t] = Total(sizes)
    BY <2>3
  <2>5. sizes \in Seq(Nat) /\ Len(sizes) = Len(w) /\ \A i \in 1..Len(w) : sizes[i] = Len(w[i].data)
    BY <2>1, SizesFacts
  <2> HIDE DEF w, s, sizes, ss, lens
  <2>6. \A i \in 1..Len(w) : s[i] = w[i].data /\ s[i] \in Seq(X)
    <3>1. \A p \in Pkt : p.data \in Seq(X)
      BY DEF Pkt
    <3> QED BY <2>1, <2>2, <3>1
  <2> DEFINE n == Len(w)
             Y == Seq(X)
  <2>7. s \in Seq(Seq(X)) /\ Len(s) = n /\ DOMAIN s = 1..n
    <3>1. n \in Nat /\ s = [i \in 1..n |-> s[i]] /\ \A i \in 1..n : s[i] \in Y
      BY <2>1, <2>2, <2>6
    <3> HIDE DEF n, Y, X
    <3>2. s \in Seq(Y) /\ Len(s) = n /\ DOMAIN s = 1..n
      BY <3>1, MakesSeq
    <3> QED BY <3>2 DEF Y
  <2>8. \A i \in 1..Len(s) : sizes[i] = Len(s[i])
    BY <2>5, <2>6, <2>7
  <2>9. FlatTells(FlattenSeq(s), s, X, sizes)
    <3> HIDE DEF X
    <3> QED BY <2>7, <2>8, FlatAt
  <2>10. Len(FlattenSeq(s)) = Total(sizes)
    BY <2>5, <2>7, <2>9 DEF FlatTells, Total
  <2>11. DOMAIN s = DOMAIN w /\ \A i \in DOMAIN w : s[i] = w[i].data
    BY <2>1, <2>6, <2>7
  <2> QED BY <2>4, <2>7, <2>10, <2>11 DEF w
<1>6. ss \in Seq(Seq(Seq(X))) /\ DOMAIN ss = DOMAIN streams
  <2> DEFINE Y == Seq(Seq(X))
  <2>1. ss = [t \in 1..N |-> ss[t]] /\ \A t \in 1..N : ss[t] \in Y
    BY <1>3, <1>5
  <2>2. DOMAIN ss = DOMAIN streams
    OBVIOUS
  <2> HIDE DEF ss, Y, N
  <2>3. ss \in Seq(Y)
    BY <1>3, <2>1, MakesSeq
  <2> QED BY <2>2, <2>3 DEF Y
<1>7. data' = FlattenSeq([t \in DOMAIN ss |-> FlattenSeq(ss[t])])
  BY <1>1
<1> HIDE DEF ss, lens, X, N
<1>8. /\ data' \in Seq(X)
      /\ \A t \in DOMAIN ss : SumTo(lens, t - 1) \in Nat
      /\ \A t \in DOMAIN ss : \A sizes : (\A i \in DOMAIN ss[t] : sizes[i] = Len(ss[t][i])) =>
           \A i \in DOMAIN ss[t] : Placed(data', 8 + SumTo(lens, t - 1) + SumTo(sizes, i - 1), ss[t][i])
  <2> DEFINE d == data'
  <2>1. d = FlattenSeq([t \in DOMAIN ss |-> FlattenSeq(ss[t])])
    BY <1>7
  <2>2. \A t \in DOMAIN ss : lens[t] = Len(FlattenSeq(ss[t]))
    BY <1>5, <1>6
  <2> HIDE DEF d
  <2>3. /\ d \in Seq(X)
        /\ \A t \in DOMAIN ss : SumTo(lens, t - 1) \in Nat
        /\ \A t \in DOMAIN ss : \A sizes : (\A i \in DOMAIN ss[t] : sizes[i] = Len(ss[t][i])) =>
             \A i \in DOMAIN ss[t] : Placed(d, 8 + SumTo(lens, t - 1) + SumTo(sizes, i - 1), ss[t][i])
    BY <1>6, <2>1, <2>2, FlatPlaced
  <2> QED BY <2>3 DEF d
<1>9. ASSUME NEW t \in DOMAIN streams
      PROVE  /\ Described(moov'[t], Video(t), written[t], Len(written[t]))
             /\ Laid(moov'[t], written[t], data')
  <2> DEFINE w == written[t]
             sizes == Sizes(w, Len(w))
             tab == sample[t]
             chunks == layout[t]
             b == at(t)
             d == data'
  <2>1. /\ w \in Seq(Pkt) /\ Len(w) \in Nat /\ DOMAIN w = 1..Len(w) /\ \A i \in DOMAIN w : w[i].data # <<>>
        /\ Described(tab, Video(t), w, Len(w)) /\ OneEach(tab, w, Len(w)) /\ Video(t) \in BOOLEAN
    BY <1>2, <1>3, <1>4, WaitingFacts
  <2>2. sizes \in Seq(Nat) /\ Len(sizes) = Len(w) /\ \A i \in 1..Len(w) : sizes[i] = Len(w[i].data)
    BY <2>1, SizesFacts
  <2>3. chunks \in Seq(Nat \ {0}) /\ Total(chunks) = Len(w)
    <3>1. chunks \in Chunkings
      OBVIOUS
    <3>2. tab.sizes = sizes
      BY <2>1 DEF OneEach
    <3> QED BY <1>1, <2>2, <3>1, <3>2, ChunkingsAssumption
  <2>4. b \in Nat
    BY <1>6, <1>8
  <2>5. \A i \in 1..Len(w) : Placed(d, b + SumTo(sizes, i - 1), w[i].data)
    <3>1. t \in DOMAIN ss /\ DOMAIN ss[t] = 1..Len(w) /\ \A i \in 1..Len(w) : ss[t][i] = w[i].data
      BY <1>5, <1>6, <2>1
    <3>2. \A i \in DOMAIN ss[t] : sizes[i] = Len(ss[t][i])
      BY <2>2, <3>1
    <3>3. \A i \in DOMAIN ss[t] : Placed(data', 8 + SumTo(lens, t - 1) + SumTo(sizes, i - 1), ss[t][i])
      BY <1>8, <3>1, <3>2
    <3> QED BY <3>1, <3>3
  <2>6. moov'[t] = Regrouped(tab, chunks, b, fix)
    BY <1>1 DEF lens
  <2> HIDE DEF w, tab, chunks, b, d
  <2>7. /\ Described(Regrouped(tab, chunks, b, fix), Video(t), w, Len(w))
        /\ Laid(Regrouped(tab, chunks, b, fix), w, d)
    BY <2>1, <2>3, <2>4, <2>5, RegroupedLaid
  <2> QED BY <2>6, <2>7 DEF w, d
<1>10. WrittenInv'
  <2>1. /\ streams' = streams /\ stage' = stage /\ lastpkt' = lastpkt /\ sample' = sample /\ wpos' = wpos
        /\ written' = written
    BY <1>1
  <2>2. \A u \in DOMAIN streams : Waiting(u)' = Waiting(u) /\ Sampled(u)' = Sampled(u) /\ Video(u)' = Video(u)
    BY <2>1 DEF Waiting, Sampled, Video
  <2>3. data' \in Seq(Seq(Nat))
    BY <1>8 DEF X
  <2> QED BY <1>1, <1>2, <2>1, <2>2, <2>3 DEF WrittenInv
<1>11. DOMAIN moov' = DOMAIN streams
  BY <1>1
<1> QED BY <1>9, <1>10, <1>11

\* Every step leaves the packets and the muxer's tables in agreement.
LEMMA WrittenGoesOn ==
  ASSUME WrittenInv, [Next]_vars
  PROVE  WrittenInv'
<1>1. ASSUME NEW t \in DOMAIN streams, NEW shape \in Shapes, WritePacket(t, shape) PROVE WrittenInv'
  BY <1>1, PacketTells
<1>2. CASE Trailer
  BY <1>2, TrailerTells
<1>3. CASE WriteSize \/ WriteMovie \/ Crash
  BY <1>3, StagesTell DEF WriteSize, WriteMovie, Crash
<1>4. ASSUME NEW layout \in [DOMAIN streams -> Chunkings], NEW fix \in BOOLEAN, Remux(layout, fix) PROVE WrittenInv'
  BY <1>4, RemuxTells
<1>5. CASE UNCHANGED muxVars
  BY <1>5, StagesTell DEF muxVars
<1>6. CASE Open \/ Reopen \/ ReadPacket
  BY <1>5, <1>6 DEF Open, Reopen, ReadPacket
<1>7. ASSUME NEW tm \in SeekTimes, SeekToTime(tm) PROVE WrittenInv'
  BY <1>5, <1>7 DEF SeekToTime
<1>8. CASE UNCHANGED vars
  BY <1>5, <1>8 DEF vars, muxVars
<1> QED BY <1>1, <1>2, <1>3, <1>4, <1>6, <1>7, <1>8 DEF Next

\* Every step leaves the packets and the tables in the file in agreement.
LEMMA MovieGoesOn ==
  ASSUME WrittenInv, MovieInv, [Next]_vars
  PROVE  MovieInv'
<1>1. CASE stage' = stage /\ UNCHANGED << streams, written, data, moov >>
  <2>1. \A t : Video(t)' = Video(t)
    BY <1>1 DEF Video
  <2> QED BY <1>1, <2>1 DEF MovieInv
<1>2. CASE stage # "done" /\ stage' # "done" /\ moov' = moov
  BY <1>2 DEF MovieInv
<1>3. ASSUME NEW t \in DOMAIN streams, NEW shape \in Shapes, WritePacket(t, shape) PROVE MovieInv'
  BY <1>2, <1>3 DEF WritePacket
<1>4. CASE Trailer \/ WriteSize \/ Crash
  BY <1>2, <1>4 DEF Trailer, WriteSize, Crash
<1>5. CASE WriteMovie
  <2>1. stage = "sized" /\ stage' = "done" /\ moov' = sample /\ UNCHANGED << streams, written, data >>
    BY <1>5 DEF WriteMovie
  <2>2. /\ DOMAIN sample = DOMAIN streams
        /\ \A t \in DOMAIN streams :
             /\ Described(sample[t], Video(t), written[t], Sampled(t))
             /\ OneEach(sample[t], written[t], Sampled(t)) /\ InPlace(sample[t], written[t], data)
    BY <2>1 DEF WrittenInv
  <2>3. \A t \in DOMAIN streams : Sampled(t) = Len(written[t]) /\ written[t] \in Seq(Pkt)
    BY <2>1, WaitingFacts
  <2>4. \A t \in DOMAIN streams : Laid(sample[t], written[t], data)
    BY <2>2, <2>3, OneLaid
  <2>5. \A t \in DOMAIN streams : Video(t)' = Video(t)
    BY <2>1 DEF Video
  <2> QED BY <2>1, <2>2, <2>3, <2>4, <2>5 DEF MovieInv
<1>6. ASSUME NEW layout \in [DOMAIN streams -> Chunkings], NEW fix \in BOOLEAN, Remux(layout, fix) PROVE MovieInv'
  <2>1. /\ DOMAIN moov' = DOMAIN streams
        /\ \A t \in DOMAIN streams :
             /\ Described(moov'[t], Video(t), written[t], Len(written[t]))
             /\ Laid(moov'[t], written[t], data')
    BY <1>6, RemuxTells
  <2>2. stage' = "done" /\ UNCHANGED << streams, written >>
    BY <1>6 DEF Remux
  <2>3. \A t \in DOMAIN streams : Video(t)' = Video(t)
    BY <2>2 DEF Video
  <2> QED BY <2>1, <2>2, <2>3 DEF MovieInv
<1>7. CASE Open \/ Reopen \/ ReadPacket
  BY <1>1, <1>7 DEF Open, Reopen, ReadPacket, muxVars
<1>8. ASSUME NEW tm \in SeekTimes, SeekToTime(tm) PROVE MovieInv'
  BY <1>1, <1>8 DEF SeekToTime, muxVars
<1>9. CASE UNCHANGED vars
  BY <1>1, <1>9 DEF vars, muxVars
<1> QED BY <1>3, <1>4, <1>5, <1>6, <1>7, <1>8, <1>9 DEF Next

-----------------------------------------------------------------------------
(* Times and ticks. *)
LEMMA DivFacts ==
  ASSUME NEW a \in Int, NEW b \in Nat \ {0}
  PROVE  a \div b \in Int /\ (a \div b) * b <= a /\ a < (a \div b) * b + b
  OBVIOUS

\* The quotient is the greatest number of times that fits.
LEMMA DivUnder ==
  ASSUME NEW a \in Int, NEW b \in Nat \ {0}, NEW q \in Int
  PROVE  /\ q * b <= a => q <= a \div b
         /\ a < q * b => a \div b < q
  OBVIOUS

\* Products with the same positive number are in the order of the factors.
LEMMA MulLess ==
  ASSUME NEW p \in Int, NEW q \in Int, NEW b \in Nat \ {0}
  PROVE  /\ p * b < q * b => p < q
         /\ p <= q => p * b <= q * b
  OBVIOUS

\* What a time is in ticks, and ticks in time: at most one less.
LEMMA TickBounds ==
  ASSUME NEW x \in Int
  PROVE  /\ timeToTs(x) \in Int /\ timeToTs(x) * Second <= x * TimeScale
         /\ x * TimeScale < timeToTs(x) * Second + Second
         /\ tsToTime(x) \in Int /\ tsToTime(x) * TimeScale <= x * Second
         /\ x * Second < tsToTime(x) * TimeScale + TimeScale
<1>1. TimeScale \in Nat \ {0} /\ Second \in Nat \ {0}
  BY ScaleAssumption
<1>2. x * TimeScale \in Int /\ x * Second \in Int
  BY <1>1
<1> QED BY <1>1, <1>2, DivFacts DEF timeToTs, tsToTime

\* Times that do not go back do not go back in ticks.
LEMMA TickOrder ==
  ASSUME NEW x \in Int, NEW y \in Int, x <= y
  PROVE  timeToTs(x) <= timeToTs(y) /\ tsToTime(x) <= tsToTime(y)
<1>1. TimeScale \in Nat \ {0} /\ Second \in Nat \ {0}
  BY ScaleAssumption
<1>2. x * TimeScale <= y * TimeScale /\ x * Second <= y * Second /\ y * TimeScale \in Int /\ y * Second \in Int
  BY <1>1, MulLess
<1>3. /\ timeToTs(x) \in Int /\ timeToTs(x) * Second <= x * TimeScale
      /\ tsToTime(x) \in Int /\ tsToTime(x) * TimeScale <= x * Second
  BY TickBounds
<1>4. timeToTs(x) * Second <= y * TimeScale
  <2>1. timeToTs(x) * Second \in Int /\ x * TimeScale \in Int
    BY <1>1, <1>3
  <2> QED BY <1>2, <1>3, <2>1
<1>5. tsToTime(x) * TimeScale <= y * Second
  <2>1. tsToTime(x) * TimeScale \in Int /\ x * Second \in Int
    BY <1>1, <1>3
  <2> QED BY <1>2, <1>3, <2>1
<1> DEFINE p == y * TimeScale
           q == y * Second
           f == timeToTs(x)
           g == tsToTime(x)
<1>6. f <= p \div Second
  <2>1. f * Second <= p /\ p \in Int /\ f \in Int
    BY <1>2, <1>3, <1>4
  <2> HIDE DEF f, p
  <2> QED BY <1>1, <2>1, DivUnder
<1>7. g <= q \div TimeScale
  <2>1. g * TimeScale <= q /\ q \in Int /\ g \in Int
    BY <1>2, <1>3, <1>5
  <2> HIDE DEF g, q
  <2> QED BY <1>1, <2>1, DivUnder
<1> QED BY <1>6, <1>7 DEF timeToTs, tsToTime

\* To ticks and back loses time, and back again at most one tick.
LEMMA TickTrips ==
  ASSUME NEW x \in Nat
  PROVE  /\ tsToTime(timeToTs(x)) <= x
         /\ timeToTs(tsToTime(x)) <= x /\ x <= timeToTs(tsToTime(x)) + 1
<1>1. TimeScale \in Nat \ {0} /\ Second \in Nat \ {0} /\ TimeScale <= Second
  BY ScaleAssumption
<1> DEFINE f == timeToTs(x)
           g == tsToTime(x)
<1>2. f \in Int /\ g \in Int /\ f * Second <= x * TimeScale
      /\ g * TimeScale <= x * Second /\ x * Second < g * TimeScale + TimeScale
  BY TickBounds
<1> HIDE DEF f, g
<1>3. tsToTime(f) \in Int /\ tsToTime(f) * TimeScale <= f * Second
  BY <1>2, TickBounds
<1>4. timeToTs(g) \in Int /\ timeToTs(g) * Second <= g * TimeScale /\ g * TimeScale < timeToTs(g) * Second + Second
  BY <1>2, TickBounds
<1>5. tsToTime(f) <= x
  <2> DEFINE a == tsToTime(f)
  <2> HIDE DEF a
  <2>1. a \in Int /\ a * TimeScale <= x * TimeScale
    <3>1. a \in Int /\ a * TimeScale \in Int /\ f * Second \in Int /\ x * TimeScale \in Int
      BY <1>1, <1>2, <1>3 DEF a
    <3> QED BY <1>2, <1>3, <3>1 DEF a
  <2>2. SUFFICES ASSUME x < a PROVE FALSE
    BY <2>1 DEF a
  <2>3. x + 1 <= a /\ (x + 1) * TimeScale = x * TimeScale + TimeScale
    BY <1>1, <2>1, <2>2
  <2>4. (x + 1) * TimeScale <= a * TimeScale
    BY <1>1, <2>1, <2>3, MulLess
  <2>5. x * TimeScale \in Int /\ a * TimeScale \in Int
    BY <1>1, <2>1
  <2> QED BY <1>1, <2>1, <2>3, <2>4, <2>5
<1>6. timeToTs(g) <= x
  <2> DEFINE b == timeToTs(g)
  <2> HIDE DEF b
  <2>1. b \in Int /\ b * Second <= x * Second
    <3>1. b \in Int /\ b * Second \in Int /\ g * TimeScale \in Int /\ x * Second \in Int
      BY <1>1, <1>2, <1>4 DEF b
    <3> QED BY <1>2, <1>4, <3>1 DEF b
  <2>2. SUFFICES ASSUME x < b PROVE FALSE
    BY <2>1 DEF b
  <2>3. x + 1 <= b /\ (x + 1) * Second = x * Second + Second
    BY <1>1, <2>1, <2>2
  <2>4. (x + 1) * Second <= b * Second
    BY <1>1, <2>1, <2>3, MulLess
  <2>5. x * Second \in Int /\ b * Second \in Int
    BY <1>1, <2>1
  <2> QED BY <1>1, <2>1, <2>3, <2>4, <2>5
<1>7. x <= timeToTs(g) + 1
  <2> DEFINE b == timeToTs(g)
  <2> HIDE DEF b
  <2>1. b \in Int /\ x * Second < b * Second + Second + TimeScale
    <3>1. b \in Int /\ b * Second \in Int /\ g * TimeScale \in Int /\ x * Second \in Int
      BY <1>1, <1>2, <1>4 DEF b
    <3> QED BY <1>1, <1>2, <1>4, <3>1 DEF b
  <2>2. (b + 2) * Second = b * Second + Second + Second /\ b * Second \in Int /\ x * Second \in Int
    BY <1>1, <2>1
  <2>3. x * Second < (b + 2) * Second
    BY <1>1, <2>1, <2>2
  <2>4. x < b + 2
    BY <1>1, <2>1, <2>3, MulLess
  <2> QED BY <2>1, <2>4 DEF b
<1> QED BY <1>5, <1>6, <1>7 DEF f, g

-----------------------------------------------------------------------------
(* Which packet a moment is in, if no run is too long for its 32 bits. *)
Short(tab) == Spans32(tab) = Spans(tab)
TimeAt(tab, w, target, g) ==
  /\ g \in 0..Len(w) - 1
  /\ Short(tab) => /\ SumTo(Durations(w), g) <= target
                   /\ g = Len(w) - 1 \/ target < SumTo(Durations(w), g + 1)

\* timeToSampleIndex finds the sample the moment is in, and goes back to a key frame.
LEMMA TimeFound ==
  ASSUME NEW tab, NEW video, NEW w, TableTells(tab, video, w), Len(w) > 0, NEW target \in Nat
  PROVE  \E g : TimeAt(tab, w, target, g) /\ timeToSampleIndex(tab, target) = KeyBefore(tab, g)
<1> DEFINE n == Len(w)
           D == Durations(w)
           T == Column(tab.stts, "count")
           R == Spans(tab)
           S == Spans32(tab)
           L == Len(tab.stts)
           here == {e \in DOMAIN tab.stts : SumTo(S, e - 1) <= target /\ target < SumTo(S, e)}
           e0 == CHOOSE e \in here : TRUE
           raw == IF here = {} THEN IF target < 0 THEN 0 ELSE SumTo(T, L) - 1
                  ELSE SumTo(T, e0 - 1) + (target - SumTo(S, e0 - 1)) \div tab.stts[e0].duration
<1>1. timeToSampleIndex(tab, target) = KeyBefore(tab, raw)
  BY DEF timeToSampleIndex
<1>2. n \in Nat /\ n > 0 /\ RunsOf(tab.stts, "duration", D, n) /\ \A i \in 1..n : D[i] \in Nat
  BY DEF TableTells
<1>3. RunsTell(tab.stts, T, "duration", D, n)
  BY <1>2, RunsFacts
<1>4. R = Products(tab.stts, "duration") /\ (Short(tab) => S = R)
  BY DEF Spans, Products, Short
<1> HIDE DEF n, D, T, R, S, L, here, e0, raw
<1>5. /\ T \in Seq(Nat) /\ Positive(T) /\ Total(T) = n /\ L \in Nat /\ Len(T) = L /\ DOMAIN tab.stts = 1..L
      /\ \A e \in 1..L : T[e] = tab.stts[e].count /\ T[e] \in Nat /\ tab.stts[e]["duration"] \in Nat
  BY <1>3 DEF RunsTell, L
<1>6. \A e \in 0..L : SumTo(R, e) = SumTo(D, SumTo(T, e))
  BY <1>2, <1>4, RunStarts DEF T, L
<1>11. \A e \in 1..L : S[e] \in Nat /\ S[e] <= T[e] * tab.stts[e].duration
  <2> TAKE e \in 1..L
  <2>1. tab.stts[e].count = tab.stts[e]["count"] /\ tab.stts[e].duration = tab.stts[e]["duration"]
    OBVIOUS
  <2>2. tab.stts[e].count \in Nat /\ tab.stts[e].duration \in Nat /\ T[e] = tab.stts[e].count
    BY <1>5, <2>1
  <2>3. R[e] = T[e] * tab.stts[e].duration /\ R[e] \in Nat
    <3>1. R[e] = T[e] * tab.stts[e].duration
      BY <1>5, <2>2 DEF R, Spans
    <3> QED BY <2>2, <3>1
  <2>4. S[e] = R[e] % Wrap
    BY <1>5 DEF S, R, Spans32
  <2> QED BY <2>3, <2>4, WrapFacts
<1>12. \A e \in 0..L : SumTo(S, e) \in Nat
  BY <1>5, <1>11, SumGrows
<1>7. SumTo(T, L) = n /\ \A e \in 0..L : SumTo(T, e) \in 0..n
  <2>1. SumTo(T, L) = n
    BY <1>5 DEF Total
  <2>2. \A e \in 1..L : T[e] \in Nat
    BY <1>5
  <2>3. /\ \A e \in 0..L : SumTo(T, e) \in Nat
        /\ \A d, e \in 0..L : d <= e => SumTo(T, d) <= SumTo(T, e)
    BY <1>5, <2>2, SumGrows
  <2>4. ASSUME NEW c \in 0..L PROVE SumTo(T, c) \in 0..n
    <3>1. L \in 0..L /\ c <= L
      BY <1>5
    <3>2. SumTo(T, c) \in Nat /\ SumTo(T, c) <= SumTo(T, L)
      BY <2>3, <3>1
    <3> QED BY <1>2, <2>1, <3>2
  <2> QED BY <2>1, <2>4
<1>8. /\ \A x \in 0..n : SumTo(D, x) \in Nat
      /\ \A x, y \in 0..n : x <= y => SumTo(D, x) <= SumTo(D, y)
  BY <1>2, SumGrows
<1>9. CASE here = {}
  <2>1. raw = n - 1
    BY <1>7, <1>9 DEF raw
  <2>2. SumTo(S, L) <= target
    <3>1. SUFFICES ASSUME target < SumTo(S, L) PROVE FALSE
      <4>1. L \in 0..L
        BY <1>5
      <4> QED BY <1>12, <4>1
    <3>3. PICK e \in 0..L - 1 : SumTo(S, e) <= target /\ target < SumTo(S, e + 1)
      BY <1>5, <1>11, <3>1, SumCovers
    <3>4. e + 1 \in DOMAIN tab.stts /\ (e + 1) - 1 = e
      BY <1>5
    <3>5. e + 1 \in here
      BY <3>3, <3>4 DEF here
    <3> QED BY <1>9, <3>5
  <2>3. ASSUME Short(tab) PROVE SumTo(D, n - 1) <= target
    <3>1. n - 1 \in 0..n /\ n \in 0..n /\ n - 1 <= n /\ L \in 0..L
      BY <1>2, <1>5
    <3>2. SumTo(S, L) = SumTo(D, n)
      BY <1>4, <1>6, <1>7, <2>3, <3>1
    <3>3. SumTo(D, n - 1) <= SumTo(D, n) /\ SumTo(D, n - 1) \in Nat /\ SumTo(D, n) \in Nat
      BY <1>8, <3>1
    <3> QED BY <2>2, <3>2, <3>3
  <2>4. n - 1 \in 0..n - 1
    BY <1>2
  <2>5. TimeAt(tab, w, target, raw)
    BY <2>1, <2>3, <2>4 DEF TimeAt, n, D
  <2> QED BY <1>1, <2>5
<1>10. CASE here # {}
  <2>1. e0 \in here
    BY <1>10 DEF e0
  <2> DEFINE e == e0 - 1
             dur == tab.stts[e0].duration
             cnt == T[e0]
             q == (target - SumTo(S, e)) \div dur
             x == SumTo(T, e) + q
  <2>2. e0 \in 1..L /\ SumTo(S, e0 - 1) <= target /\ target < SumTo(S, e0)
    BY <1>5, <2>1 DEF here
  <2>3. e \in 0..L /\ e \in Nat /\ e < L /\ e + 1 = e0 /\ e0 \in 0..L
    BY <1>5, <2>2
  <2>4. raw = x
    BY <1>10 DEF raw
  <2>5. dur = tab.stts[e0]["duration"] /\ dur \in Nat /\ cnt \in Nat
    <3>1. tab.stts[e0].duration = tab.stts[e0]["duration"]
      OBVIOUS
    <3> QED BY <1>5, <2>2, <3>1
  <2>6. SumTo(T, e) \in Nat /\ SumTo(T, e0) = SumTo(T, e) + cnt /\ SumTo(T, e0) <= n
    <3>1. SumTo(T, e0) = SumTo(T, e0 - 1) + T[e0]
      <4>1. \A i \in 1..e0 : i \in 1..L
        BY <2>2, <1>5
      <4>2. e0 \in Nat /\ e0 > 0 /\ \A i \in 1..e0 : T[i] \in Int
        BY <1>5, <2>2, <4>1
      <4> QED BY <4>2, SumFacts
    <3>2. SumTo(T, e) \in 0..n /\ SumTo(T, e0) \in 0..n
      BY <1>7, <2>3
    <3> QED BY <1>2, <3>1, <3>2
  <2>7. SumTo(S, e) \in Nat /\ SumTo(S, e0) <= SumTo(S, e) + cnt * dur
    <3>1. SumTo(S, e) \in Nat
      BY <1>12, <2>3
    <3>2. SumTo(S, e0) = SumTo(S, e0 - 1) + S[e0]
      <4>1. \A i \in 1..e0 : i \in 1..L
        BY <2>2, <1>5
      <4>2. e0 \in Nat /\ e0 > 0 /\ \A i \in 1..e0 : S[i] \in Int
        BY <1>5, <1>11, <2>2, <4>1
      <4> QED BY <4>2, SumFacts
    <3>3. S[e0] \in Nat /\ S[e0] <= cnt * dur
      BY <1>11, <2>2
    <3>4. cnt * dur \in Nat
      BY <2>5
    <3> HIDE DEF cnt, dur
    <3> QED BY <3>1, <3>2, <3>3, <3>4
  <2> HIDE DEF dur, cnt
  <2> DEFINE r == target - SumTo(S, e)
             base == SumTo(T, e)
  <2>8. r \in Nat /\ r < cnt * dur /\ base \in Nat
    <3>1. cnt * dur \in Nat
      BY <2>5
    <3>2. SumTo(S, e0) \in Nat
      BY <1>12, <2>3
    <3> QED BY <2>2, <2>6, <2>7, <3>1, <3>2
  <2>9. dur # 0
    <3>1. SUFFICES ASSUME dur = 0 PROVE FALSE
      OBVIOUS
    <3>2. cnt * 0 = 0
      BY <2>5
    <3> HIDE DEF r
    <3> QED BY <2>8, <3>1, <3>2
  <2>10. dur \in Nat \ {0}
    BY <2>5, <2>9
  <2> HIDE DEF r, base
  <2>11. q = r \div dur /\ x = base + q
    BY DEF r, base
  <2> HIDE DEF q, x, e
  <2>12. q \in Nat /\ q * dur <= r /\ r < q * dur + dur /\ q < cnt
    <3>1. q \in Int /\ q * dur <= r /\ r < q * dur + dur
      BY <2>8, <2>10, <2>11, DivFacts
    <3>2. q < cnt
      <4>1. cnt \in Int /\ r \in Int
        BY <2>5, <2>8
      <4>2. r \div dur < cnt
        BY <2>8, <2>10, <4>1, DivUnder
      <4> QED BY <2>11, <4>2
    <3>3. 0 <= q
      <4>1. 0 * dur <= r
        BY <2>8, <2>10
      <4> QED BY <2>8, <2>10, <2>11, <4>1, DivUnder
    <3> QED BY <3>1, <3>2, <3>3
  <2>13. x \in Nat /\ x < n /\ x = base + q
    <3>1. base + cnt <= n
      BY <2>6 DEF base
    <3>2. base \in Nat /\ cnt \in Nat /\ q \in Nat /\ q < cnt /\ n \in Nat
      BY <1>2, <2>5, <2>8, <2>12
    <3>3. base + q \in Nat /\ base + q < n
      BY <3>1, <3>2
    <3> QED BY <2>11, <3>3
  <2>14. InRun(T, x, e, q)
    <3>1. e \in 0..Len(T) /\ e < Len(T) /\ T[e + 1] = cnt
      BY <1>5, <2>3 DEF cnt
    <3>2. x = SumTo(T, e) + q
      BY <2>13 DEF base
    <3> QED BY <2>12, <3>1, <3>2 DEF InRun
  <2>15. ASSUME Short(tab) PROVE SumTo(D, x) = SumTo(S, e) + q * dur
    <3>1. SumTo(D, x) = SumTo(Products(tab.stts, "duration"), e) + q * tab.stts[e + 1]["duration"]
      BY <1>2, <2>3, <2>13, <2>14, RunSums DEF T, L
    <3>2. tab.stts[e + 1]["duration"] = dur
      BY <2>3, <2>5
    <3> QED BY <1>4, <2>15, <3>1, <3>2
  <2>16. D[x + 1] = dur
    <3>1. D[x + 1] = tab.stts[e + 1]["duration"]
      BY <1>2, <2>3, <2>13, <2>14, RunValue DEF T, L
    <3> QED BY <2>3, <2>5, <3>1
  <2>17. SumTo(D, x + 1) = SumTo(D, x) + D[x + 1]
    <3>1. x + 1 \in Nat /\ x + 1 > 0 /\ (x + 1) - 1 = x /\ \A i \in 1..x + 1 : i \in 1..n
      BY <1>2, <2>13
    <3>2. \A i \in 1..x + 1 : D[i] \in Int
      BY <1>2, <3>1
    <3> QED BY <3>1, <3>2, SumFacts
  <2>18. ASSUME Short(tab) PROVE SumTo(D, x) <= target /\ target < SumTo(D, x + 1)
    <3>1. q * dur \in Nat
      BY <2>10, <2>12
    <3>2. target = SumTo(S, e) + r
      BY <2>7 DEF r
    <3>3. SumTo(S, e) \in Nat /\ r \in Nat /\ dur \in Nat
      BY <2>5, <2>7, <2>8
    <3>4. SumTo(D, x + 1) = (SumTo(S, e) + q * dur) + dur
      BY <2>15, <2>16, <2>17, <2>18
    <3> QED BY <2>12, <2>15, <2>18, <3>1, <3>2, <3>3, <3>4
  <2>19. x \in 0..n - 1
    BY <1>2, <2>13
  <2>20. TimeAt(tab, w, target, x)
    BY <2>18, <2>19 DEF TimeAt, n, D
  <2> QED BY <1>1, <2>4, <2>20 DEF x, q, e
<1> QED BY <1>9, <1>10

-----------------------------------------------------------------------------
(* Where a cursor starts, and where a seek takes it. *)
LEMMA InRunStarts ==
  ASSUME NEW counts \in Seq(Nat), Positive(counts)
  PROVE  InRun(counts, 0, 0, 0)
<1>1. Len(counts) \in Nat /\ DOMAIN counts = 1..Len(counts)
  BY SeqFacts
<1>2. SumTo(counts, 0) = 0
  BY SumFacts
<1>3. ASSUME 0 < Len(counts) PROVE 0 < counts[0 + 1]
  <2>1. 1 \in DOMAIN counts /\ 0 + 1 = 1
    BY <1>1, <1>3
  <2> QED BY <2>1 DEF Positive
<1> QED BY <1>1, <1>2, <1>3 DEF InRun

\* The cursor a demuxer begins with stands at the first sample.
LEMMA StartStands ==
  ASSUME NEW tab, NEW video, NEW w, TableTells(tab, video, w)
  PROVE  Stands(tab, w, Cursor0)
<1> DEFINE n == Len(w)
<1>1. n \in Nat /\ Pers(tab) \in Seq(Nat) /\ Positive(Pers(tab))
  BY DEF TableTells
<1>2. InRun(Pers(tab), 0, 0, 0)
  BY <1>1, InRunStarts
<1>3. InRun(Column(tab.stts, "count"), 0, 0, 0)
  <2>1. RunsTell(tab.stts, Column(tab.stts, "count"), "duration", Durations(w), n)
    BY RunsFacts DEF TableTells
  <2> QED BY <2>1, InRunStarts DEF RunsTell
<1>4. ASSUME tab.ctts # <<>> PROVE InRun(Column(tab.ctts, "count"), 0, 0, 0)
  <2>1. RunsTell(tab.ctts, Column(tab.ctts, "count"), "offset", Offsets(w), n)
    BY <1>4, RunsFacts DEF TableTells
  <2> QED BY <2>1, InRunStarts DEF RunsTell
<1>5. PlacesAt(tab, 0, 0, 0, 0, 0, 0, 0)
  BY <1>2, <1>3, <1>4 DEF PlacesAt
<1>6. Stands(tab, w, CursorAt(tab, w, 0, 0, 0, 0, 0, 0, 0))
  BY <1>1, <1>5, PlacesStand
<1>7. GroupOf(tab, 0) = 0
  <2>1. GroupOf(tab, 0) = GroupAt(tab, 0, 0)
    BY GroupFacts
  <2>2. SUFFICES ASSUME 0 + 1 < Len(tab.groups) PROVE 0 + 1 # tab.groups[0 + 2].first
    BY <2>1 DEF GroupAt
  <2> DEFINE gs == tab.groups
  <2>3. /\ gs \in Seq([first : Nat, per : Nat]) /\ (gs # <<>> => gs[1].first = 1)
        /\ \A g, h \in DOMAIN gs : g < h => gs[g].first < gs[h].first
    BY DEF TableTells
  <2> HIDE DEF gs
  <2>4. Len(gs) \in Nat /\ DOMAIN gs = 1..Len(gs) /\ 1 < Len(gs) /\ gs # <<>>
    <3>1. 1 < Len(gs)
      BY <2>2 DEF gs
    <3> QED BY <2>3, <3>1, SeqFacts
  <2>5. 1 \in DOMAIN gs /\ 2 \in DOMAIN gs
    BY <2>4
  <2>6. gs[2] \in [first : Nat, per : Nat]
    BY <2>3, <2>4, <2>5, SeqFacts
  <2>7. gs[2].first \in Nat /\ 1 < gs[2].first
    BY <2>3, <2>4, <2>5, <2>6
  <2> QED BY <2>7 DEF gs
<1>8. SumTo(Durations(w), 0) = 0 /\ SumTo(Sizes(w, n), 0) - SumTo(Sizes(w, n), 0 - 0) = 0
  <2>1. SumTo(Durations(w), 0) = 0 /\ SumTo(Sizes(w, n), 0) = 0
    BY SumFacts
  <2> QED BY <2>1
<1>9. ASSUME tab.synced PROVE SyncBefore(tab.sync, 0) = 0
  <2> DEFINE sync == tab.sync
  <2>1. CASE sync = <<>>
    BY <2>1 DEF SyncBefore
  <2>2. CASE sync # <<>>
    <3>1. sync \in Seq(Nat) /\ ToSet(sync) = {i \in 1..n : w[i].key}
          /\ \A i, j \in DOMAIN sync : i < j => sync[i] < sync[j]
      BY <1>9 DEF TableTells, Lists
    <3> HIDE DEF sync
    <3>2. Len(sync) \in Nat /\ DOMAIN sync = 1..Len(sync) /\ Len(sync) # 0 /\ \A i \in 1..Len(sync) : sync[i] \in Nat
      BY <2>2, <3>1, SeqFacts
    <3>3. KeyPlace(sync, 0, SyncBefore(sync, 0))
      BY <2>2, <3>1, SyncBeforeFacts
    <3>4. KeyPlace(sync, 0, 0)
      <4>1. ASSUME 0 # Len(sync) - 1 PROVE sync[0 + 2] - 1 > 0
        <5>1. 1 \in DOMAIN sync /\ 2 \in DOMAIN sync
          BY <3>2, <4>1
        <5>2. sync[1] \in ToSet(sync)
          BY <5>1 DEF ToSet
        <5>3. sync[1] \in Nat /\ sync[1] >= 1 /\ sync[1] < sync[2] /\ sync[2] \in Nat
          BY <3>1, <3>2, <5>1, <5>2
        <5> QED BY <5>3
      <4> QED BY <3>2, <4>1 DEF KeyPlace
    <3> QED BY <3>1, <3>3, <3>4, KeyPlaceUnique DEF sync
  <2> QED BY <2>1, <2>2
<1>10. CursorAt(tab, w, 0, 0, 0, 0, 0, 0, 0) = Cursor0
  BY <1>7, <1>8, <1>9 DEF CursorAt, Cursor0
<1> QED BY <1>6, <1>10

\* The sample that a seek to sample g goes back to: the last key frame before it.
LastKey(video, w, g, k) ==
  IF video /\ \E i \in 1..Len(w) : w[i].key /\ i - 1 < g
  THEN /\ k \in 0..g - 1 /\ k + 1 <= Len(w) /\ w[k + 1].key
       /\ \A i \in 1..Len(w) : w[i].key /\ i - 1 < g => i - 1 <= k
  ELSE k = g

\* A set of numbers below a bound has a greatest element.
LEMMA GreatestNat ==
  ASSUME NEW S, S \subseteq Nat, S # {}, NEW b \in Nat, \A x \in S : x <= b
  PROVE  \E m \in S : \A x \in S : x <= m
<1> DEFINE U == {m \in Nat : \A x \in S : x <= m}
<1>1. PICK m \in U : \A u \in U : m <= u
  <2>1. U \subseteq Nat /\ b \in U
    OBVIOUS
  <2> HIDE DEF U
  <2> QED BY <2>1, LeastNat
<1>2. SUFFICES ASSUME m \notin S PROVE FALSE
  BY <1>1
<1>3. m \in Nat /\ \A x \in S : x <= m
  BY <1>1
<1>4. \A x \in S : x <= m - 1
  BY <1>2, <1>3
<1>5. m - 1 \in Nat
  <2>1. PICK x : x \in S
    OBVIOUS
  <2>2. x \in Nat /\ x <= m - 1
    BY <1>4, <2>1
  <2> QED BY <1>3, <2>2
<1>6. m <= m - 1
  BY <1>1, <1>4, <1>5
<1> QED BY <1>3, <1>6

\* KeyBefore is that key frame.
LEMMA KeyBeforeIs ==
  ASSUME NEW tab, NEW video, NEW w, TableTells(tab, video, w), NEW g \in Nat
  PROVE  LastKey(video, w, g, KeyBefore(tab, g))
<1> DEFINE n == Len(w)
           keys == {k \in ToSet(tab.sync) : k - 1 < g}
           m == CHOOSE k \in keys : \A j \in keys : j <= k
<1>1. KeyBefore(tab, g) = IF tab.synced /\ keys # {} THEN m - 1 ELSE g
  BY DEF KeyBefore
<1>2. tab.synced = video /\ n \in Nat
  BY DEF TableTells
<1>3. CASE video
  <2>1. ToSet(tab.sync) = {i \in 1..n : w[i].key}
    BY <1>3 DEF TableTells, Lists
  <2>2. keys = {i \in 1..n : w[i].key /\ i - 1 < g}
    BY <2>1
  <2>3. keys = {} <=> ~\E i \in 1..Len(w) : w[i].key /\ i - 1 < g
    BY <2>2
  <2>4. CASE keys = {}
    BY <1>1, <2>3, <2>4 DEF LastKey
  <2>5. CASE keys # {}
    <3>1. keys \subseteq Nat /\ \A x \in keys : x <= n
      BY <1>2, <2>2
    <3>2. \E k \in keys : \A j \in keys : j <= k
      <4> HIDE DEF keys
      <4> QED BY <1>2, <2>5, <3>1, GreatestNat
    <3>3. m \in keys /\ \A j \in keys : j <= m
      <4> HIDE DEF keys
      <4> QED BY <3>2
    <3> HIDE DEF m
    <3>4. m \in 1..n /\ w[m].key /\ m - 1 < g /\ (m - 1) + 1 = m
      BY <1>2, <2>2, <3>3
    <3>5. m - 1 \in 0..g - 1 /\ (m - 1) + 1 <= Len(w) /\ w[(m - 1) + 1].key
      BY <1>2, <3>4
    <3>6. ASSUME NEW i \in 1..Len(w), w[i].key, i - 1 < g PROVE i - 1 <= m - 1
      <4>1. i \in keys
        BY <2>2, <3>6
      <4>2. i <= m
        BY <3>3, <4>1
      <4> QED BY <1>2, <3>4, <4>2
    <3>7. KeyBefore(tab, g) = m - 1
      BY <1>1, <1>2, <1>3, <2>5
    <3> HIDE DEF keys
    <3>8. \E i \in 1..Len(w) : w[i].key /\ i - 1 < g
      BY <3>4
    <3> QED BY <1>3, <3>5, <3>6, <3>7, <3>8 DEF LastKey
  <2> QED BY <2>4, <2>5
<1>4. CASE ~video
  BY <1>1, <1>2, <1>4 DEF LastKey
<1> QED BY <1>3, <1>4

\* A track without samples stays where it is.
LEMMA EmptyStays ==
  ASSUME NEW tab, NEW video, NEW w, TableTells(tab, video, w), Len(w) = 0, NEW cur, NEW x
  PROVE  setSampleIndex(tab, cur, x) = [ok |-> FALSE, cur |-> cur]
<1>1. Pers(tab) \in Seq(Nat) /\ Positive(Pers(tab)) /\ Total(Pers(tab)) = 0
  BY DEF TableTells
<1>2. Pers(tab) = <<>>
  <2>1. InRun(Pers(tab), 0, 0, 0)
    BY <1>1, InRunStarts
  <2>2. ~(0 < Len(Pers(tab)))
    BY <1>1, <2>1, InRunEnd
  <2> QED BY <1>1, <2>2, SeqFacts
<1>3. Locate(Pers(tab), x) = [found |-> FALSE, entry |-> 0, at |-> 0]
  BY <1>2, LocateNothing
<1>4. ~Locate(Pers(tab), x).found
  BY <1>3
<1> QED BY <1>4 DEF setSampleIndex, SetTo

\* Where a seek to a time takes a track.
SoughtAt(tab, video, w, target, x) == \E g : TimeAt(tab, w, target, g) /\ LastKey(video, w, g, x)
Seeks(tab, video, w, cur, target, set) ==
  \E r : /\ Stands(tab, w, r)
         /\ \/ set = [ok |-> TRUE, cur |-> r] /\ SoughtAt(tab, video, w, target, r.sampleIndex)
            \/ set = [ok |-> FALSE, cur |-> r] /\ r = cur

\* Stream.seekToTime leaves a cursor that stands.
LEMMA SeekStands ==
  ASSUME NEW tab, NEW video, NEW w, TableTells(tab, video, w), NEW cur, Stands(tab, w, cur),
         NEW target \in Nat
  PROVE  Seeks(tab, video, w, cur, target, setSampleIndex(tab, cur, timeToSampleIndex(tab, target)))
<1>1. Len(w) \in Nat
  BY DEF TableTells
<1>2. CASE Len(w) = 0
  BY <1>2, EmptyStays DEF Seeks
<1>3. CASE Len(w) > 0
  <2>1. PICK g : TimeAt(tab, w, target, g) /\ timeToSampleIndex(tab, target) = KeyBefore(tab, g)
    BY <1>3, TimeFound
  <2> DEFINE x == KeyBefore(tab, g)
  <2>2. g \in Nat /\ g < Len(w)
    BY <1>1, <2>1 DEF TimeAt
  <2>3. LastKey(video, w, g, x)
    BY <2>2, KeyBeforeIs
  <2> HIDE DEF x
  <2>4. x \in Nat /\ x < Len(w)
    BY <1>1, <2>2, <2>3 DEF LastKey
  <2>5. PICK r : /\ setSampleIndex(tab, cur, x) = [ok |-> TRUE, cur |-> r]
                 /\ Stands(tab, w, r) /\ r.sampleIndex = x
    BY <2>4, SetStands
  <2>6. SoughtAt(tab, video, w, target, r.sampleIndex)
    BY <2>1, <2>3, <2>5 DEF SoughtAt
  <2>7. timeToSampleIndex(tab, target) = x
    BY <2>1 DEF x
  <2> QED BY <2>5, <2>6, <2>7 DEF Seeks
<1> QED BY <1>1, <1>2, <1>3

-----------------------------------------------------------------------------
(* The seek: the picture, and the sound track after track. *)
LEMMA MovieTells ==
  ASSUME WrittenInv, MovieInv, stage = "done", NEW t \in DOMAIN streams
  PROVE  TableTells(moov[t], Video(t), written[t])
<1>1. written[t] \in Seq(Pkt) /\ Video(t) \in BOOLEAN
  <2>1. streams \in Tracks
    BY DEF WrittenInv
  <2> QED BY <2>1, TracksAre, WaitingFacts
<1>2. Described(moov[t], Video(t), written[t], Len(written[t])) /\ Laid(moov[t], written[t], data)
  BY DEF MovieInv
<1> QED BY <1>1, <1>2, TableFacts

AllStand(cs) ==
  DOMAIN cs = DOMAIN streams /\ \A t \in DOMAIN streams : Stands(moov[t], written[t], cs[t])

\* While a reader reads, its cursors stand.
LEMMA OpenStands ==
  ASSUME CursorInv, opened = "ok"
  PROVE  stage = "done" /\ AllStand(cursors)
BY DEF CursorInv, AllStand

SoughtTells(s, r, t, tm) ==
  /\ AllStand(s.cursors)
  /\ \A u \in DOMAIN streams : u # t => s.cursors[u] = r.cursors[u]
  /\ s.ok => r.ok /\ SoughtAt(moov[t], Video(t), written[t], timeToTs(tm), s.cursors[t].sampleIndex)

\* One track's seek leaves all of them standing, and the others where they were.
LEMMA SoughtStands ==
  ASSUME WrittenInv, MovieInv, stage = "done", NEW r, AllStand(r.cursors),
         NEW t \in DOMAIN streams, NEW tm \in Nat
  PROVE  SoughtTells(Sought(r, t, tm), r, t, tm)
<1>1. CASE ~r.ok
  <2>1. Sought(r, t, tm) = r
    BY <1>1 DEF Sought
  <2> QED BY <1>1, <2>1 DEF SoughtTells
<1>2. CASE r.ok
  <2> DEFINE set == setSampleIndex(moov[t], r.cursors[t], timeToSampleIndex(moov[t], timeToTs(tm)))
  <2>1. TableTells(moov[t], Video(t), written[t]) /\ Stands(moov[t], written[t], r.cursors[t])
    BY MovieTells DEF AllStand
  <2>2. Seeks(moov[t], Video(t), written[t], r.cursors[t], timeToTs(tm), set)
    BY <2>1, SeekStands, TicksFacts
  <2>3. Sought(r, t, tm) = [ok |-> set.ok, cursors |-> [r.cursors EXCEPT ![t] = set.cur]]
    BY <1>2 DEF Sought, Moved
  <2> HIDE DEF set
  <2>4. /\ Stands(moov[t], written[t], set.cur)
        /\ set.ok => SoughtAt(moov[t], Video(t), written[t], timeToTs(tm), set.cur.sampleIndex)
    <3>1. PICK c : /\ Stands(moov[t], written[t], c)
                   /\ \/ set = [ok |-> TRUE, cur |-> c]
                           /\ SoughtAt(moov[t], Video(t), written[t], timeToTs(tm), c.sampleIndex)
                      \/ set = [ok |-> FALSE, cur |-> c] /\ c = r.cursors[t]
      BY <2>2 DEF Seeks
    <3> QED BY <3>1
  <2> DEFINE s == Sought(r, t, tm)
  <2>5. s.ok = set.ok /\ s.cursors = [r.cursors EXCEPT ![t] = set.cur]
    BY <2>3
  <2> HIDE DEF s
  <2>6. /\ DOMAIN s.cursors = DOMAIN streams /\ s.cursors[t] = set.cur
        /\ \A u \in DOMAIN streams : u # t => s.cursors[u] = r.cursors[u]
    BY <2>5 DEF AllStand
  <2>7. AllStand(s.cursors)
    BY <2>4, <2>6 DEF AllStand
  <2>8. SoughtTells(s, r, t, tm)
    BY <1>2, <2>4, <2>5, <2>6, <2>7 DEF SoughtTells
  <2> QED BY <2>8 DEF s
<1> QED BY <1>1, <1>2

\* The first video track is the only first one.
LEMMA PictureIs ==
  ASSUME WrittenInv, DOMAIN cursors = DOMAIN streams, ~Silent
  PROVE  /\ Picture \in DOMAIN streams /\ First(Picture)
         /\ \A v \in DOMAIN streams : First(v) => v = Picture
<1>1. Picture \in DOMAIN streams /\ First(Picture)
  <2>1. \E t \in DOMAIN cursors : First(t)
    BY DEF Silent
  <2> QED BY <2>1, Zenon DEF Picture
<1>2. ASSUME NEW v \in DOMAIN streams, First(v) PROVE v = Picture
  <2> DEFINE p == Picture
  <2>1. streams \in Tracks
    BY DEF WrittenInv
  <2>2. DOMAIN streams = 1..Len(streams) /\ Len(streams) \in Nat
    BY <2>1, TracksAre
  <2>3. p \in DOMAIN streams /\ First(p)
    BY <1>1
  <2> HIDE DEF p
  <2>4. v \in Nat /\ p \in Nat /\ v >= 1 /\ p >= 1
    BY <2>2, <2>3
  <2>5. ~(v < p)
    <3>1. SUFFICES ASSUME v < p PROVE FALSE
      OBVIOUS
    <3>2. v \in 1..p - 1
      BY <2>4, <3>1
    <3> QED BY <1>2, <2>3, <3>2 DEF First
  <2>6. ~(p < v)
    <3>1. SUFFICES ASSUME p < v PROVE FALSE
      OBVIOUS
    <3>2. p \in 1..v - 1
      BY <2>4, <3>1
    <3> QED BY <1>2, <2>3, <3>2 DEF First
  <2>7. v = p
    BY <2>4, <2>5, <2>6
  <2> QED BY <2>7 DEF p
<1> QED BY <1>1, <1>2

SeenTells(seen, tm) ==
  /\ AllStand(seen.cursors)
  /\ seen.ok => \A v \in DOMAIN streams : First(v) =>
       SoughtAt(moov[v], TRUE, written[v], timeToTs(tm), seen.cursors[v].sampleIndex)

\* The first seek, of the picture.
LEMMA SeenStands ==
  ASSUME WrittenInv, MovieInv, CursorInv, opened = "ok", NEW tm \in Nat
  PROVE  SeenTells(Seen(tm), tm)
<1> DEFINE r == [ok |-> TRUE, cursors |-> cursors]
<1>1. stage = "done" /\ AllStand(cursors)
  BY OpenStands
<1>2. CASE Silent
  <2>1. Seen(tm) = r
    BY <1>2 DEF Seen
  <2>2. \A v \in DOMAIN streams : ~First(v)
    BY <1>1, <1>2 DEF Silent, AllStand
  <2>3. AllStand(r.cursors)
    BY <1>1
  <2> HIDE DEF r
  <2>4. SeenTells(r, tm)
    BY <2>2, <2>3 DEF SeenTells
  <2> QED BY <2>1, <2>4
<1>3. CASE ~Silent
  <2>1. Seen(tm) = Sought(r, Picture, tm)
    BY <1>3 DEF Seen
  <2>2. /\ Picture \in DOMAIN streams /\ First(Picture)
        /\ \A v \in DOMAIN streams : First(v) => v = Picture
    BY <1>1, <1>3, PictureIs DEF AllStand
  <2>3. AllStand(r.cursors)
    BY <1>1
  <2> HIDE DEF r
  <2>4. SoughtTells(Sought(r, Picture, tm), r, Picture, tm)
    BY <1>1, <2>2, <2>3, SoughtStands
  <2>5. Video(Picture)
    BY <2>2 DEF First
  <2>6. Video(Picture) = TRUE
    BY <2>5 DEF Video
  <2> DEFINE s == Seen(tm)
             p == Picture
  <2>7. AllStand(s.cursors) /\ (s.ok => SoughtAt(moov[p], Video(p), written[p], timeToTs(tm), s.cursors[p].sampleIndex))
    BY <2>1, <2>4 DEF SoughtTells
  <2>8. s.ok => SoughtAt(moov[p], TRUE, written[p], timeToTs(tm), s.cursors[p].sampleIndex)
    BY <2>6, <2>7, Zenon
  <2> HIDE DEF s, p
  <2>9. \A v \in DOMAIN streams : First(v) => v = p
    BY <2>2 DEF p
  <2>10. SeenTells(s, tm)
    BY <2>7, <2>8, <2>9, Zenon DEF SeenTells
  <2> QED BY <2>10 DEF s
<1> QED BY <1>2, <1>3

HeardTo(h, seen, from, n) ==
  h = [t \in 0..n |-> IF t = 0 THEN seen ELSE IF Video(t) THEN h[t - 1] ELSE Sought(h[t - 1], t, from)]

\* The function that SeekToTime's loop computes exists.
LEMMA HeardSolved ==
  ASSUME NEW seen, NEW from
  PROVE  \A n \in Nat : \E h : HeardTo(h, seen, from, n)
<1> DEFINE Step(r, t) == IF Video(t) THEN r ELSE Sought(r, t, from)
           P == {n \in Nat : \E h : HeardTo(h, seen, from, n)}
<1>1. 0 \in P
  <2> DEFINE h == [t \in 0..0 |-> seen]
  <2>1. h = [t \in 0..0 |-> IF t = 0 THEN seen ELSE Step(h[t - 1], t)]
    OBVIOUS
  <2>2. HeardTo(h, seen, from, 0)
    BY <2>1 DEF HeardTo
  <2> QED BY <2>2
<1>2. ASSUME NEW n \in Nat, n \in P PROVE n + 1 \in P
  <2>1. PICK h : HeardTo(h, seen, from, n)
    BY <1>2
  <2>2. \A t \in 0..n : h[t] = IF t = 0 THEN seen ELSE Step(h[t - 1], t)
    BY <2>1 DEF HeardTo
  <2> DEFINE g == [t \in 0..n + 1 |-> IF t = n + 1 THEN Step(h[n], n + 1) ELSE h[t]]
  <2> HIDE DEF Step
  <2>3. \A t \in 0..n + 1 : g[t] = IF t = 0 THEN seen ELSE Step(g[t - 1], t)
    <3> TAKE t \in 0..n + 1
    <3>1. CASE t = n + 1
      <4>1. g[t] = Step(h[n], n + 1) /\ t - 1 = n /\ g[n] = h[n] /\ t # 0
        BY <3>1
      <4> QED BY <3>1, <4>1
    <3>2. CASE t # n + 1
      <4>1. t \in 0..n /\ g[t] = h[t]
        BY <3>2
      <4>2. t # 0 => t - 1 \in 0..n + 1 /\ t - 1 # n + 1 /\ g[t - 1] = h[t - 1]
        BY <3>2
      <4> QED BY <2>2, <4>1, <4>2
    <3> QED BY <3>1, <3>2
  <2>4. g = [t \in 0..n + 1 |-> g[t]]
    OBVIOUS
  <2> HIDE DEF g
  <2>5. HeardTo(g, seen, from, n + 1)
    BY <2>3, <2>4 DEF HeardTo, Step
  <2> QED BY <2>5
<1> HIDE DEF P
<1>3. \A n \in Nat : n \in P
  BY <1>1, <1>2, Induction
<1> QED BY <1>3 DEF P

\* The sound tracks up to k have been sought.
HeardUpTo(r, seen, from, k) ==
  /\ AllStand(r.cursors)
  /\ \A t \in DOMAIN streams : Video(t) => r.cursors[t] = seen.cursors[t]
  /\ r.ok => /\ seen.ok
             /\ \A t \in DOMAIN streams : ~Video(t) /\ t <= k =>
                  TimeAt(moov[t], written[t], timeToTs(from), r.cursors[t].sampleIndex)

\* The seeks of the sound, one after the other.
LEMMA HeardStands ==
  ASSUME WrittenInv, MovieInv, stage = "done", NEW seen, AllStand(seen.cursors), NEW from \in Nat
  PROVE  HeardUpTo(Heard(seen, from), seen, from, Len(streams))
<1>1. streams \in Tracks
  BY DEF WrittenInv
<1>2. /\ Len(streams) \in Nat /\ DOMAIN streams = 1..Len(streams)
      /\ \A t \in DOMAIN streams : t \in Nat /\ Video(t) \in BOOLEAN
  BY <1>1, TracksAre
<1> DEFINE n == Len(streams)
           h == CHOOSE f : HeardTo(f, seen, from, n)
           P == {k \in Nat : k <= n => HeardUpTo(h[k], seen, from, k)}
<1>3. Heard(seen, from) = h[n]
  BY DEF Heard, HeardTo
<1>4. HeardTo(h, seen, from, n)
  <2>1. \E f : HeardTo(f, seen, from, n)
    BY <1>2, HeardSolved
  <2> QED BY <2>1
<1> HIDE DEF h, n
<1>5. \A t \in 0..n : h[t] = IF t = 0 THEN seen ELSE IF Video(t) THEN h[t - 1] ELSE Sought(h[t - 1], t, from)
  BY <1>4 DEF HeardTo
<1>6. 0 \in P
  <2>1. h[0] = seen
    BY <1>2, <1>5 DEF n
  <2>2. \A t \in DOMAIN streams : ~(t <= 0)
    BY <1>2
  <2> QED BY <2>1, <2>2 DEF HeardUpTo
<1>7. ASSUME NEW k \in Nat, k \in P PROVE k + 1 \in P
  <2> SUFFICES ASSUME k + 1 <= n PROVE HeardUpTo(h[k + 1], seen, from, k + 1)
    OBVIOUS
  <2>1. k + 1 \in 0..n /\ k + 1 # 0 /\ (k + 1) - 1 = k /\ k <= n /\ k + 1 \in DOMAIN streams
    BY <1>2 DEF n
  <2>2. HeardUpTo(h[k], seen, from, k)
    BY <1>7, <2>1
  <2>3. h[k + 1] = IF Video(k + 1) THEN h[k] ELSE Sought(h[k], k + 1, from)
    BY <1>5, <2>1
  <2> DEFINE t == k + 1
             r == h[k]
             s == h[k + 1]
  <2>4. \A u \in DOMAIN streams : u <= k + 1 /\ u # t => u <= k
    BY <1>2
  <2> HIDE DEF t, r, s
  <2>5. CASE Video(t)
    <3>1. s = r
      BY <2>3, <2>5 DEF s, r, t
    <3>2. HeardUpTo(r, seen, from, k)
      BY <2>2 DEF r
    <3>3. HeardUpTo(s, seen, from, k + 1)
      BY <2>4, <2>5, <3>1, <3>2 DEF HeardUpTo
    <3> QED BY <3>3 DEF s
  <2>6. CASE ~Video(t)
    <3>1. s = Sought(r, t, from)
      BY <2>3, <2>6 DEF s, r, t
    <3>2. HeardUpTo(r, seen, from, k)
      BY <2>2 DEF r
    <3>3. t \in DOMAIN streams
      BY <2>1 DEF t
    <3>4. SoughtTells(s, r, t, from)
      BY <3>1, <3>2, <3>3, SoughtStands DEF HeardUpTo
    <3>5. SoughtAt(moov[t], Video(t), written[t], timeToTs(from), s.cursors[t].sampleIndex) =>
            TimeAt(moov[t], written[t], timeToTs(from), s.cursors[t].sampleIndex)
      BY <2>6 DEF SoughtAt, LastKey
    <3>6. HeardUpTo(s, seen, from, k + 1)
      BY <2>4, <2>6, <3>2, <3>3, <3>4, <3>5 DEF HeardUpTo, SoughtTells
    <3> QED BY <3>6 DEF s
  <2> QED BY <2>5, <2>6
<1> HIDE DEF P
<1>8. \A k \in Nat : k \in P
  BY <1>6, <1>7, Induction
<1>9. n \in P /\ n \in Nat
  BY <1>2, <1>8 DEF n
<1> QED BY <1>3, <1>9 DEF P, n

-----------------------------------------------------------------------------
(* The cursors stand. *)
\* Where the tracks stand after a seek that went well.
SeekResult(cs, tm) ==
  /\ AllStand(cs)
  /\ \A v \in DOMAIN streams : First(v) =>
       /\ SoughtAt(moov[v], TRUE, written[v], timeToTs(tm), cs[v].sampleIndex)
       /\ \A a \in DOMAIN streams : ~Video(a) =>
            TimeAt(moov[a], written[a], timeToTs(tsToTime(cs[v].dts)), cs[a].sampleIndex)

\* SeekToTime: all cursors stand, and if it went well where it says.
LEMMA SeekTells ==
  ASSUME WrittenInv, MovieInv, CursorInv, opened = "ok", NEW tm \in Nat
  PROVE  /\ AllStand(HeardFrom(Seen(tm), tm).cursors)
         /\ HeardFrom(Seen(tm), tm).ok => SeekResult(HeardFrom(Seen(tm), tm).cursors, tm)
<1> DEFINE seen == Seen(tm)
           from == IF Silent THEN tm ELSE tsToTime(seen.cursors[Picture].dts)
           heard == HeardFrom(seen, tm)
<1>1. stage = "done" /\ AllStand(cursors)
  BY OpenStands
<1>2. SeenTells(seen, tm)
  BY SeenStands
<1>3. heard = Heard(seen, from)
  BY DEF HeardFrom
<1>4. ~Silent => /\ Picture \in DOMAIN streams /\ First(Picture)
                 /\ \A v \in DOMAIN streams : First(v) => v = Picture
  BY <1>1, PictureIs DEF AllStand
<1> HIDE DEF seen, heard
<1>5. from \in Nat
  <2>1. CASE Silent
    BY <2>1
  <2>2. CASE ~Silent
    <3>1. Stands(moov[Picture], written[Picture], seen.cursors[Picture])
      BY <1>2, <1>4, <2>2 DEF SeenTells, AllStand
    <3>2. seen.cursors[Picture].dts \in Nat
      BY <3>1 DEF Stands, Cursor
    <3> QED BY <2>2, <3>2, TicksFacts
  <2> QED BY <2>1, <2>2
<1> HIDE DEF from
<1>6. HeardUpTo(heard, seen, from, Len(streams))
  BY <1>1, <1>2, <1>3, <1>5, HeardStands DEF SeenTells
<1>7. ASSUME heard.ok PROVE SeekResult(heard.cursors, tm)
  <2>1. seen.ok
    BY <1>6, <1>7 DEF HeardUpTo
  <2>2. ASSUME NEW v \in DOMAIN streams, First(v)
        PROVE  /\ SoughtAt(moov[v], TRUE, written[v], timeToTs(tm), heard.cursors[v].sampleIndex)
               /\ \A a \in DOMAIN streams : ~Video(a) =>
                    TimeAt(moov[a], written[a], timeToTs(tsToTime(heard.cursors[v].dts)), heard.cursors[a].sampleIndex)
    <3>1. ~Silent
      BY <1>1, <2>2 DEF Silent, AllStand
    <3>2. v = Picture /\ Video(v)
      BY <1>4, <2>2, <3>1 DEF First
    <3>3. heard.cursors[v] = seen.cursors[v]
      BY <1>6, <3>2 DEF HeardUpTo
    <3>4. SoughtAt(moov[v], TRUE, written[v], timeToTs(tm), seen.cursors[v].sampleIndex)
      BY <1>2, <2>1, <2>2 DEF SeenTells
    <3>5. from = tsToTime(heard.cursors[v].dts)
      BY <3>1, <3>2, <3>3 DEF from
    <3>6. ASSUME NEW a \in DOMAIN streams, ~Video(a)
          PROVE  TimeAt(moov[a], written[a], timeToTs(from), heard.cursors[a].sampleIndex)
      <4>1. streams \in Tracks
        BY DEF WrittenInv
      <4>2. a <= Len(streams)
        BY <4>1, TracksAre
      <4> QED BY <1>6, <1>7, <3>6, <4>2 DEF HeardUpTo
    <3> QED BY <3>3, <3>4, <3>5, <3>6
  <2>3. AllStand(heard.cursors)
    BY <1>6 DEF HeardUpTo
  <2> QED BY <2>2, <2>3 DEF SeekResult
<1>8. AllStand(heard.cursors)
  BY <1>6 DEF HeardUpTo
<1> QED BY <1>7, <1>8 DEF heard, seen

\* A cursor whose sample is valid is before the last one's end.
LEMMA ValidIsBefore ==
  ASSUME NEW tab, NEW video, NEW w, TableTells(tab, video, w), NEW cur, Stands(tab, w, cur),
         isSampleValid(tab, cur)
  PROVE  cur.sampleIndex < Len(w)
<1>1. /\ Pers(tab) \in Seq(Nat) /\ Total(Pers(tab)) = Len(w)
      /\ Len(Pers(tab)) = Len(tab.offsets)
  BY DEF TableTells
<1>2. InRun(Pers(tab), cur.sampleIndex, cur.chunkIndex, cur.sampleIndexInChunk) /\ cur.sampleIndex \in Nat
  BY DEF Stands, Cursor
<1>3. cur.chunkIndex < Len(tab.offsets)
  BY DEF isSampleValid
<1> QED BY <1>1, <1>2, <1>3, InRunEnd

\* The track that is chosen: the least far, the first of equals.
LEMMA ChosenIs ==
  ASSUME WrittenInv, CursorInv, opened = "ok", streams # <<>>
  PROVE  /\ Chosen \in DOMAIN streams
         /\ \A u \in DOMAIN streams : Time(Chosen) <= Time(u)
<1>1. AllStand(cursors) /\ streams \in Tracks
  BY OpenStands DEF WrittenInv
<1>2. DOMAIN streams = 1..Len(streams) /\ Len(streams) \in Nat /\ DOMAIN cursors = 1..Len(streams)
  BY <1>1, TracksAre DEF AllStand
<1> DEFINE D == 1..Len(streams)
           times == {Time(t) : t \in D}
<1>3. \A t \in D : Time(t) \in Nat
  <2> TAKE t \in D
  <2>1. Stands(moov[t], written[t], cursors[t])
    BY <1>1, <1>2 DEF AllStand
  <2>2. cursors[t].dts \in Nat
    BY <2>1 DEF Stands, Cursor
  <2> QED BY <2>2, TicksFacts DEF Time
<1>4. 1 \in D
  <2>1. Len(streams) # 0
    <3>1. streams \in Seq({"H264", "H265", "AAC"})
      BY <1>1, TracksAssumption
    <3> QED BY <3>1, SeqFacts
  <2> QED BY <1>2, <2>1
<1>5. PICK m \in times : \A x \in times : m <= x
  <2>1. times \subseteq Nat /\ times # {}
    BY <1>3, <1>4
  <2> HIDE DEF times
  <2> QED BY <2>1, LeastNat
<1> DEFINE best == {t \in D : Time(t) = m}
<1>6. PICK t \in best : \A u \in best : t <= u
  <2>1. best \subseteq Nat /\ best # {}
    BY <1>2, <1>5
  <2> HIDE DEF best
  <2> QED BY <2>1, LeastNat
<1>7. t \in D /\ Time(t) = m
  BY <1>6
<1>8. \A u \in D : Time(t) <= Time(u)
  BY <1>5, <1>7
<1>9. ASSUME NEW u \in 1..t - 1 PROVE Time(t) < Time(u)
  <2>1. u \in D /\ u < t
    BY <1>2, <1>7
  <2>2. u \notin best
    BY <1>2, <1>6, <1>7, <2>1
  <2>3. Time(u) # m /\ m <= Time(u) /\ m \in Nat /\ Time(u) \in Nat
    BY <1>3, <1>5, <1>7, <2>1, <2>2
  <2> QED BY <1>7, <2>3
<1>10. \E c \in DOMAIN cursors :
         /\ \A u \in DOMAIN cursors : Time(c) <= Time(u)
         /\ \A u \in 1 .. c - 1 : Time(c) < Time(u)
  BY <1>2, <1>7, <1>8, <1>9
<1>11. Chosen \in DOMAIN cursors /\ \A u \in DOMAIN cursors : Time(Chosen) <= Time(u)
  BY <1>10, Zenon DEF Chosen
<1> QED BY <1>2, <1>11

\* probe.
LEMMA OpenTells ==
  ASSUME WrittenInv, MovieInv, Open
  PROVE  CursorInv'
<1>1. CASE opened' = "ok"
  <2>1. moov # <<>> /\ moov' = moov /\ written' = written /\ streams' = streams /\ stage' = stage
        /\ cursors' = [t \in DOMAIN moov |-> Cursor0]
    BY <1>1 DEF Open, Outcomes, muxVars
  <2>2. stage = "done" /\ DOMAIN moov = DOMAIN streams
    BY <2>1 DEF MovieInv
  <2>3. \A t \in DOMAIN streams : Stands(moov[t], written[t], Cursor0)
    BY <2>2, MovieTells, StartStands
  <2>4. DOMAIN cursors' = DOMAIN streams /\ \A t \in DOMAIN streams : cursors'[t] = Cursor0
    BY <2>1, <2>2
  <2>5. \A t \in DOMAIN streams' : Stands(moov'[t], written'[t], cursors'[t])
    BY <2>1, <2>3, <2>4
  <2> QED BY <1>1, <2>1, <2>2, <2>4, <2>5 DEF CursorInv
<1>2. CASE opened' # "ok"
  BY <1>2 DEF Open, CursorInv
<1> QED BY <1>1, <1>2

\* ReadPacket.
LEMMA ReadTells ==
  ASSUME WrittenInv, MovieInv, CursorInv, ReadPacket
  PROVE  CursorInv'
<1> DEFINE t == Chosen
           cur == cursors[t]
           tab == moov[t]
<1>1. opened = "ok" /\ streams # <<>> /\ opened' = "ok" /\ moov' = moov /\ written' = written
      /\ streams' = streams /\ stage' = stage
  BY DEF ReadPacket, muxVars
<1>2. stage = "done" /\ AllStand(cursors) /\ t \in DOMAIN streams
  BY <1>1, OpenStands, ChosenIs
<1>3. CASE isSampleValid(tab, cur)
  <2>1. cursors' = [cursors EXCEPT ![t] = incSampleIndex(tab, cur)]
    BY <1>3 DEF ReadPacket
  <2>2. TableTells(tab, Video(t), written[t]) /\ Stands(tab, written[t], cur)
    BY <1>2, MovieTells DEF AllStand
  <2>3. cur.sampleIndex < Len(written[t])
    BY <1>3, <2>2, ValidIsBefore
  <2>4. Stands(tab, written[t], incSampleIndex(tab, cur))
    BY <2>2, <2>3, NextStands
  <2> HIDE DEF cur, tab
  <2> DEFINE inc == incSampleIndex(tab, cur)
  <2>5. Stands(moov[t], written[t], inc) /\ cursors' = [cursors EXCEPT ![t] = inc]
    BY <2>1, <2>4 DEF tab
  <2> HIDE DEF inc, t
  <2>6. DOMAIN cursors' = DOMAIN streams /\ \A u \in DOMAIN streams : Stands(moov[u], written[u], cursors'[u])
    BY <1>2, <2>5 DEF AllStand
  <2> QED BY <1>1, <1>2, <2>6 DEF CursorInv
<1>4. CASE ~isSampleValid(tab, cur)
  <2>1. cursors' = cursors
    BY <1>4 DEF ReadPacket
  <2> QED BY <1>1, <1>2, <2>1 DEF CursorInv, AllStand
<1> QED BY <1>3, <1>4

\* SeekToTime.
LEMMA SoughtOn ==
  ASSUME WrittenInv, MovieInv, CursorInv, NEW tm \in SeekTimes, SeekToTime(tm)
  PROVE  CursorInv'
<1>1. opened = "ok" /\ opened' = "ok" /\ moov' = moov /\ written' = written /\ streams' = streams /\ stage' = stage
      /\ cursors' = HeardFrom(Seen(tm), tm).cursors
  BY DEF SeekToTime, Told, muxVars
<1>2. stage = "done"
  BY <1>1, OpenStands
<1>3. tm \in Nat
  BY TimesAssumption
<1>4. AllStand(cursors')
  BY <1>1, <1>3, SeekTells
<1> QED BY <1>1, <1>2, <1>4 DEF CursorInv, AllStand

\* The file and its tables stay while the reader reads.
LEMMA DoneStays ==
  ASSUME stage = "done", opened = "ok", [Next]_vars
  PROVE  UNCHANGED << streams, moov, written, data, stage >>
<1>1. CASE UNCHANGED vars
  BY <1>1 DEF vars, muxVars
<1>2. CASE Next
  <2>1. CASE \E t \in DOMAIN streams, shape \in Shapes : WritePacket(t, shape)
    BY <2>1 DEF WritePacket
  <2>2. CASE Trailer \/ WriteSize \/ WriteMovie \/ Crash
    BY <2>2 DEF Trailer, WriteSize, WriteMovie, Crash
  <2>3. CASE \E layout \in [DOMAIN streams -> Chunkings], fix \in BOOLEAN : Remux(layout, fix)
    BY <2>3 DEF Remux
  <2>4. CASE Open \/ Reopen \/ ReadPacket
    BY <2>4 DEF Open, Reopen, ReadPacket, muxVars
  <2>5. CASE \E tm \in SeekTimes : SeekToTime(tm)
    BY <2>5 DEF SeekToTime, muxVars
  <2> QED BY <1>2, <2>1, <2>2, <2>3, <2>4, <2>5 DEF Next
<1> QED BY <1>1, <1>2

\* Every step leaves the cursors standing.
LEMMA CursorGoesOn ==
  ASSUME WrittenInv, MovieInv, CursorInv, [Next]_vars
  PROVE  CursorInv'
<1>1. CASE UNCHANGED readVars
  <2>1. opened' = opened /\ cursors' = cursors /\ last' = last
    BY <1>1 DEF readVars
  <2>2. CASE opened = "ok"
    <3>1. stage = "done" /\ UNCHANGED << streams, moov, written, data, stage >>
      BY <2>2, OpenStands, DoneStays
    <3> QED BY <2>1, <3>1 DEF CursorInv
  <2>3. CASE opened # "ok"
    BY <2>1, <2>3 DEF CursorInv
  <2> QED BY <2>2, <2>3
<1>2. CASE Open
  BY <1>2, OpenTells
<1>3. CASE Reopen
  BY <1>3 DEF Reopen, CursorInv
<1>4. CASE ReadPacket
  BY <1>4, ReadTells
<1>5. CASE \E tm \in SeekTimes : SeekToTime(tm)
  BY <1>5, SoughtOn
<1>6. CASE \E t \in DOMAIN streams, shape \in Shapes : WritePacket(t, shape)
  BY <1>1, <1>6 DEF WritePacket
<1>7. CASE Trailer \/ WriteSize \/ WriteMovie \/ Crash
  BY <1>1, <1>7 DEF Trailer, WriteSize, WriteMovie, Crash
<1>8. CASE \E layout \in [DOMAIN streams -> Chunkings], fix \in BOOLEAN : Remux(layout, fix)
  BY <1>1, <1>8 DEF Remux
<1>9. CASE UNCHANGED vars
  BY <1>1, <1>9 DEF vars
<1> QED BY <1>2, <1>3, <1>4, <1>5, <1>6, <1>7, <1>8, <1>9 DEF Next

(* FileInv: the packets, the tables and the cursors always tell the same. *)
THEOREM FileAgrees == Spec => []FileInv
<1>1. Init => FileInv
  BY InitTells DEF FileInv
<1>2. FileInv /\ [Next]_vars => FileInv'
  BY WrittenGoesOn, MovieGoesOn, CursorGoesOn DEF FileInv
<1> QED BY <1>1, <1>2, PTL DEF Spec

(* CursorsAgree: the cursor's eleven numbers are those a seek to its sample would set. *)
THEOREM CursorsStandTogether == Spec => []CursorsAgree
<1>1. ASSUME FileInv PROVE CursorsAgree
  <2> SUFFICES ASSUME opened = "ok", NEW t \in DOMAIN cursors, cursors[t].sampleIndex < Len(written[t])
               PROVE  setSampleIndex(moov[t], cursors[t], cursors[t].sampleIndex) = [ok |-> TRUE, cur |-> cursors[t]]
    BY DEF CursorsAgree
  <2>1. WrittenInv /\ MovieInv /\ CursorInv
    BY <1>1 DEF FileInv
  <2>2. stage = "done" /\ AllStand(cursors) /\ t \in DOMAIN streams
    BY <2>1, OpenStands DEF AllStand
  <2>3. TableTells(moov[t], Video(t), written[t]) /\ Stands(moov[t], written[t], cursors[t])
    BY <2>1, <2>2, MovieTells DEF AllStand
  <2> QED BY <2>3, StandsAgrees
<1> QED BY <1>1, FileAgrees, PTL

-----------------------------------------------------------------------------
(* What a reader is told of a packet. *)
\* The packet's time in ticks, each gap rounded, is behind by less than one for each gap
\* if all of them fit into 32 bits.
GapsFit(w, x) == \A j \in 1..x : timeToTs(Gap(w, j)) < Wrap
Behind(w, x) ==
  LET dts == SumTo(Durations(w), x)
      start == w[x + 1].time - w[1].time
  IN /\ dts \in Nat /\ start \in Nat
     /\ dts * Second <= start * TimeScale
     /\ GapsFit(w, x) => start * TimeScale <= dts * Second + x * Second

\* Added up gap by gap.
LEMMA StartsBehind ==
  ASSUME NEW w \in Seq(Pkt), \A i \in DOMAIN w : Gap(w, i) >= 0
  PROVE  \A x \in Nat : x < Len(w) => Behind(w, x)
<1> DEFINE n == Len(w)
           D == Durations(w)
           P == {x \in Nat : x < n => Behind(w, x)}
<1>1. TimeScale \in Nat \ {0} /\ Second \in Nat \ {0}
  BY ScaleAssumption
<1>2. n \in Nat /\ DOMAIN w = 1..n /\ \A i \in 1..n : w[i] \in Pkt
  BY SeqFacts
<1>3. \A i \in 1..n : w[i].time \in Int
  BY <1>2 DEF Pkt
<1>4. ASSUME NEW i \in 1..n, i < n
      PROVE  Gap(w, i) = w[i + 1].time - w[i].time /\ Gap(w, i) \in Nat /\ D[i] = timeToTs(Gap(w, i)) % Wrap
             /\ D[i] \in Nat /\ timeToTs(Gap(w, i)) \in Nat /\ D[i] <= timeToTs(Gap(w, i))
  <2>1. i + 1 \in 1..n
    BY <1>2, <1>4
  <2>2. Gap(w, i) = w[i + 1].time - w[i].time
    BY <1>4 DEF Gap
  <2>3. w[i + 1].time \in Int /\ w[i].time \in Int
    BY <1>3, <2>1
  <2>4. Gap(w, i) >= 0
    BY <1>2
  <2>5. Gap(w, i) \in Nat
    BY <2>2, <2>3, <2>4
  <2>6. D[i] = timeToTs(Gap(w, i)) % Wrap
    BY <1>2 DEF Durations
  <2>7. timeToTs(Gap(w, i)) \in Nat
    BY <2>5, TicksFacts
  <2> QED BY <2>2, <2>5, <2>6, <2>7, WrapFacts
<1>5. 0 \in P
  <2>1. SUFFICES ASSUME 0 < n PROVE Behind(w, 0)
    OBVIOUS
  <2>2. SumTo(D, 0) = 0
    BY SumFacts
  <2>3. w[0 + 1].time - w[1].time = 0
    <3>1. w[1].time \in Int /\ 0 + 1 = 1
      BY <1>2, <1>3, <2>1
    <3> QED BY <3>1
  <2>4. 0 * Second = 0 /\ 0 * TimeScale = 0
    BY <1>1
  <2> QED BY <2>2, <2>3, <2>4 DEF Behind
<1>6. ASSUME NEW x \in Nat, x \in P PROVE x + 1 \in P
  <2>1. SUFFICES ASSUME x + 1 < n PROVE Behind(w, x + 1)
    OBVIOUS
  <2>2. x + 1 \in 1..n /\ x + 2 \in 1..n /\ 1 \in 1..n /\ x < n /\ (x + 1) + 1 = x + 2 /\ (x + 1) - 1 = x
    BY <1>2, <2>1
  <2>3. Behind(w, x)
    BY <1>6, <2>2
  <2> DEFINE g == Gap(w, x + 1)
             q == D[x + 1]
             d == SumTo(D, x)
             s == w[x + 1].time - w[1].time
  <2>4. g = w[x + 2].time - w[x + 1].time /\ g \in Nat /\ q = timeToTs(g) % Wrap /\ q \in Nat
        /\ timeToTs(g) \in Nat /\ q <= timeToTs(g)
    BY <1>4, <2>1, <2>2
  <2>5. SumTo(D, x + 1) = d + q
    <3>1. \A i \in 1..x + 1 : i \in 1..n /\ i < n
      BY <1>2, <2>1
    <3>2. \A i \in 1..x + 1 : D[i] \in Int
      BY <1>4, <3>1
    <3>3. x + 1 \in Nat /\ x + 1 > 0
      OBVIOUS
    <3> QED BY <2>2, <3>2, <3>3, SumFacts
  <2>6. w[(x + 1) + 1].time - w[1].time = s + g
    <3>1. w[x + 2].time \in Int /\ w[x + 1].time \in Int /\ w[1].time \in Int
      BY <1>3, <2>2
    <3>2. g = w[x + 2].time - w[x + 1].time
      BY <2>4
    <3>3. w[(x + 1) + 1].time = w[x + 2].time
      BY <2>2
    <3> DEFINE there == w[x + 2].time
               here == w[x + 1].time
               from == w[1].time
    <3> HIDE DEF g, there, here, from
    <3>4. there - from = (here - from) + g
      BY <3>1, <3>2 DEF there, here, from
    <3> QED BY <3>3, <3>4 DEF there, here, from
  <2>7. /\ q * Second <= g * TimeScale
        /\ GapsFit(w, x + 1) => g * TimeScale < q * Second + Second
    <3> DEFINE f == timeToTs(g)
    <3>1. f \in Int /\ f * Second <= g * TimeScale /\ g * TimeScale < f * Second + Second
      BY <2>4, TickBounds
    <3>2. GapsFit(w, x + 1) => q = f
      <4>1. x + 1 \in 1..x + 1
        OBVIOUS
      <4> QED BY <2>4, <4>1, WrapFacts DEF GapsFit
    <3> HIDE DEF f, q, g
    <3>3. q * Second <= f * Second /\ q * Second \in Int /\ f * Second \in Int /\ g * TimeScale \in Int
      BY <1>1, <2>4, <3>1, MulLess DEF f
    <3> QED BY <3>1, <3>2, <3>3
  <2>13. GapsFit(w, x + 1) => GapsFit(w, x)
    BY DEF GapsFit
  <2>8. /\ d \in Nat /\ s \in Nat
        /\ d * Second <= s * TimeScale
        /\ GapsFit(w, x + 1) => s * TimeScale <= d * Second + x * Second
    BY <2>3, <2>13 DEF Behind
  <2>9. /\ (d + q) * Second = d * Second + q * Second
        /\ (s + g) * TimeScale = s * TimeScale + g * TimeScale
        /\ (x + 1) * Second = x * Second + Second
    <3> HIDE DEF d, q, s, g
    <3>1. d \in Int /\ q \in Int /\ s \in Int /\ g \in Int
      BY <2>4, <2>8
    <3> QED BY <1>1, <3>1
  <2>10. d * Second \in Int /\ q * Second \in Int /\ s * TimeScale \in Int /\ g * TimeScale \in Int /\ x * Second \in Int
    <3> HIDE DEF d, q, s, g
    <3> QED BY <1>1, <2>4, <2>8
  <2>11. /\ (d + q) * Second <= (s + g) * TimeScale
         /\ GapsFit(w, x + 1) => (s + g) * TimeScale <= (d + q) * Second + (x + 1) * Second
    <3> HIDE DEF d, q, s, g
    <3> QED BY <1>1, <2>7, <2>8, <2>9, <2>10
  <2>12. d + q \in Nat /\ s + g \in Nat
    <3> HIDE DEF d, q, s, g
    <3> QED BY <2>4, <2>8
  <2> QED BY <2>5, <2>6, <2>11, <2>12 DEF Behind
<1> HIDE DEF P
<1>7. \A x \in Nat : x \in P
  BY <1>5, <1>6, Induction
<1> QED BY <1>7 DEF P

\* In ticks it is not after its time, and in time behind by less than a tick for each packet.
LEMMA BehindLess ==
  ASSUME NEW w, NEW x \in Nat, Behind(w, x)
  PROVE  LET start == w[x + 1].time - w[1].time
             dts == SumTo(Durations(w), x)
         IN /\ dts <= timeToTs(start)
            /\ 0 <= start - tsToTime(dts)
            /\ GapsFit(w, x) => (start - tsToTime(dts)) * TimeScale <= (x + 1) * Second
<1> DEFINE s == w[x + 1].time - w[1].time
           d == SumTo(Durations(w), x)
           p == tsToTime(d)
<1>1. TimeScale \in Nat \ {0} /\ Second \in Nat \ {0} /\ TimeScale <= Second
  BY ScaleAssumption
<1>2. /\ d \in Nat /\ s \in Nat
      /\ d * Second <= s * TimeScale
      /\ GapsFit(w, x) => s * TimeScale <= d * Second + x * Second
  BY DEF Behind
<1> HIDE DEF d, s
<1>3. p \in Int /\ p * TimeScale <= d * Second /\ d * Second < p * TimeScale + TimeScale
  BY <1>2, TickBounds
<1> HIDE DEF p
<1>4. d * Second \in Int /\ s * TimeScale \in Int /\ p * TimeScale \in Int /\ x * Second \in Int
  BY <1>1, <1>2, <1>3
<1>5. d <= timeToTs(s)
  BY <1>1, <1>2, <1>4, DivUnder DEF timeToTs
<1>6. p <= s
  <2>1. SUFFICES ASSUME s < p PROVE FALSE
    BY <1>2, <1>3
  <2>2. s + 1 <= p /\ s + 1 \in Int /\ (s + 1) * TimeScale = s * TimeScale + TimeScale
    BY <1>1, <1>2, <1>3, <2>1
  <2>3. (s + 1) * TimeScale <= p * TimeScale
    BY <1>1, <1>3, <2>2, MulLess
  <2>4. p * TimeScale <= s * TimeScale
    BY <1>2, <1>3, <1>4
  <2> QED BY <1>1, <1>4, <2>2, <2>3, <2>4
<1>7. GapsFit(w, x) => (s - p) * TimeScale <= (x + 1) * Second
  <2>1. (s - p) * TimeScale = s * TimeScale - p * TimeScale /\ (x + 1) * Second = x * Second + Second
    BY <1>1, <1>2, <1>3
  <2> QED BY <1>1, <1>2, <1>3, <1>4, <2>1
<1>8. 0 <= s - p
  BY <1>2, <1>3, <1>6
<1> QED BY <1>5, <1>7, <1>8 DEF d, s, p

\* Bytes in their place are what is read there.
BytesOf(d, at, n) == [j \in 1..n |-> IF at + j \in DOMAIN d THEN d[at + j] ELSE <<>>]
LEMMA PlacedRead ==
  ASSUME NEW X, NEW d \in Seq(X), NEW bytes \in Seq(X), NEW at, at - 8 \in Nat, Placed(d, at, bytes)
  PROVE  BytesOf(d, at - 8, Len(bytes)) = bytes
<1> DEFINE k == at - 8
           n == Len(bytes)
<1>1. k \in Nat /\ n \in Nat /\ DOMAIN bytes = 1..n /\ Len(d) \in Nat /\ DOMAIN d = 1..Len(d)
  BY SeqFacts
<1>2. k + n <= Len(d) /\ \A j \in 1..n : d[k + j] = bytes[j]
  BY <1>1 DEF Placed
<1> HIDE DEF k
<1>3. \A j \in 1..n : k + j \in DOMAIN d
  BY <1>1, <1>2
<1>4. BytesOf(d, k, n) = [j \in 1..n |-> bytes[j]]
  BY <1>2, <1>3 DEF BytesOf
<1>5. bytes = [j \in 1..n |-> bytes[j]]
  BY <1>1
<1> QED BY <1>4, <1>5 DEF k, n

-----------------------------------------------------------------------------
(* The packet that is read is the one that was written. *)
Right(t, i, p) ==
  LET w == written[t][i]
      late == Start(t, i) - p.time
  IN /\ Fits(data) => p.data = w.data
     /\ p.key = (w.key /\ Video(t))
     /\ p.cts = IF Video(t) THEN tsToTime(timeToTs(w.cts) % Wrap) ELSE 0
     /\ 0 <= late
     /\ (\A j \in 1..i - 1 : timeToTs(Gap(written[t], j)) < Wrap) => late * TimeScale <= i * Second

\* The data of a packet, where the cursor says.
SizeAt(tab, cur) == IF tab.fixed # 0 THEN tab.fixed ELSE tab.sizes[cur.sampleIndex + 1]
PlaceAt(tab, cur) == tab.offsets[cur.chunkIndex + 1] + cur.sampleOffsetInChunk - 8
DataAt(tab, cur, d) == BytesOf(d, PlaceAt(tab, cur), SizeAt(tab, cur))

\* The bytes at the cursor are the packet's.
LEMMA DataRead ==
  ASSUME NEW tab, NEW video, NEW w \in Seq(Pkt), NEW d \in Seq(Seq(Nat)),
         TableTells(tab, video, w), Laid(tab, w, d), Fits(d),
         NEW cur, Stands(tab, w, cur), cur.sampleIndex < Len(w)
  PROVE  DataAt(tab, cur, d) = w[cur.sampleIndex + 1].data
<1> DEFINE N == Len(w)
           x == cur.sampleIndex
           c == cur.chunkIndex
           a == cur.sampleIndexInChunk
           sizes == Sizes(w, N)
           first == SumTo(Pers(tab), c)
           at == tab.offsets[c + 1] + cur.sampleOffsetInChunk
           bytes == w[x + 1].data
<1>1. /\ N \in Nat /\ Pers(tab) \in Seq(Nat) /\ Total(Pers(tab)) = N
      /\ Len(Pers(tab)) = Len(tab.offsets) /\ Len(tab.offsets) \in Nat
      /\ \A i \in 1..N : sizes[i] = IF tab.fixed # 0 THEN tab.fixed ELSE tab.sizes[i]
  BY DEF TableTells
<1>2. /\ x \in Nat /\ x < N /\ InRun(Pers(tab), x, c, a)
      /\ cur.sampleOffsetInChunk = SumTo(sizes, x) - SumTo(sizes, x - a)
      /\ cur.sampleOffsetInChunk \in Nat
  BY DEF Stands, Cursor
<1>3. c \in Nat /\ c < Len(tab.offsets) /\ a \in Nat
  BY <1>1, <1>2, InRunEnd
<1>4. x = first + a /\ a < Pers(tab)[c + 1]
  BY <1>1, <1>2, <1>3 DEF InRun
<1>5. tab.offsets \in Seq(Nat)
  BY DEF Laid, Chunked
<1>6. DOMAIN tab.offsets = 1..Len(tab.offsets) /\ Len(tab.offsets) \in Nat
  BY <1>5, SeqFacts, Zenon
<1>7. c + 1 \in DOMAIN tab.offsets /\ (c + 1) - 1 = c
  BY <1>3, <1>6
<1>8. first \in Nat /\ x - a = first
  <2>1. \A i \in 1..Len(Pers(tab)) : Pers(tab)[i] \in Nat
    BY <1>1, SeqFacts
  <2>2. \A e \in 0..Len(Pers(tab)) : SumTo(Pers(tab), e) \in Nat
    BY <1>1, <2>1, SumGrows
  <2>3. c \in 0..Len(Pers(tab))
    BY <1>1, <1>3
  <2>4. first \in Nat
    BY <2>2, <2>3
  <2> QED BY <1>3, <1>4, <2>4
<1>9. a \in 0..Pers(tab)[c + 1] - 1
  <2>1. Pers(tab)[c + 1] \in Nat
    BY <1>1, <1>3, SeqFacts
  <2> QED BY <1>3, <1>4, <2>1
<1>10. Placed(d, tab.offsets[c + 1] + SumTo(sizes, first + a) - SumTo(sizes, first), w[first + a + 1].data)
  BY <1>7, <1>9 DEF Laid
<1>11. tab.offsets[c + 1] + SumTo(sizes, first + a) - SumTo(sizes, first) = at
  <2>1. SumTo(sizes, x) \in Nat /\ SumTo(sizes, x - a) \in Nat
    <3>1. \A i \in 1..N : sizes[i] \in Nat
      BY DEF TableTells
    <3>2. \A i \in 0..N : SumTo(sizes, i) \in Nat
      BY <1>1, <3>1, SumGrows
    <3>3. x \in 0..N /\ x - a \in 0..N
      BY <1>1, <1>2, <1>3, <1>8
    <3> QED BY <3>2, <3>3
  <2>2. tab.offsets[c + 1] \in Nat
    BY <1>5, <1>6, <1>7, SeqFacts
  <2>3. at = tab.offsets[c + 1] + (SumTo(sizes, x) - SumTo(sizes, x - a))
    BY <1>2
  <2> HIDE DEF at, sizes
  <2> QED BY <1>4, <1>8, <2>1, <2>2, <2>3
<1>12. Placed(d, at, bytes)
  BY <1>4, <1>10, <1>11
<1>13. bytes \in Seq(Seq(Nat)) /\ Len(bytes) = sizes[x + 1]
  <2>1. x + 1 \in 1..N
    BY <1>1, <1>2
  <2>2. w[x + 1] \in Pkt
    BY <2>1, SeqFacts
  <2>3. bytes \in Seq(Seq(Nat))
    BY <2>2 DEF Pkt
  <2>4. sizes[x + 1] = Len(w[x + 1].data)
    BY <2>1 DEF Sizes
  <2> QED BY <2>3, <2>4
<1>14. at - 8 \in Nat
  BY <1>12 DEF Placed
<1>15. BytesOf(d, at - 8, Len(bytes)) = bytes
  BY <1>12, <1>13, <1>14, PlacedRead
<1>16. (IF tab.fixed # 0 THEN tab.fixed ELSE tab.sizes[x + 1]) = Len(bytes)
  <2>1. x + 1 \in 1..N
    BY <1>1, <1>2
  <2> QED BY <1>1, <1>13, <2>1
<1>17. PlaceAt(tab, cur) = at - 8
  <2>1. tab.offsets[c + 1] \in Nat
    BY <1>5, <1>6, <1>7, SeqFacts
  <2> QED BY <1>2, <2>1 DEF PlaceAt
<1>18. SizeAt(tab, cur) = Len(bytes)
  BY <1>16 DEF SizeAt
<1> HIDE DEF at, bytes
<1>19. DataAt(tab, cur, d) = BytesOf(d, at - 8, Len(bytes))
  BY <1>17, <1>18 DEF DataAt
<1> QED BY <1>15, <1>19 DEF bytes

\* What the cursor says of the key frame.
KeyTold(tab, cur) == tab.synced /\ tab.sync[cur.syncSampleIndex + 1] - 1 = cur.sampleIndex
KeyThere(w, x, video) == w[x + 1].key /\ video

\* A sample is told to be a key frame if its packet was one and has a picture.
LEMMA KeyRead ==
  ASSUME NEW tab, NEW video \in BOOLEAN, NEW w, TableTells(tab, video, w),
         NEW cur, Stands(tab, w, cur), cur.sampleIndex < Len(w), isSampleValid(tab, cur)
  PROVE  KeyTold(tab, cur) <=> KeyThere(w, cur.sampleIndex, video)
<1> DEFINE x == cur.sampleIndex
           sync == tab.sync
<1>1. tab.synced = video /\ Len(w) \in Nat
  BY DEF TableTells
<1>2. CASE ~video
  BY <1>1, <1>2 DEF KeyTold, KeyThere
<1>3. CASE video
  <2>1. /\ sync \in Seq(Nat) /\ ToSet(sync) = {i \in 1..Len(w) : w[i].key}
        /\ \A i, j \in DOMAIN sync : i < j => sync[i] < sync[j]
    BY <1>3 DEF TableTells, Lists
  <2>2. x \in Nat /\ cur.syncSampleIndex = SyncBefore(sync, x) /\ cur.syncSampleIndex \in Nat
    BY <1>1, <1>3 DEF Stands, Cursor
  <2>3. cur.syncSampleIndex < Len(sync)
    BY <1>1, <1>3 DEF isSampleValid
  <2> HIDE DEF sync
  <2>4. sync # <<>>
    <3>1. Len(sync) # 0
      BY <2>1, <2>2, <2>3, SeqFacts
    <3> QED BY <2>1, <3>1, SeqFacts
  <2>5. sync[SyncBefore(sync, x) + 1] - 1 = x <=> x + 1 \in ToSet(sync)
    BY <2>1, <2>2, <2>4, SyncIsKey
  <2>6. x + 1 \in 1..Len(w)
    BY <1>1, <2>2
  <2>7. x + 1 \in ToSet(sync) <=> w[x + 1].key
    BY <2>1, <2>6
  <2> QED BY <1>1, <1>3, <2>2, <2>5, <2>7 DEF sync, KeyTold, KeyThere
<1> QED BY <1>2, <1>3

\* The composition time is the packet's, in whole ticks.
LEMMA CtsRead ==
  ASSUME NEW tab, NEW video \in BOOLEAN, NEW w \in Seq(Pkt), TableTells(tab, video, w),
         NEW cur, Stands(tab, w, cur), cur.sampleIndex < Len(w)
  PROVE  (IF tab.ctts = <<>> THEN 0 ELSE tsToTime(tab.ctts[cur.cttsEntryIndex + 1].offset))
           = (IF video THEN tsToTime(timeToTs(w[cur.sampleIndex + 1].cts) % Wrap) ELSE 0)
<1> DEFINE x == cur.sampleIndex
           n == Len(w)
           C == Column(tab.ctts, "count")
           e == cur.cttsEntryIndex
<1>1. CASE ~video
  BY <1>1 DEF TableTells
<1>2. CASE video
  <2>1. RunsOf(tab.ctts, "offset", Offsets(w), n) /\ n \in Nat
    BY <1>2 DEF TableTells
  <2>2. x \in Nat /\ x < n
    BY DEF Stands, Cursor
  <2>3. RunsTell(tab.ctts, C, "offset", Offsets(w), n)
    BY <2>1, RunsFacts
  <2>4. tab.ctts # <<>>
    <3>1. SUFFICES ASSUME tab.ctts = <<>> PROVE FALSE
      OBVIOUS
    <3>2. C \in Seq(Nat) /\ Total(C) = n /\ Len(C) = 0
      BY <2>3, <3>1 DEF RunsTell
    <3>3. SumTo(C, 0) = 0
      BY SumFacts
    <3> QED BY <2>1, <2>2, <3>2, <3>3 DEF Total
  <2>5. InRun(C, x, e, cur.sampleIndexInCttsEntry)
    BY <2>4 DEF Stands
  <2>6. e < Len(tab.ctts)
    <3>1. C \in Seq(Nat) /\ Total(C) = n /\ Len(C) = Len(tab.ctts)
      BY <2>3 DEF RunsTell
    <3> HIDE DEF C
    <3> QED BY <2>2, <2>5, <3>1, InRunEnd
  <2>7. Offsets(w)[x + 1] = tab.ctts[e + 1]["offset"]
    BY <2>1, <2>2, <2>5, <2>6, RunValue
  <2>8. Offsets(w)[x + 1] = timeToTs(w[x + 1].cts) % Wrap
    <3>1. x + 1 \in DOMAIN w
      BY <2>1, <2>2, SeqFacts
    <3> QED BY <3>1 DEF Offsets
  <2>9. tab.ctts[e + 1].offset = tab.ctts[e + 1]["offset"]
    OBVIOUS
  <2> QED BY <1>2, <2>4, <2>7, <2>8, <2>9
<1> QED BY <1>1, <1>2

\* readPacket tells the packet that was written.
LEMMA ReadRight ==
  ASSUME WrittenInv, MovieInv, CursorInv, opened = "ok", NEW t \in DOMAIN streams,
         isSampleValid(moov[t], cursors[t]), NEW p,
         p.time = tsToTime(cursors[t].dts),
         p.cts = IF moov[t].ctts = <<>> THEN 0 ELSE tsToTime(moov[t].ctts[cursors[t].cttsEntryIndex + 1].offset),
         p.key = (moov[t].synced
                    /\ moov[t].sync[cursors[t].syncSampleIndex + 1] - 1 = cursors[t].sampleIndex),
         p.data = DataAt(moov[t], cursors[t], data)
  PROVE  Right(t, cursors[t].sampleIndex + 1, p)
<1> DEFINE tab == moov[t]
           w == written[t]
           cur == cursors[t]
           x == cur.sampleIndex
<1>1. stage = "done" /\ AllStand(cursors)
  BY OpenStands
<1>2. TableTells(tab, Video(t), w) /\ Stands(tab, w, cur)
  BY <1>1, MovieTells DEF AllStand
<1>3. x < Len(w)
  BY <1>2, ValidIsBefore
<1>4. w \in Seq(Pkt) /\ data \in Seq(Seq(Nat)) /\ Laid(tab, w, data) /\ \A i \in DOMAIN w : Gap(w, i) >= 0
  BY <1>1 DEF WrittenInv, MovieInv
<1>5. Video(t) \in BOOLEAN
  <2>1. streams \in Tracks
    BY DEF WrittenInv
  <2> QED BY <2>1, TracksAre
<1>6. Fits(data) => p.data = w[x + 1].data
  BY <1>2, <1>3, <1>4, DataRead
<1>7. p.key = (w[x + 1].key /\ Video(t))
  <2>1. (tab.synced /\ tab.sync[cur.syncSampleIndex + 1] - 1 = x) <=> (w[x + 1].key /\ Video(t))
    <3>1. isSampleValid(tab, cur)
      OBVIOUS
    <3> HIDE DEF tab, w, cur
    <3>2. KeyTold(tab, cur) <=> KeyThere(w, cur.sampleIndex, Video(t))
      BY <1>2, <1>3, <1>5, <3>1, KeyRead
    <3> QED BY <3>2 DEF KeyTold, KeyThere
  <2>2. p.key = (tab.synced /\ tab.sync[cur.syncSampleIndex + 1] - 1 = x)
    OBVIOUS
  <2> QED BY <2>1, <2>2
<1>8. p.cts = IF Video(t) THEN tsToTime(timeToTs(w[x + 1].cts) % Wrap) ELSE 0
  <2>1. p.cts = IF tab.ctts = <<>> THEN 0 ELSE tsToTime(tab.ctts[cur.cttsEntryIndex + 1].offset)
    OBVIOUS
  <2> HIDE DEF tab, w, cur
  <2>2. (IF tab.ctts = <<>> THEN 0 ELSE tsToTime(tab.ctts[cur.cttsEntryIndex + 1].offset))
          = (IF Video(t) THEN tsToTime(timeToTs(w[x + 1].cts) % Wrap) ELSE 0)
    BY <1>2, <1>3, <1>4, <1>5, CtsRead
  <2> QED BY <2>1, <2>2, Zenon
<1>9. x \in Nat /\ cur.dts = SumTo(Durations(w), x)
  BY <1>2 DEF Stands, Cursor
<1>10. Behind(w, x)
  BY <1>3, <1>4, <1>9, StartsBehind
<1> DEFINE start == w[x + 1].time - w[1].time
<1>11. 0 <= start - p.time /\ (GapsFit(w, x) => (start - p.time) * TimeScale <= (x + 1) * Second)
  BY <1>9, <1>10, BehindLess
<1>12. Start(t, x + 1) = start
  BY DEF Start
<1>13. (\A j \in 1..(x + 1) - 1 : timeToTs(Gap(w, j)) < Wrap) => GapsFit(w, x)
  <2>1. (x + 1) - 1 = x
    BY <1>9
  <2> QED BY <2>1 DEF GapsFit
<1> QED BY <1>6, <1>7, <1>8, <1>11, <1>12, <1>13 DEF Right

\* A step of the reader, or one that changes nothing it was told of.
LEMMA ReaderSteps ==
  ASSUME WrittenInv, MovieInv, CursorInv, [Next]_vars
  PROVE  \/ last' = <<>>
         \/ ReadPacket
         \/ \E tm \in SeekTimes : SeekToTime(tm)
         \/ UNCHANGED << streams, moov, written, data, cursors, last >>
<1>1. CASE opened # "ok"
  <2>1. last = <<>>
    BY <1>1 DEF CursorInv
  <2>2. UNCHANGED last \/ Open
    BY <1>1, <2>1 DEF Next, vars, readVars, WritePacket, Trailer, WriteSize, WriteMovie, Crash, Remux,
       Reopen, ReadPacket, SeekToTime
  <2> QED BY <2>1, <2>2 DEF Open
<1>2. CASE opened = "ok"
  <2>1. stage = "done" /\ UNCHANGED << streams, moov, written, data, stage >>
    BY <1>2, OpenStands, DoneStays
  <2>2. \/ UNCHANGED << cursors, last >> \/ ReadPacket
        \/ \E tm \in SeekTimes : SeekToTime(tm)
    BY <1>2 DEF Next, vars, readVars, WritePacket, Trailer, WriteSize, WriteMovie, Crash, Remux,
       Open, Reopen
  <2> QED BY <2>1, <2>2
<1> QED BY <1>1, <1>2

(* ReadsWritten: every packet that is read is the one written in its place, with
   its data, its key flag and its times up to a tick for each packet before it. *)
THEOREM ReadsRight == Spec => []ReadsWritten
<1>1. Init => ReadsWritten
  BY DEF Init, ReadsWritten, Is
<1>2. ASSUME FileInv, ReadsWritten, [Next]_vars PROVE ReadsWritten'
  <2>1. WrittenInv /\ MovieInv /\ CursorInv
    BY <1>2 DEF FileInv
  <2>2. CASE last' = <<>>
    BY <2>2 DEF ReadsWritten, Is
  <2>3. CASE ReadPacket
    <3> DEFINE t == Chosen
               cur == cursors[t]
               tab == moov[t]
    <3>1. opened = "ok" /\ streams # <<>> /\ written' = written /\ streams' = streams /\ data' = data
      BY <2>3 DEF ReadPacket, muxVars
    <3>2. t \in DOMAIN streams
      BY <2>1, <3>1, ChosenIs
    <3>3. CASE isSampleValid(tab, cur)
      <4> DEFINE p == [time |-> tsToTime(cur.dts),
                       cts |-> IF tab.ctts = <<>> THEN 0 ELSE tsToTime(tab.ctts[cur.cttsEntryIndex + 1].offset),
                       key |-> tab.synced /\ tab.sync[cur.syncSampleIndex + 1] - 1 = cur.sampleIndex,
                       data |-> DataAt(tab, cur, data)]
      <4>1. last' = [op |-> "packet", track |-> t, index |-> cur.sampleIndex + 1, pkt |-> p]
        BY <2>3, <3>3 DEF ReadPacket, BytesAt, BytesOf, DataAt, PlaceAt, SizeAt
      <4>2. Right(t, cur.sampleIndex + 1, p)
        BY <2>1, <3>1, <3>2, <3>3, ReadRight
      <4> HIDE DEF p, t, cur
      <4>3. last'.track = t /\ last'.index = cur.sampleIndex + 1 /\ last'.pkt = p
        BY <4>1
      <4>4. Right(last'.track, last'.index, last'.pkt)
        BY <4>2, <4>3
      <4> QED BY <3>1, <4>4 DEF ReadsWritten, Right, Start, Video, Size, Fits
    <3>4. CASE ~isSampleValid(tab, cur)
      <4>1. last' = [op |-> "eof", track |-> t]
        BY <2>3, <3>4 DEF ReadPacket
      <4> HIDE DEF t
      <4> QED BY <4>1 DEF ReadsWritten, Is
    <3> QED BY <3>3, <3>4
  <2>4. CASE \E tm \in SeekTimes : SeekToTime(tm)
    <3>1. PICK tm \in SeekTimes : SeekToTime(tm)
      BY <2>4
    <3>2. last' = [op |-> IF HeardFrom(Seen(tm), tm).ok THEN "seek" ELSE "failed", time |-> tm]
      BY <3>1 DEF SeekToTime, Told
    <3>3. last'.op # "packet"
      BY <3>2
    <3> QED BY <3>3 DEF ReadsWritten, Is
  <2>5. CASE UNCHANGED << streams, moov, written, data, cursors, last >>
    BY <1>2, <2>5 DEF ReadsWritten, Is, Start, Video, Size
  <2> QED BY <1>2, <2>1, <2>2, <2>3, <2>4, <2>5, ReaderSteps
<1> QED BY <1>1, <1>2, FileAgrees, PTL DEF Spec

-----------------------------------------------------------------------------
(* The end that is told is the end. *)
\* A cursor before the end is valid, if the table's sizes and keys let it be.
LEMMA BeforeIsValid ==
  ASSUME NEW tab, NEW video, NEW w, TableTells(tab, video, w), NEW cur, Stands(tab, w, cur),
         cur.sampleIndex < Len(w), tab.fixed = 0, tab.synced => tab.sync # <<>>
  PROVE  isSampleValid(tab, cur)
<1> DEFINE n == Len(w)
           x == cur.sampleIndex
           T == Column(tab.stts, "count")
           C == Column(tab.ctts, "count")
<1>1. /\ n \in Nat /\ Pers(tab) \in Seq(Nat) /\ Total(Pers(tab)) = n /\ Len(Pers(tab)) = Len(tab.offsets)
      /\ Len(tab.offsets) \in Nat
  BY DEF TableTells
<1>2. /\ x \in Nat /\ x < n
      /\ InRun(Pers(tab), x, cur.chunkIndex, cur.sampleIndexInChunk)
      /\ InRun(T, x, cur.sttsEntryIndex, cur.sampleIndexInSttsEntry)
  BY DEF Stands, Cursor
<1>3. cur.chunkIndex \in Nat /\ cur.chunkIndex < Len(tab.offsets)
  BY <1>1, <1>2, InRunEnd
<1>4. cur.chunkGroupIndex < Len(tab.groups)
  <2> DEFINE gs == tab.groups
  <2>1. gs \in Seq([first : Nat, per : Nat])
    BY DEF TableTells
  <2>2. tab.offsets # <<>>
    BY <1>3
  <2>3. gs # <<>>
    BY <2>2 DEF TableTells
  <2> HIDE DEF gs
  <2>4. Len(gs) \in Nat \ {0}
    BY <2>1, <2>3, SeqFacts
  <2>5. cur.chunkGroupIndex = GroupOf(tab, cur.chunkIndex)
    BY DEF Stands
  <2>6. \A c \in Nat : GroupOf(tab, c) < Len(tab.groups)
    BY <2>4, GroupBelow DEF gs
  <2> QED BY <1>3, <2>5, <2>6
<1>5. cur.sttsEntryIndex < Len(tab.stts)
  <2>1. RunsTell(tab.stts, T, "duration", Durations(w), n)
    BY RunsFacts DEF TableTells
  <2>2. T \in Seq(Nat) /\ Total(T) = n /\ Len(T) = Len(tab.stts)
    BY <2>1 DEF RunsTell
  <2> HIDE DEF T
  <2> QED BY <1>2, <2>2, InRunEnd
<1>6. ASSUME tab.ctts # <<>> PROVE cur.cttsEntryIndex < Len(tab.ctts)
  <2>1. RunsTell(tab.ctts, C, "offset", Offsets(w), n)
    BY <1>6, RunsFacts DEF TableTells
  <2>2. C \in Seq(Nat) /\ Total(C) = n /\ Len(C) = Len(tab.ctts)
    BY <2>1 DEF RunsTell
  <2>3. InRun(C, x, cur.cttsEntryIndex, cur.sampleIndexInCttsEntry)
    BY <1>6 DEF Stands
  <2> HIDE DEF C
  <2> QED BY <1>2, <2>2, <2>3, InRunEnd
<1>7. ASSUME tab.synced PROVE cur.syncSampleIndex < Len(tab.sync)
  <2> DEFINE sync == tab.sync
  <2>1. sync \in Seq(Nat) /\ sync # <<>>
    BY <1>7 DEF TableTells, Lists
  <2>2. cur.syncSampleIndex = SyncBefore(sync, x)
    BY <1>7 DEF Stands
  <2> HIDE DEF sync
  <2>3. KeyPlace(sync, x, SyncBefore(sync, x))
    BY <1>2, <2>1, SyncBeforeFacts
  <2>4. Len(sync) \in Nat /\ SyncBefore(sync, x) \in 0..Len(sync) - 1
    BY <2>1, <2>3, SeqFacts DEF KeyPlace
  <2>5. cur.syncSampleIndex < Len(sync)
    BY <2>2, <2>4
  <2> QED BY <2>5 DEF sync
<1> QED BY <1>3, <1>4, <1>5, <1>6, <1>7 DEF isSampleValid

(* EndIsEnd: an end that is told is the end of the track that is least far. *)
THEOREM EndsAtTheEnd == Spec => []EndIsEnd
<1>1. Init => EndIsEnd
  BY DEF Init, EndIsEnd, Is
<1>2. ASSUME FileInv, EndIsEnd, [Next]_vars PROVE EndIsEnd'
  <2>1. WrittenInv /\ MovieInv /\ CursorInv
    BY <1>2 DEF FileInv
  <2>2. CASE last' = <<>>
    BY <2>2 DEF EndIsEnd, Is
  <2>3. CASE ReadPacket
    <3> DEFINE t == Chosen
               cur == cursors[t]
               tab == moov[t]
    <3>1. opened = "ok" /\ streams # <<>> /\ written' = written /\ moov' = moov
      BY <2>3 DEF ReadPacket, muxVars
    <3>2. t \in DOMAIN streams /\ \A u \in DOMAIN streams : Time(t) <= Time(u)
      BY <2>1, <3>1, ChosenIs
    <3>3. stage = "done" /\ AllStand(cursors)
      BY <2>1, <3>1, OpenStands
    <3>4. CASE isSampleValid(tab, cur)
      <4>1. last'.op = "packet"
        BY <2>3, <3>4 DEF ReadPacket
      <4> QED BY <4>1 DEF EndIsEnd, Is
    <3>5. CASE ~isSampleValid(tab, cur)
      <4>1. last' = [op |-> "eof", track |-> t] /\ cursors' = cursors
        BY <2>3, <3>5 DEF ReadPacket
      <4>2. ASSUME Readable(t) PROVE cur.sampleIndex = Len(written[t])
        <5>1. TableTells(tab, Video(t), written[t]) /\ Stands(tab, written[t], cur)
          BY <2>1, <3>2, <3>3, MovieTells DEF AllStand
        <5>2. tab.fixed = 0 /\ (tab.synced => tab.sync # <<>>)
          BY <4>2 DEF Readable
        <5>3. ~(cur.sampleIndex < Len(written[t]))
          BY <3>5, <5>1, <5>2, BeforeIsValid
        <5>4. Len(written[t]) \in Nat /\ cur.sampleIndex \in Nat /\ cur.sampleIndex <= Len(written[t])
          BY <5>1 DEF TableTells, Stands, Cursor
        <5> QED BY <5>3, <5>4
      <4>3. \A u \in DOMAIN streams : Time(u) \in Nat
        <5> TAKE u \in DOMAIN streams
        <5>1. Stands(moov[u], written[u], cursors[u])
          BY <3>3 DEF AllStand
        <5>2. cursors[u].dts \in Nat
          BY <5>1 DEF Stands, Cursor
        <5> QED BY <5>2, TicksFacts DEF Time
      <4>4. \A u \in DOMAIN streams : Time(u) >= Time(t)
        BY <3>2, <4>3
      <4>5. DOMAIN cursors = DOMAIN streams
        BY <3>3 DEF AllStand
      <4> HIDE DEF t
      <4>6. last'.track = t
        BY <4>1
      <4> QED BY <3>1, <4>1, <4>2, <4>4, <4>5, <4>6 DEF EndIsEnd, Readable, Time
    <3> QED BY <3>4, <3>5
  <2>4. CASE \E tm \in SeekTimes : SeekToTime(tm)
    <3>1. PICK tm \in SeekTimes : SeekToTime(tm)
      BY <2>4
    <3>2. last' = [op |-> IF HeardFrom(Seen(tm), tm).ok THEN "seek" ELSE "failed", time |-> tm]
      BY <3>1 DEF SeekToTime, Told
    <3>3. last'.op # "eof"
      BY <3>2
    <3> QED BY <3>3 DEF EndIsEnd, Is
  <2>5. CASE UNCHANGED << streams, moov, written, data, cursors, last >>
    BY <1>2, <2>5 DEF EndIsEnd, Is, Readable, Time
  <2> QED BY <1>2, <2>1, <2>2, <2>3, <2>4, <2>5, ReaderSteps
<1> QED BY <1>1, <1>2, FileAgrees, PTL DEF Spec

-----------------------------------------------------------------------------
(* Where a seek lands. *)
\* The sums of a track's ticks.
LEMMA TicksSum ==
  ASSUME NEW tab, NEW video, NEW w, TableTells(tab, video, w)
  PROVE  /\ Len(w) \in Nat
         /\ \A x \in 0..Len(w) : SumTo(Durations(w), x) \in Nat
         /\ \A x, y \in 0..Len(w) : x <= y => SumTo(Durations(w), x) <= SumTo(Durations(w), y)
<1>1. Len(w) \in Nat /\ \A i \in 1..Len(w) : Durations(w)[i] \in Nat
  BY DEF TableTells
<1> QED BY <1>1, SumGrows

\* The picture: a key frame and not after the moment, if there is one by then.
LEMMA PictureLands ==
  ASSUME NEW tab, NEW w \in Seq(Pkt), \A i \in DOMAIN w : Gap(w, i) >= 0, NEW video, TableTells(tab, video, w),
         NEW tm \in Nat, NEW x, SoughtAt(tab, TRUE, w, timeToTs(tm), x), Short(tab),
         NEW k \in DOMAIN w, w[k].key, timeToTs(w[k].time - w[1].time) <= timeToTs(tm)
  PROVE  w[x + 1].key /\ x \in Nat /\ x < Len(w) /\ tsToTime(SumTo(Durations(w), x)) <= tm
<1> DEFINE n == Len(w)
           D == Durations(w)
           T == timeToTs(tm)
<1>1. /\ n \in Nat /\ \A y \in 0..n : SumTo(D, y) \in Nat
      /\ \A y, z \in 0..n : y <= z => SumTo(D, y) <= SumTo(D, z)
  BY TicksSum
<1>2. DOMAIN w = 1..n
  BY SeqFacts
<1>3. PICK g : TimeAt(tab, w, T, g) /\ LastKey(TRUE, w, g, x)
  BY DEF SoughtAt
<1>4. T \in Nat /\ tsToTime(T) \in Nat
  BY TicksFacts
<1>5. g \in 0..n - 1 /\ SumTo(D, g) <= T /\ (g = n - 1 \/ T < SumTo(D, g + 1))
  BY <1>3 DEF TimeAt
<1>6. SumTo(D, k - 1) <= T
  <2>1. k - 1 \in Nat /\ k - 1 < n /\ (k - 1) + 1 = k
    BY <1>1, <1>2
  <2>2. Behind(w, k - 1)
    BY <2>1, StartsBehind
  <2>3. SumTo(D, k - 1) <= timeToTs(w[(k - 1) + 1].time - w[1].time)
    BY <2>1, <2>2, BehindLess
  <2> DEFINE s == timeToTs(w[k].time - w[1].time)
  <2>4. SumTo(D, k - 1) <= s /\ s <= T
    BY <2>1, <2>3
  <2>5. SumTo(D, k - 1) \in Nat
    BY <1>1, <2>1
  <2>6. s \in Int
    <3>1. w[(k - 1) + 1].time - w[1].time \in Nat
      BY <2>2 DEF Behind
    <3> QED BY <2>1, <3>1, TicksFacts
  <2> HIDE DEF s, T, D
  <2> QED BY <1>4, <2>4, <2>5, <2>6
<1> HIDE DEF n, D, T
<1>7. k - 1 <= g
  <2>1. SUFFICES ASSUME g < k - 1 PROVE FALSE
    BY <1>1, <1>2, <1>5
  <2>2. g # n - 1 /\ g + 1 <= k - 1 /\ g + 1 \in 0..n /\ k - 1 \in 0..n
    BY <1>1, <1>2, <1>5, <2>1
  <2>3. SumTo(D, g + 1) <= SumTo(D, k - 1) /\ SumTo(D, g + 1) \in Nat /\ SumTo(D, k - 1) \in Nat
    BY <1>1, <2>2
  <2> QED BY <1>4, <1>5, <1>6, <2>2, <2>3
<1>8. w[x + 1].key /\ x \in Nat /\ x <= g
  <2>1. CASE \E i \in 1..Len(w) : w[i].key /\ i - 1 < g
    <3>1. x \in 0..g - 1 /\ w[x + 1].key
      BY <1>3, <2>1 DEF LastKey
    <3> QED BY <1>5, <3>1
  <2>2. CASE ~\E i \in 1..Len(w) : w[i].key /\ i - 1 < g
    <3>1. x = g
      BY <1>3, <2>2 DEF LastKey
    <3>2. k \in 1..Len(w) /\ ~(k - 1 < g)
      BY <1>2, <2>2 DEF n
    <3>3. k - 1 = g /\ k = g + 1
      BY <1>1, <1>5, <1>7, <3>2
    <3> QED BY <1>5, <3>1, <3>3
  <2> QED BY <2>1, <2>2
<1>9. SumTo(D, x) <= T /\ SumTo(D, x) \in Nat /\ x < n
  <2>1. x \in 0..n /\ g \in 0..n /\ x < n
    BY <1>1, <1>5, <1>8
  <2>2. SumTo(D, x) <= SumTo(D, g) /\ SumTo(D, x) \in Nat /\ SumTo(D, g) \in Nat
    BY <1>1, <1>8, <2>1
  <2> QED BY <1>4, <1>5, <2>1, <2>2
<1>10. tsToTime(SumTo(D, x)) <= tsToTime(T)
  BY <1>4, <1>9, TickOrder
<1>11. tsToTime(T) <= tm
  BY TickTrips DEF T
<1>12. tsToTime(SumTo(D, x)) \in Nat
  BY <1>9, TicksFacts
<1>13. tsToTime(SumTo(D, x)) <= tm
  BY <1>4, <1>10, <1>11, <1>12
<1> QED BY <1>8, <1>9, <1>13 DEF n, D

\* The sound: the sample of the picture's moment, or the one before it.
LEMMA SoundLands ==
  ASSUME NEW tab, NEW video, NEW w, TableTells(tab, video, w), NEW dts \in Nat,
         NEW x, x + 1 < Len(w), TimeAt(tab, w, timeToTs(tsToTime(dts)), x), Short(tab)
  PROVE  SumTo(Durations(w), x) <= dts /\ dts <= SumTo(Durations(w), x + 1)
<1> DEFINE n == Len(w)
           D == Durations(w)
           T == timeToTs(tsToTime(dts))
<1>1. n \in Nat /\ \A y \in 0..n : SumTo(D, y) \in Nat
  BY TicksSum
<1>2. x \in 0..n - 1 /\ SumTo(D, x) <= T /\ (x = n - 1 \/ T < SumTo(D, x + 1))
  BY DEF TimeAt
<1>3. T \in Nat /\ T <= dts /\ dts <= T + 1
  BY TicksFacts, TickTrips
<1> HIDE DEF D, T
<1>4. x # n - 1 /\ x \in 0..n /\ x + 1 \in 0..n
  BY <1>1, <1>2
<1>5. SumTo(D, x) \in Nat /\ SumTo(D, x + 1) \in Nat
  BY <1>1, <1>4
<1>6. SumTo(D, x) <= dts /\ dts <= SumTo(D, x + 1)
  BY <1>2, <1>3, <1>4, <1>5
<1> QED BY <1>6 DEF D

Lands(cs, tm) ==
  /\ \A t \in DOMAIN cs : First(t) =>
       LET i == cs[t].sampleIndex + 1
       IN (\E k \in DOMAIN written[t] :
             written[t][k].key /\ timeToTs(Start(t, k)) <= timeToTs(tm))
            => written[t][i].key /\ tsToTime(cs[t].dts) <= tm
  /\ \A v, a \in DOMAIN cs :
       First(v) /\ ~Video(a) /\ cs[a].sampleIndex + 1 < Len(written[a]) =>
         /\ cs[a].dts <= cs[v].dts
         /\ cs[v].dts <= incSampleIndex(moov[a], cs[a]).dts

\* A seek that has gone well lands where SeekLands says.
LEMMA ResultLands ==
  ASSUME WrittenInv, MovieInv, stage = "done", NEW cs, NEW tm \in Nat, SeekResult(cs, tm), RunsFit
  PROVE  Lands(cs, tm)
<1>1. AllStand(cs) /\ DOMAIN cs = DOMAIN streams
  BY DEF SeekResult, AllStand
<1>2. \A t \in DOMAIN streams :
        /\ TableTells(moov[t], Video(t), written[t]) /\ Stands(moov[t], written[t], cs[t])
        /\ written[t] \in Seq(Pkt) /\ \A i \in DOMAIN written[t] : Gap(written[t], i) >= 0
  BY <1>1, MovieTells DEF AllStand, WrittenInv
<1>6. \A t \in DOMAIN streams : Short(moov[t])
  <2>1. DOMAIN moov = DOMAIN streams
    BY DEF MovieInv
  <2> QED BY <2>1 DEF RunsFit, Short
<1>3. \A t \in DOMAIN streams :
        cs[t].sampleIndex \in Nat /\ cs[t].dts \in Nat /\ cs[t].dts = SumTo(Durations(written[t]), cs[t].sampleIndex)
  BY <1>2 DEF Stands, Cursor
<1>4. ASSUME NEW t \in DOMAIN streams, First(t), NEW k \in DOMAIN written[t],
             written[t][k].key, timeToTs(Start(t, k)) <= timeToTs(tm)
      PROVE  written[t][cs[t].sampleIndex + 1].key /\ tsToTime(cs[t].dts) <= tm
  <2> DEFINE w == written[t]
             x == cs[t].sampleIndex
             tab == moov[t]
             video == Video(t)
  <2>1. SoughtAt(tab, TRUE, w, timeToTs(tm), x)
    BY <1>4 DEF SeekResult
  <2>2. w[k].key /\ timeToTs(w[k].time - w[1].time) <= timeToTs(tm) /\ k \in DOMAIN w
    BY <1>4 DEF Start
  <2>3. w \in Seq(Pkt) /\ (\A i \in DOMAIN w : Gap(w, i) >= 0) /\ TableTells(tab, video, w) /\ Short(tab)
    BY <1>2, <1>6
  <2>4. cs[t].dts = SumTo(Durations(w), x)
    BY <1>3
  <2> HIDE DEF w, x, tab, video
  <2>5. w[x + 1].key /\ tsToTime(SumTo(Durations(w), x)) <= tm
    BY <2>1, <2>2, <2>3, PictureLands
  <2> QED BY <2>4, <2>5 DEF w, x
<1>5. ASSUME NEW v \in DOMAIN streams, NEW a \in DOMAIN streams,
             First(v), ~Video(a), cs[a].sampleIndex + 1 < Len(written[a])
      PROVE  cs[a].dts <= cs[v].dts /\ cs[v].dts <= incSampleIndex(moov[a], cs[a]).dts
  <2> DEFINE w == written[a]
             x == cs[a].sampleIndex
             tab == moov[a]
             video == Video(a)
             cur == cs[a]
             dts == cs[v].dts
             inc == incSampleIndex(tab, cur)
  <2>1. TimeAt(tab, w, timeToTs(tsToTime(dts)), x)
    BY <1>5 DEF SeekResult
  <2>2. dts \in Nat /\ x \in Nat /\ cur.dts = SumTo(Durations(w), x) /\ cur.sampleIndex = x
    BY <1>3
  <2>3. TableTells(tab, video, w) /\ Stands(tab, w, cur) /\ Len(w) \in Nat /\ x + 1 < Len(w) /\ Short(tab)
    BY <1>2, <1>5, <1>6 DEF TableTells
  <2> HIDE DEF w, tab, video, dts, cur, x
  <2>4. SumTo(Durations(w), x) <= dts /\ dts <= SumTo(Durations(w), x + 1)
    BY <2>1, <2>2, <2>3, SoundLands
  <2>5. Stands(tab, w, inc) /\ inc.sampleIndex = x + 1
    BY <2>2, <2>3, NextStands
  <2>6. inc.dts = SumTo(Durations(w), x + 1)
    BY <2>5 DEF Stands
  <2> QED BY <2>2, <2>4, <2>6 DEF cur, dts, tab
<1> QED BY <1>1, <1>4, <1>5 DEF Lands

(* SeekLands: a seek lands on a key frame not after the moment, and the sound at
   the sample of the picture's moment or the one before it. *)
THEOREM SeeksLand == Spec => []SeekLands
<1>1. Init => SeekLands
  BY DEF Init, SeekLands, Is
<1>2. ASSUME FileInv, SeekLands, [Next]_vars PROVE SeekLands'
  <2>1. WrittenInv /\ MovieInv /\ CursorInv
    BY <1>2 DEF FileInv
  <2>2. CASE last' = <<>>
    BY <2>2 DEF SeekLands, Is
  <2>3. CASE ReadPacket
    <3>1. last'.op # "seek"
      BY <2>3 DEF ReadPacket
    <3> QED BY <3>1 DEF SeekLands, Is
  <2>4. CASE \E tm \in SeekTimes : SeekToTime(tm)
    <3>1. PICK tm \in SeekTimes : SeekToTime(tm)
      BY <2>4
    <3> DEFINE heard == HeardFrom(Seen(tm), tm)
    <3>2. /\ opened = "ok" /\ moov' = moov /\ written' = written /\ streams' = streams
          /\ cursors' = heard.cursors
          /\ last' = [op |-> IF heard.ok THEN "seek" ELSE "failed", time |-> tm]
      BY <3>1 DEF SeekToTime, Told, muxVars
    <3>3. tm \in Nat
      BY TimesAssumption
    <3>4. heard.ok => SeekResult(heard.cursors, tm)
      BY <2>1, <3>2, <3>3, SeekTells
    <3> HIDE DEF heard
    <3>7. SUFFICES ASSUME RunsFit' PROVE SeekLands'
      BY DEF SeekLands
    <3>5. CASE heard.ok
      <4>1. stage = "done" /\ RunsFit
        BY <2>1, <3>2, <3>7, OpenStands DEF RunsFit, Spans, Spans32
      <4>2. Lands(cursors', tm)
        BY <2>1, <3>2, <3>3, <3>4, <3>5, <4>1, ResultLands
      <4>3. last'.time = tm
        BY <3>2
      <4>4. Lands(cursors', last'.time)
        BY <4>2, <4>3
      <4> QED BY <3>2, <4>4 DEF Lands, SeekLands, First, Video, Start, Time
    <3>6. CASE ~heard.ok
      <4>1. last'.op # "seek"
        BY <3>2, <3>6
      <4> QED BY <4>1 DEF SeekLands, Is
    <3> QED BY <3>5, <3>6
  <2>5. CASE UNCHANGED << streams, moov, written, data, cursors, last >>
    <3>1. RunsFit' <=> RunsFit
      BY <2>5 DEF RunsFit, Spans, Spans32
    <3> QED BY <1>2, <2>5, <3>1 DEF SeekLands, Is, First, Video, Start, Time
  <2> QED BY <1>2, <2>1, <2>2, <2>3, <2>4, <2>5, ReaderSteps
<1> QED BY <1>1, <1>2, FileAgrees, PTL DEF Spec
=============================================================================
