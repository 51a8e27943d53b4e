-------------------------- MODULE ModeSelectProofs --------------------------
(***************************************************************************)
(* Theorems of ModeSelect, for every display, configuration and movie: its *)
(* types, that the list of modes has no duplicates, that no bad mode is    *)
(* found, and that among usual rates the best one is.  Both the list and   *)
(* the search are folds of a sequence.  What a fold keeps is proved by     *)
(* induction on the prefixes of the sequence; the induction is the least   *)
(* element of a set of counterexamples.                                    *)
(***************************************************************************)
EXTENDS ModeSelect, WellFoundedInduction, FiniteSetTheorems, TLAPS

-----------------------------------------------------------------------------
(* Least and greatest numbers, and induction up to a bound *)

\* Of the prefixes of S, which are finite, one contains no other.
LEMMA LeastExists ==
  ASSUME NEW S \in SUBSET Nat, S # {}
  PROVE  \E m \in S : \A n \in S : m <= n
<1> DEFINE Upto(m) == S \cap (0..m)
           Starts == {Upto(m) : m \in S}
<1>1. Starts \subseteq FiniteSubsetsOf(S) /\ Starts # {}
  <2>1. \A m \in S : IsFiniteSet(0..m)
    BY FS_Interval
  <2>2. \A m \in S : IsFiniteSet(Upto(m))
    BY <2>1, FS_Intersection
  <2> QED BY <2>2 DEF FiniteSubsetsOf
<1>2. IsWellFoundedOn(StrictSubsetOrdering(S), FiniteSubsetsOf(S))
  BY FS_StrictSubsetOrderingWellFounded
<1> HIDE DEF Starts
<1>3. \E X \in Starts : \A Y \in Starts : <<Y, X>> \notin StrictSubsetOrdering(S)
  BY <1>1, <1>2, WFMin
<1> USE DEF Starts
<1>4. PICK m \in S : \A n \in S : <<Upto(n), Upto(m)>> \notin StrictSubsetOrdering(S)
  BY <1>3
<1>5. ASSUME NEW n \in S, n < m PROVE FALSE
  <2>1. Upto(n) \subseteq Upto(m) /\ m \in Upto(m) /\ m \notin Upto(n)
    BY <1>5
  <2> QED BY <1>4, <1>5, <2>1 DEF StrictSubsetOrdering
<1>6. \A n \in S : m <= n
  BY <1>5
<1> QED BY <1>6

\* What holds of 0, and of a number up to N if it holds of the one before.
LEMMA Upward ==
  ASSUME NEW N \in Nat, NEW P, 0 \in P, \A n \in 1..N : n - 1 \in P => n \in P
  PROVE  0..N \subseteq P
<1> SUFFICES ASSUME (0..N) \ P # {} PROVE FALSE
  OBVIOUS
<1> DEFINE missing == (0..N) \ P
<1>1. PICK m \in missing : \A n \in missing : m <= n
  <2>1. missing \in SUBSET Nat /\ missing # {}
    OBVIOUS
  <2> HIDE DEF missing
  <2> QED BY <2>1, LeastExists
<1>2. m \in 1..N /\ m - 1 \in 0..N /\ ~(m <= m - 1)
  BY <1>1
<1> QED BY <1>1, <1>2

LEMMA GreatestExists ==
  ASSUME NEW N \in Nat, NEW t \in SUBSET (1..N), t # {}
  PROVE  Max(t) \in t /\ \A n \in t : n <= Max(t)
<1> DEFINE below == {N - n : n \in t}
<1>1. below \subseteq Nat /\ below # {}
  <2>1. \A n \in t : n \in Int /\ N - n \in Nat
    OBVIOUS
  <2> QED BY <2>1
<1>2. PICK b \in below : \A c \in below : b <= c
  <2> HIDE DEF below
  <2> QED BY <1>1, LeastExists
<1>3. PICK m \in t : b = N - m
  BY <1>2
<1>4. ASSUME NEW n \in t PROVE m >= n
  <2>1. N - n \in below
    OBVIOUS
  <2>2. N - m <= N - n
    BY <1>2, <1>3, <2>1
  <2>3. m \in Int /\ n \in Int
    BY <1>3
  <2> QED BY <2>2, <2>3
<1>5. Max(t) \in t /\ \A n \in t : Max(t) >= n
  BY <1>4 DEF Max
<1> QED BY <1>5

LEMMA GreatestIs ==
  ASSUME NEW N \in Nat, NEW t \in SUBSET (1..N), NEW n \in t, \A k \in t : k <= n
  PROVE  Max(t) = n
<1>1. t # {}
  OBVIOUS
<1>2. Max(t) \in t /\ n <= Max(t) /\ Max(t) <= n
  BY <1>1, GreatestExists
<1>3. \A k \in t : k \in Int
  OBVIOUS
<1> DEFINE m == Max(t)
<1>4. m \in Int /\ n \in Int /\ n <= m /\ m <= n
  BY <1>2, <1>3
<1> HIDE DEF m
<1>5. m = n
  BY <1>4
<1> QED BY <1>5 DEF m

-----------------------------------------------------------------------------
(* Folds *)

\* g folds the elements at the positions t by F, the last one last.
IsFold(g, n, base, F) ==
  \A t \in SUBSET (1..n) :
    g[t] = IF t = {} THEN base ELSE F[<<Max(t), g[t \ {Max(t)}]>>]

\* The function by which a fold is defined exists, whatever F adds to what has been
\* gathered so far.
LEMMA FoldExists ==
  ASSUME NEW N \in Nat, NEW Acc, NEW base \in Acc, NEW F \in [(1..N) \X Acc -> Acc]
  PROVE  \E g \in [SUBSET (1..N) -> Acc] : IsFold(g, N, base, F)
<1> DEFINE Folds(g, n) == IsFold(g, n, base, F)
           P == {n \in 0..N : \E g \in [SUBSET (1..n) -> Acc] : Folds(g, n)}
<1>1. 0 \in P
  <2> DEFINE g == [t \in SUBSET (1..0) |-> base]
  <2>1. \A t \in SUBSET (1..0) : t = {}
    OBVIOUS
  <2>2. g \in [SUBSET (1..0) -> Acc]
    OBVIOUS
  <2>3. Folds(g, 0)
    BY <2>1 DEF IsFold
  <2> HIDE DEF g
  <2>4. 0 \in 0..N
    OBVIOUS
  <2> HIDE DEF Folds
  <2> QED BY <2>2, <2>3, <2>4
<1>2. ASSUME NEW n \in 1..N, n - 1 \in P PROVE n \in P
  <2>1. n \in Nat
    OBVIOUS
  <2>2. PICK g \in [SUBSET (1..n - 1) -> Acc] : Folds(g, n - 1)
    BY <1>2
  <2> DEFINE h == [t \in SUBSET (1..n) |->
                     IF n \in t THEN F[<<n, g[t \ {n}]>>] ELSE g[t]]
  <2>3. \A t \in SUBSET (1..n) : /\ t \ {n} \in SUBSET (1..n - 1)
                                 /\ n \notin t => t \in SUBSET (1..n - 1)
    OBVIOUS
  <2>4. h \in [SUBSET (1..n) -> Acc]
    BY <2>3
  <2>5. ASSUME NEW t \in SUBSET (1..n)
        PROVE  h[t] = IF t = {} THEN base ELSE F[<<Max(t), h[t \ {Max(t)}]>>]
    <3>1. CASE n \in t
      <4>1. Max(t) = n
        <5>1. \A k \in t : k <= n
          OBVIOUS
        <5> QED BY <2>1, <3>1, <5>1, GreatestIs
      <4>2. h[t \ {n}] = g[t \ {n}] /\ h[t] = F[<<n, g[t \ {n}]>>]
        BY <2>3, <3>1
      <4> QED BY <3>1, <4>1, <4>2
    <3>2. CASE n \notin t /\ t # {}
      <4>1. Max(t) \in t
        BY <2>1, <3>2, GreatestExists
      <4>2. t \ {Max(t)} \in SUBSET (1..n) /\ n \notin t \ {Max(t)}
        BY <3>2
      <4>3. h[t] = g[t] /\ h[t \ {Max(t)}] = g[t \ {Max(t)}]
        BY <3>2, <4>2
      <4> QED BY <2>2, <2>3, <3>2, <4>3 DEF IsFold
    <3>3. CASE t = {}
      <4>1. h[t] = g[t] /\ t \in SUBSET (1..n - 1)
        BY <3>3
      <4> QED BY <2>2, <3>3, <4>1 DEF IsFold
    <3> QED BY <3>1, <3>2, <3>3
  <2> HIDE DEF h
  <2>6. Folds(h, n)
    BY <2>5 DEF IsFold
  <2>7. n \in 0..N
    OBVIOUS
  <2> HIDE DEF Folds
  <2> QED BY <2>4, <2>6, <2>7
<1> HIDE DEF P
<1>3. 0..N \subseteq P
  BY <1>1, <1>2, Upward
<1>4. N \in P
  BY <1>3
<1> QED BY <1>4 DEF P

-----------------------------------------------------------------------------
(* The list *)

\* Lists of modes of M without a fraction, no two of which are equal.
Lists(M) ==
  {l \in Seq({NewMode(m) : m \in M}) :
     \A i, j \in DOMAIN l : DisplayModeEqual(l[i], l[j]) => i = j}

LEMMA NewModeIs ==
  ASSUME NEW m, IsMode(m)
  PROVE  /\ IsMode(NewMode(m)) /\ NewMode(m).fractional = FALSE
         /\ NewMode(m).name = m.name /\ NewMode(m).format = m.format
         /\ NewMode(m).framerate = m.framerate
  BY DEF IsMode, NewMode

LEMMA AddKeeps ==
  ASSUME NEW M, NEW l \in Lists(M), NEW m \in M
  PROVE  DisplayModeAdd(l, m) \in Lists(M)
<1> DEFINE New == {NewMode(n) : n \in M}
           e == NewMode(m)
<1>1. l \in Seq(New) /\ e \in New
      /\ \A i, j \in DOMAIN l : DisplayModeEqual(l[i], l[j]) => i = j
  BY DEF Lists
<1>2. CASE \E n \in ToSet(l) : DisplayModeEqual(e, n)
  BY <1>2 DEF DisplayModeAdd
<1>3. CASE \A n \in ToSet(l) : ~DisplayModeEqual(e, n)
  <2> HIDE DEF New, e
  <2> DEFINE a == Append(l, e)
  <2>1. a \in Seq(New) /\ Len(l) \in Nat /\ DOMAIN l = 1..Len(l)
        /\ DOMAIN a = 1..Len(l) + 1
    BY <1>1
  <2>2. /\ a[Len(l) + 1] = e
        /\ \A i \in DOMAIN l : a[i] = l[i] /\ l[i] \in ToSet(l)
    BY <1>1, <2>1 DEF ToSet
  <2> HIDE DEF a
  <2>3. \A x, y : DisplayModeEqual(x, y) = DisplayModeEqual(y, x)
    BY DEF DisplayModeEqual
  <2>4. ASSUME NEW i \in DOMAIN a, NEW j \in DOMAIN a, DisplayModeEqual(a[i], a[j])
        PROVE  i = j
    <3>1. CASE i \in DOMAIN l /\ j \in DOMAIN l
      BY <1>1, <2>2, <2>4, <3>1
    <3>2. CASE i = Len(l) + 1 /\ j \in DOMAIN l
      BY <1>3, <2>2, <2>4, <3>2
    <3>3. CASE j = Len(l) + 1 /\ i \in DOMAIN l
      BY <1>3, <2>2, <2>3, <2>4, <3>3
    <3>4. CASE i = Len(l) + 1 /\ j = Len(l) + 1
      BY <3>4
    <3> QED BY <2>1, <3>1, <3>2, <3>3, <3>4
  <2>5. DisplayModeAdd(l, m) = a
    BY <1>3 DEF DisplayModeAdd, a, e
  <2> QED BY <2>1, <2>4, <2>5 DEF Lists, New
<1> QED BY <1>2, <1>3

\* display_mode_add, for the modes of a sequence one after another.
LEMMA AddAll ==
  ASSUME NEW M, NEW s \in Seq(M)
  PROVE  FoldLeft(DisplayModeAdd, <<>>, s) \in Lists(M)
<1> DEFINE N == Len(s)
           Acc == Lists(M)
           F == [p \in (1..N) \X Acc |-> DisplayModeAdd(p[2], s[p[1]])]
           Folds(g) == g = [t \in SUBSET (1..N) |->
                              IF t = {} THEN <<>>
                              ELSE DisplayModeAdd(g[t \ {Max(t)}], s[Max(t)])]
<1>1. N \in Nat /\ DOMAIN s = 1..N /\ \A i \in 1..N : s[i] \in M
  OBVIOUS
<1>2. <<>> \in Acc
  BY DEF Lists
<1> HIDE DEF N, Acc
<1>3. F \in [(1..N) \X Acc -> Acc]
  BY <1>1, AddKeeps DEF Acc
<1>4. \E g : Folds(g)
  <2>1. PICK g \in [SUBSET (1..N) -> Acc] : IsFold(g, N, <<>>, F)
    <3> HIDE DEF F
    <3> QED BY <1>1, <1>2, <1>3, FoldExists
  <2>2. ASSUME NEW t \in SUBSET (1..N), t # {}
        PROVE  F[<<Max(t), g[t \ {Max(t)}]>>] = DisplayModeAdd(g[t \ {Max(t)}], s[Max(t)])
    <3>1. Max(t) \in 1..N
      BY <1>1, <2>2, GreatestExists
    <3>2. g[t \ {Max(t)}] \in Acc
      OBVIOUS
    <3> QED BY <3>1, <3>2
  <2> HIDE DEF F
  <2>3. Folds(g)
    BY <2>1, <2>2 DEF IsFold
  <2> QED BY <2>3
<1>5. PICK g : Folds(g) /\ FoldLeft(DisplayModeAdd, <<>>, s) = g[1..N]
  BY <1>1, <1>4, Zenon DEF FoldLeft, MapThenFoldSet
<1> DEFINE P == {n \in 0..N : g[1..n] \in Acc}
<1>6. 0 \in P
  BY <1>1, <1>2, <1>5
<1>7. ASSUME NEW n \in 1..N, n - 1 \in P PROVE n \in P
  <2>1. 1..n \in SUBSET (1..N) /\ n \in 1..n /\ \A k \in 1..n : k <= n
    BY <1>1
  <2>2. (1..n) \ {n} = 1..n - 1
    BY <1>1
  <2>3. Max(1..n) = n
    BY <1>1, <2>1, GreatestIs
  <2>4. g[1..n] = DisplayModeAdd(g[1..n - 1], s[n])
    BY <1>5, <2>1, <2>2, <2>3
  <2>5. g[1..n - 1] \in Acc /\ n \in 0..N
    BY <1>7
  <2> QED BY <1>1, <2>4, <2>5, AddKeeps DEF Acc
<1> HIDE DEF P
<1>8. 0..N \subseteq P
  BY <1>1, <1>6, <1>7, Upward
<1>9. N \in P
  BY <1>1, <1>8
<1> QED BY <1>5, <1>9 DEF P, Acc

-----------------------------------------------------------------------------
(* Rates *)

LEMMA Quotient ==
  ASSUME NEW a \in Nat, NEW d \in Nat \ {0}
  PROVE  a \div d \in Nat /\ d * (a \div d) <= a /\ a < d * (a \div d) + d
  OBVIOUS

\* A rate in 24.8 is not zero, whether rounded or not.
LEMMA HzTyped ==
  ASSUME NEW m, m.framerate \in Nat
  PROVE  /\ DisplayModeHz(m) \in Nat
         /\ m.framerate > 0 => DisplayModeHz(m) > 0
         /\ ~m.fractional => DisplayModeHz(m) = 256 * m.framerate
  BY DEF DisplayModeHz, FractionalHz

LEMMA UseFractTyped ==
  ASSUME NEW h \in Nat, h >= 128, NEW use_fract
  PROVE  UseFract(h, use_fract) \in Nat \ {0}
<1> DEFINE m == [framerate |-> (h + 128) \div 256, fractional |-> use_fract = 1]
<1>1. m.framerate \in Nat /\ m.framerate > 0
  OBVIOUS
<1>2. UseFract(h, use_fract) = IF use_fract = 0 THEN h ELSE DisplayModeHz(m)
  BY DEF UseFract
<1> HIDE DEF m
<1> QED BY <1>1, <1>2, HzTyped

LEMMA HzRoundTyped ==
  ASSUME NEW h \in Nat, HzRound(h) # 0
  PROVE  HzRound(h) \in SaneHz
<1> DEFINE away == {Distance(s, h) : s \in SaneHz}
<1>1. SaneHz \subseteq Nat /\ SaneHz # {}
  BY DEF SaneHz
<1>2. away \subseteq Nat /\ away # {}
  BY <1>1 DEF Distance
<1>3. PICK d \in away : \A e \in away : d <= e
  <2> HIDE DEF away
  <2> QED BY <1>2, LeastExists
<1> DEFINE near == {s \in SaneHz : Distance(s, h) = d}
<1>4. near \subseteq Nat /\ near # {}
  BY <1>1, <1>3
<1>5. PICK s \in near : \A r \in near : s <= r
  <2> HIDE DEF near
  <2> QED BY <1>4, LeastExists
<1>6. \A r \in SaneHz : \/ Distance(s, h) < Distance(r, h)
                        \/ Distance(s, h) = Distance(r, h) /\ s <= r
  BY <1>1, <1>2, <1>3, <1>5
<1>7. s \in SaneHz
  BY <1>5
<1> HIDE DEF near, away
<1> QED BY <1>6, <1>7 DEF HzRound

\* The divisor loop ends, at the first quotient of one and a half at most.
LEMMA DivisorTyped ==
  ASSUME NEW m, m.framerate \in Nat, NEW h \in Nat \ {0}
  PROVE  /\ Divisor(m, h) \in Nat \ {0} /\ Shows(m, h, Divisor(m, h)) <= 384
         /\ \A k \in 1..Divisor(m, h) - 1 : Shows(m, h, k) > 384
<1> DEFINE last == m.framerate * 256 + 1
           Ends == {n \in 1..last : Shows(m, h, n) <= 384}
<1>1. last \in Nat /\ last >= 1 /\ m.framerate * 65536 \in Nat
  OBVIOUS
<1>2. \A n \in 1..last : h * n \in Nat \ {0} /\ Shows(m, h, n) \in Nat
  <2> SUFFICES ASSUME NEW n \in 1..last PROVE h * n \in Nat \ {0} /\ Shows(m, h, n) \in Nat
    OBVIOUS
  <2>1. h * n \in Nat /\ h * n >= 1
    OBVIOUS
  <2> QED BY <1>1, <2>1, Quotient DEF Shows
<1>3. last \in Ends
  <2> DEFINE d == h * last
             q == Shows(m, h, last)
  <2>1. d \in Nat /\ d >= last /\ d \in Nat \ {0}
    BY <1>1
  <2>2. q \in Nat /\ d * q <= m.framerate * 65536
    BY <1>1, <2>1, Quotient DEF Shows
  <2>3. m.framerate * 65536 < 256 * last
    OBVIOUS
  <2> HIDE DEF d, q, last
  <2>4. q >= 256 => d * q >= 256 * d
    BY <2>1, <2>2
  <2>5. q < 256
    BY <1>1, <2>1, <2>2, <2>3, <2>4
  <2> QED BY <1>1, <2>2, <2>5 DEF q
<1>4. PICK n \in Ends : \A k \in Ends : n <= k
  <2> Ends \subseteq Nat
    BY <1>1
  <2> HIDE DEF Ends
  <2> QED BY <1>3, LeastExists
<1>5. n \in 1..last /\ Shows(m, h, n) <= 384 /\ \A k \in 1..n - 1 : Shows(m, h, k) > 384
  BY <1>1, <1>2, <1>4
<1> DEFINE D == Divisor(m, h)
<1>6. D \in 1..last /\ Shows(m, h, D) <= 384 /\ \A k \in 1..D - 1 : Shows(m, h, k) > 384
  BY <1>5 DEF Divisor
<1> HIDE DEF D, last
<1>7. D \in Nat \ {0}
  BY <1>1, <1>6
<1> QED BY <1>6, <1>7 DEF D

\* A mode that is not refused is within 12/256 of the multiple of the movie's rate at
\* which the loop ended, the third at most.
LEMMA NearMultiple ==
  ASSUME NEW m, m.framerate \in Nat, NEW h \in Nat \ {0}, Delta(m, h) <= 11
  PROVE  LET n == Divisor(m, h)
         IN n \in 1..3 /\ 256 * Distance(m.framerate * 256, n * h) < 12 * n * h
<1> DEFINE n == Divisor(m, h)
           a == m.framerate * 65536
           q == Shows(m, h, n)
<1>1. n \in Nat \ {0} /\ \A k \in 1..n - 1 : Shows(m, h, k) > 384
  BY DivisorTyped
<1> HIDE DEF n
<1>2. a \in Nat /\ h * n \in Nat \ {0}
  BY <1>1
<1>3. q \in Nat /\ (h * n) * q <= a /\ a < (h * n) * q + h * n
  <2> DEFINE d == h * n
  <2>1. q = a \div d
    BY DEF Shows
  <2>2. a \in Nat /\ d \in Nat \ {0}
    BY <1>2
  <2> HIDE DEF a, d, q
  <2>3. q \in Nat /\ d * q <= a /\ a < d * q + d
    BY <2>1, <2>2, Quotient
  <2> QED BY <2>3 DEF d
<1>4. Distance(q, 256) <= 11
  BY DEF Delta, n
<1> HIDE DEF q
<1>5. q >= 245 /\ q <= 267
  BY <1>3, <1>4 DEF Distance
<1>6. 245 * (h * n) <= a /\ a < 268 * (h * n)
  <2> DEFINE d == h * n
  <2>1. d \in Nat /\ a \in Int /\ d * q <= a /\ a < d * q + d
    BY <1>2, <1>3
  <2> HIDE DEF d, a
  <2>2. d * 245 <= d * q /\ d * q <= d * 267
    BY <1>3, <1>5, <2>1
  <2>3. d * q \in Int
    BY <1>3, <2>1
  <2> HIDE DEF q
  <2>4. 245 * d <= a /\ a < 268 * d
    BY <2>1, <2>2, <2>3
  <2> QED BY <2>4 DEF d
<1>7. n <= 3
  <2> SUFFICES ASSUME n >= 4 PROVE FALSE
    BY <1>1
  <2> DEFINE k == n - 1
             p == Shows(m, h, k)
  <2>1. k \in Nat \ {0} /\ p > 384
    BY <1>1
  <2>2. h * k \in Nat \ {0} /\ h * n = h * k + h
    BY <1>1, <2>1
  <2> DEFINE d == h * k
  <2>3. p \in Nat /\ d * p <= a
    <3>1. p = a \div d
      BY DEF Shows
    <3>2. a \in Nat /\ d \in Nat \ {0}
      BY <1>2, <2>2
    <3> HIDE DEF a, d, p
    <3> QED BY <3>1, <3>2, Quotient
  <2> HIDE DEF p
  <2>4. d \in Nat /\ d >= 3 * h
    <3>1. k >= 3 /\ h \in Nat
      BY <1>1
    <3> HIDE DEF k
    <3>2. h * k \in Nat /\ h * k >= h * 3
      BY <2>1, <3>1
    <3> QED BY <3>1, <3>2
  <2>5. d * p <= a /\ a < 268 * (d + h)
    BY <1>6, <2>2, <2>3
  <2> HIDE DEF d, a
  <2>6. d * 385 <= d * p /\ d * p \in Int
    BY <2>1, <2>3, <2>4
  <2>7. 385 * d < 268 * d + 268 * h
    BY <1>2, <2>4, <2>5, <2>6
  <2> QED BY <2>4, <2>7
<1>8. n \in 1..3
  BY <1>1, <1>7
<1>9. 256 * Distance(m.framerate * 256, n * h) < 12 * n * h
  <2>1. CASE n = 1
    BY <1>6, <2>1 DEF Distance
  <2>2. CASE n = 2
    BY <1>6, <2>2 DEF Distance
  <2>3. CASE n = 3
    BY <1>6, <2>3 DEF Distance
  <2> QED BY <1>8, <2>1, <2>2, <2>3
<1> QED BY <1>8, <1>9 DEF n

-----------------------------------------------------------------------------
(* Usual rates *)

\* A rate above another by less than 1/256 is close to it.
LEMMA CloseAbove ==
  ASSUME NEW r \in Nat, NEW d \in Nat \ {0}, d <= r, 256 * r < 257 * d
  PROVE  HzClose(r, d)
<1> DEFINE a == r * 10000 + d \div 2
           x == a \div d
<1>1. a \in Nat /\ 10000 * d <= a /\ a < 10040 * d
  OBVIOUS
<1> HIDE DEF a
<1>2. x \in Nat /\ d * x <= a /\ a < d * x + d
  BY <1>1, Quotient
<1> HIDE DEF x
<1>3. d * x \in Nat
  BY <1>2
<1>4. x >= 10000
  <2> SUFFICES ASSUME x <= 9999 PROVE FALSE
    BY <1>2
  <2>1. d * x <= d * 9999
    BY <1>2
  <2> QED BY <1>1, <1>2, <1>3, <2>1
<1>5. x <= 10040
  <2> SUFFICES ASSUME x >= 10041 PROVE FALSE
    BY <1>2
  <2>1. d * 10041 <= d * x
    BY <1>2
  <2> QED BY <1>1, <1>2, <1>3, <2>1
<1>6. Distance(10000, x) <= 50
  BY <1>2, <1>4, <1>5 DEF Distance
<1> QED BY <1>6 DEF HzClose, x, a

\* The quotient of the divisor loop reaches what its dividend does.
LEMMA ShowsAtLeast ==
  ASSUME NEW f \in Nat, NEW m, m.framerate = f, NEW h \in Nat \ {0},
         NEW n \in Nat \ {0}, NEW c \in Nat
  PROVE  /\ Shows(m, h, n) \in Nat
         /\ c <= Shows(m, h, n) <=> c * (h * n) <= f * 65536
<1> DEFINE a == f * 65536
           d == h * n
           q == Shows(m, h, n)
<1>1. a \in Nat /\ d \in Nat \ {0}
  OBVIOUS
<1>2. q = a \div d
  BY DEF Shows
<1> HIDE DEF a, d, q
<1>3. q \in Nat /\ d * q <= a /\ a < d * q + d
  BY <1>1, <1>2, Quotient
<1>4. c * d = d * c /\ d * c \in Nat /\ d * q \in Nat
  BY <1>1, <1>3
<1>5. c <= q => d * c <= d * q
  BY <1>1, <1>3
<1>6. q + 1 <= c => d * (q + 1) <= d * c
  BY <1>1, <1>3
<1>7. d * (q + 1) = d * q + d
  BY <1>1, <1>3
<1>8. c <= q <=> c * d <= a
  BY <1>1, <1>3, <1>4, <1>5, <1>6, <1>7
<1> QED BY <1>3, <1>8 DEF a, d, q

LEMMA FirstShows ==
  ASSUME NEW f \in Nat, NEW m, m.framerate = f, NEW h \in Nat \ {0}
  PROVE  /\ Shows(m, h, 1) \in Nat /\ Shows(m, h, 2) \in Nat /\ Shows(m, h, 3) \in Nat
         /\ 256 <= Shows(m, h, 1) <=> h <= f * 256
         /\ 257 <= Shows(m, h, 1) <=> 257 * h <= f * 65536
         /\ 385 <= Shows(m, h, 1) <=> 385 * h <= f * 65536
         /\ 256 <= Shows(m, h, 2) <=> 2 * h <= f * 256
         /\ 257 <= Shows(m, h, 2) <=> 514 * h <= f * 65536
         /\ 385 <= Shows(m, h, 2) <=> 770 * h <= f * 65536
         /\ 256 <= Shows(m, h, 3) <=> 3 * h <= f * 256
         /\ 257 <= Shows(m, h, 3) <=> 771 * h <= f * 65536
  BY ShowsAtLeast

LEMMA ShownOnce ==
  ASSUME NEW f \in Nat, NEW m, m.framerate = f, NEW h \in Nat \ {0},
         JustAbove(f * 256, 1 * h)
  PROVE  Shows(m, h, 1) = 256
  BY FirstShows DEF JustAbove

LEMMA ShownTwice ==
  ASSUME NEW f \in Nat, NEW m, m.framerate = f, NEW h \in Nat \ {0},
         JustAbove(f * 256, 2 * h)
  PROVE  Shows(m, h, 2) = 256 /\ Shows(m, h, 1) \in Nat /\ 385 <= Shows(m, h, 1)
  BY FirstShows DEF JustAbove

\* A mode whose rate is the movie's once or twice, or a little more, is found to be so.
LEMMA UsualDivisor ==
  ASSUME NEW f \in Nat, NEW m, m.framerate = f, NEW h \in Nat \ {0}, NEW n \in {1, 2},
         JustAbove(f * 256, n * h)
  PROVE  Divisor(m, h) = n /\ Delta(m, h) = 0
<1> DEFINE D == Divisor(m, h)
<1>1. /\ D \in Nat \ {0} /\ Shows(m, h, D) <= 384
      /\ \A k \in 1..D - 1 : Shows(m, h, k) > 384
  BY DivisorTyped
<1> HIDE DEF D
<1>2. CASE n = 1
  <2>1. JustAbove(f * 256, 1 * h)
    BY <1>2
  <2>2. Shows(m, h, 1) = 256
    BY <2>1, ShownOnce
  <2>3. D = 1
    BY <1>1, <2>2
  <2> QED BY <1>2, <2>2, <2>3 DEF Delta, Distance, D
<1>3. CASE n = 2
  <2>1. JustAbove(f * 256, 2 * h)
    BY <1>3
  <2>2. Shows(m, h, 2) = 256 /\ Shows(m, h, 1) \in Nat /\ 385 <= Shows(m, h, 1)
    BY <2>1, ShownTwice
  <2>3. D # 1
    BY <1>1, <2>2
  <2>4. ~(2 \in 1..D - 1)
    BY <1>1, <2>2
  <2>5. D = 2
    BY <1>1, <2>3, <2>4
  <2> QED BY <1>3, <2>2, <2>5 DEF Delta, Distance, D
<1> QED BY <1>2, <1>3

\* A mode with no difference has once, twice or three times the movie's rate, or a
\* little more; if three times, more by 1/384.
LEMMA ExactDivisor ==
  ASSUME NEW f \in Nat, NEW m, m.framerate = f, NEW h \in Nat \ {0}, Delta(m, h) = 0
  PROVE  \E n \in {1, 2, 3} :
           /\ Divisor(m, h) = n /\ HzClose(f * 256, n * h)
           /\ n = 3 => ~JustAbove(f * 256, 3 * h)
<1> DEFINE n == Divisor(m, h)
<1>1. n \in 1..3 /\ \A k \in 1..n - 1 : Shows(m, h, k) > 384
  <2>1. m.framerate \in Nat /\ Delta(m, h) <= 11
    OBVIOUS
  <2> QED BY <2>1, DivisorTyped, NearMultiple
<1>2. n \in Nat \ {0} /\ n \in {1, 2, 3}
  BY <1>1
<1>3. Shows(m, h, n) \in Nat
  <2> HIDE DEF n
  <2> QED BY <1>2, ShowsAtLeast
<1>4. Shows(m, h, n) = 256
  BY <1>3 DEF Delta, Distance
<1> HIDE DEF n
<1> DEFINE r == f * 256
<1>5. r \in Nat
  OBVIOUS
<1>6. CASE n = 1
  <2>1. Shows(m, h, 1) = 256
    BY <1>4, <1>6
  <2>2. 1 * h \in Nat \ {0} /\ 1 * h <= r /\ 256 * r < 257 * (1 * h)
    BY <2>1, FirstShows
  <2> HIDE DEF r
  <2>3. HzClose(r, 1 * h)
    BY <1>5, <2>2, CloseAbove
  <2> QED BY <1>6, <2>3 DEF n, r
<1>7. CASE n = 2
  <2>1. Shows(m, h, 2) = 256
    BY <1>4, <1>7
  <2>2. 2 * h \in Nat \ {0} /\ 2 * h <= r /\ 256 * r < 257 * (2 * h)
    BY <2>1, FirstShows
  <2> HIDE DEF r
  <2>3. HzClose(r, 2 * h)
    BY <1>5, <2>2, CloseAbove
  <2> QED BY <1>7, <2>3 DEF n, r
<1>8. CASE n = 3
  <2>1. Shows(m, h, 3) = 256 /\ Shows(m, h, 2) > 384
    BY <1>1, <1>4, <1>8
  <2>2. 3 * h \in Nat \ {0} /\ 3 * h <= r /\ 256 * r < 257 * (3 * h)
    BY <2>1, FirstShows
  <2>3. 385 * (h * 2) <= f * 65536
    BY <2>1, FirstShows
  <2>4. ~JustAbove(r, 3 * h)
    BY <2>3 DEF JustAbove
  <2> HIDE DEF r
  <2>5. HzClose(r, 3 * h)
    BY <1>5, <2>2, CloseAbove
  <2> QED BY <1>8, <2>4, <2>5 DEF n, r
<1> QED BY <1>2, <1>6, <1>7, <1>8

\* The multiple closest to such a mode's rate is the one that it shows.
LEMMA UsualClosest ==
  ASSUME NEW f \in Nat, NEW m, m.framerate = f, NEW h \in Nat \ {0}, NEW n \in {1, 2},
         JustAbove(f * 256, n * h)
  PROVE  ClosestMultiple(m, h) = n * h
<1> DEFINE r == f * 256
           away(k) == Distance(h * k, r)
           stops(k) == away(k + 1) > away(k)
           First(k) == stops(k) /\ \A j \in 1..k - 1 : ~stops(j)
<1>1. n \in 1..r
  BY DEF JustAbove
<1>3. stops(n) /\ (n = 2 => ~stops(1))
  <2>1. CASE n = 1
    <3>1. JustAbove(r, 1 * h)
      BY <2>1
    <3> QED BY <2>1, <3>1 DEF Distance, JustAbove
  <2>2. CASE n = 2
    <3>1. JustAbove(r, 2 * h)
      BY <2>2
    <3> QED BY <2>2, <3>1 DEF Distance, JustAbove
  <2> QED BY <2>1, <2>2
<1>4. ClosestMultiple(m, h) = h * (CHOOSE k \in 1..r : First(k))
  BY DEF ClosestMultiple
<1>5. r \in Nat
  OBVIOUS
<1> HIDE DEF stops, r
<1>6. First(n)
  BY <1>3
<1>7. ASSUME NEW k \in 1..r, First(k) PROVE k = n
  <2>1. k \in Nat /\ k >= 1
    BY <1>5
  <2>2. ~(k < n)
    BY <1>6, <1>7, <2>1
  <2>3. ~(n < k)
    BY <1>3, <1>7, <2>1
  <2> QED BY <2>1, <2>2, <2>3
<1> HIDE DEF First
<1>8. (CHOOSE k \in 1..r : First(k)) = n
  BY <1>1, <1>6, <1>7
<1>9. h * n = n * h
  OBVIOUS
<1> QED BY <1>4, <1>8, <1>9

-----------------------------------------------------------------------------
(* The search *)

\* The modes that may be chosen, and how they are rated.
Eligible(m, current, h, rates) ==
  Usable(m, Delta(m, h), AllowedVariant(m, h, rates), current, rates)
Rated(m, h, prefer_exact) == Rating(Delta(m, h), Divisor(m, h), prefer_exact)

Nothing == [rating |-> 0, mode |-> NoMode]
Candidate(m, h, prefer_exact, rates) ==
  [rating |-> Rated(m, h, prefer_exact), mode |-> AllowedVariant(m, h, rates)]
\* What the search may have found so far.
Bests(M, current, h, prefer_exact, rates) ==
  {Nothing} \cup {Candidate(m, h, prefer_exact, rates) :
                    m \in {n \in M : Eligible(n, current, h, rates)}}

LEMMA RatedTyped ==
  ASSUME NEW m, m.framerate \in Nat, NEW h \in Nat \ {0}, NEW prefer_exact
  PROVE  Delta(m, h) \in Nat /\ Rated(m, h, prefer_exact) \in Int
<1>1. Divisor(m, h) \in Nat \ {0}
  BY DivisorTyped
<1> DEFINE n == Divisor(m, h)
           d == Shows(m, h, n)
<1>2. d \in Nat
  <2>1. m.framerate * 65536 \in Nat /\ h * n \in Nat \ {0}
    BY <1>1
  <2> HIDE DEF n
  <2> QED BY <2>1, Quotient DEF Shows
<1> HIDE DEF d
<1>3. Delta(m, h) \in Nat
  BY <1>2 DEF Delta, Distance, d
<1> QED BY <1>1, <1>3 DEF Rated, Rating

\* Looking at one more mode keeps the best so far, and takes what is rated higher.
LEMMA BetterKeeps ==
  ASSUME NEW M, \A m \in M : m.framerate \in Nat, NEW h \in Nat \ {0},
         NEW current, NEW prefer_exact, NEW rates, NEW m \in M,
         NEW b \in Bests(M, current, h, prefer_exact, rates)
  PROVE  LET c == Better(b, m, current, h, prefer_exact, rates)
         IN /\ c \in Bests(M, current, h, prefer_exact, rates)
            /\ c.rating \in Int /\ b.rating \in Int /\ b.rating <= c.rating
            /\ Eligible(m, current, h, rates) => Rated(m, h, prefer_exact) <= c.rating
<1> DEFINE c == Better(b, m, current, h, prefer_exact, rates)
           new == Candidate(m, h, prefer_exact, rates)
<1>1. \A n \in M : Rated(n, h, prefer_exact) \in Int
  BY RatedTyped
<1>2. b.rating \in Int /\ new.rating = Rated(m, h, prefer_exact)
  BY <1>1 DEF Bests, Nothing, Candidate
<1>3. c = IF Rated(m, h, prefer_exact) > b.rating /\ Eligible(m, current, h, rates)
          THEN new ELSE b
  BY DEF Better, Eligible, Rated, Candidate
<1> HIDE DEF c, new
<1>4. Eligible(m, current, h, rates) => new \in Bests(M, current, h, prefer_exact, rates)
  BY DEF Bests, new
<1> QED BY <1>1, <1>2, <1>3, <1>4 DEF c

\* What the search finds: the allowed variant of the highest rated of the modes that
\* may be chosen, if one is rated above 0.
Found(found, M, current, h, prefer_exact, rates) ==
  LET Candidates == {m \in M : Eligible(m, current, h, rates)}
  IN \/ /\ found = NoMode
        /\ \A n \in Candidates : Rated(n, h, prefer_exact) <= 0
     \/ \E m \in Candidates :
          /\ found = AllowedVariant(m, h, rates)
          /\ \A n \in Candidates : Rated(n, h, prefer_exact) <= Rated(m, h, prefer_exact)

LEMMA SearchFinds ==
  ASSUME NEW s, s \in Seq(ToSet(s)), \A m \in ToSet(s) : m.framerate \in Nat,
         NEW h \in Nat \ {0}, NEW current, NEW prefer_exact, NEW rates
  PROVE  Found(BestMode(s, current, h, prefer_exact, rates), ToSet(s), current, h,
               prefer_exact, rates)
<1> DEFINE N == Len(s)
           M == ToSet(s)
           Acc == Bests(M, current, h, prefer_exact, rates)
           Next1(b, i) == Better(b, s[i], current, h, prefer_exact, rates)
           F == [p \in (1..N) \X Acc |-> Next1(p[2], p[1])]
           Folds(g) == g = [t \in SUBSET (1..N) |->
                              IF t = {} THEN Nothing ELSE Next1(g[t \ {Max(t)}], Max(t))]
           Highest(b, i) == Eligible(s[i], current, h, rates)
                              => Rated(s[i], h, prefer_exact) <= b.rating
<1>1. /\ N \in Nat /\ DOMAIN s = 1..N /\ \A i \in 1..N : s[i] \in M
      /\ \A m \in M : \E i \in 1..N : m = s[i]
  BY DEF ToSet
<1>2. Nothing \in Acc
  BY DEF Bests
<1> HIDE DEF N, Acc, M
<1>3. \A b \in Acc, i \in 1..N :
        /\ Next1(b, i) \in Acc /\ Highest(Next1(b, i), i)
        /\ \A k \in 1..N : Highest(b, k) => Highest(Next1(b, i), k)
  <2> SUFFICES ASSUME NEW b \in Acc, NEW i \in 1..N
               PROVE  /\ Next1(b, i) \in Acc /\ Highest(Next1(b, i), i)
                      /\ \A k \in 1..N : Highest(b, k) => Highest(Next1(b, i), k)
    OBVIOUS
  <2>1. s[i] \in M /\ \A m \in M : m.framerate \in Nat
    BY <1>1 DEF M
  <2> DEFINE c == Next1(b, i)
  <2>2. /\ c \in Acc /\ Highest(c, i)
        /\ c.rating \in Int /\ b.rating \in Int /\ b.rating <= c.rating
    BY <2>1, BetterKeeps DEF Acc
  <2>3. \A k \in 1..N : Rated(s[k], h, prefer_exact) \in Int
    BY <1>1, <2>1, RatedTyped
  <2> HIDE DEF c
  <2> QED BY <2>2, <2>3 DEF c
<1>4. F \in [(1..N) \X Acc -> Acc]
  BY <1>3
<1>5. \E g : Folds(g)
  <2>1. PICK g \in [SUBSET (1..N) -> Acc] : IsFold(g, N, Nothing, F)
    <3> HIDE DEF F
    <3> QED BY <1>1, <1>2, <1>4, FoldExists
  <2>2. ASSUME NEW t \in SUBSET (1..N), t # {}
        PROVE  F[<<Max(t), g[t \ {Max(t)}]>>] = Next1(g[t \ {Max(t)}], Max(t))
    <3>1. Max(t) \in 1..N
      BY <1>1, <2>2, GreatestExists
    <3>2. g[t \ {Max(t)}] \in Acc
      OBVIOUS
    <3> QED BY <3>1, <3>2
  <2> HIDE DEF F, Next1
  <2>3. Folds(g)
    BY <2>1, <2>2 DEF IsFold
  <2> QED BY <2>3
<1>6. PICK g : Folds(g) /\ BestMode(s, current, h, prefer_exact, rates) = g[1..N].mode
  BY <1>1, <1>5, Zenon DEF BestMode, FoldLeft, MapThenFoldSet, Nothing
<1> DEFINE P == {n \in 0..N : g[1..n] \in Acc /\ \A k \in 1..n : Highest(g[1..n], k)}
<1>7. 0 \in P
  BY <1>1, <1>2, <1>6
<1>8. ASSUME NEW n \in 1..N, n - 1 \in P PROVE n \in P
  <2>1. 1..n \in SUBSET (1..N) /\ n \in 1..n /\ \A k \in 1..n : k <= n
    BY <1>1
  <2>2. (1..n) \ {n} = 1..n - 1
    BY <1>1
  <2>3. Max(1..n) = n
    BY <1>1, <2>1, GreatestIs
  <2>4. g[1..n] = Next1(g[1..n - 1], n)
    <3> HIDE DEF Next1
    <3> QED BY <1>6, <2>1, <2>2, <2>3
  <2>5. g[1..n - 1] \in Acc /\ n \in 0..N /\ \A k \in 1..n - 1 : Highest(g[1..n - 1], k)
    BY <1>8
  <2> HIDE DEF Next1, Highest
  <2>6. g[1..n] \in Acc /\ Highest(g[1..n], n)
    BY <1>3, <2>4, <2>5
  <2>7. \A k \in 1..n - 1 : Highest(g[1..n], k)
    BY <1>3, <2>1, <2>2, <2>4, <2>5
  <2>8. \A k \in 1..n : k = n \/ k \in 1..n - 1
    OBVIOUS
  <2> QED BY <2>5, <2>6, <2>7, <2>8
<1> HIDE DEF P
<1>9. 0..N \subseteq P
  BY <1>1, <1>7, <1>8, Upward
<1>10. N \in P
  BY <1>1, <1>9
<1>11. /\ g[1..N] \in Acc
       /\ \A n \in M : Eligible(n, current, h, rates)
                         => Rated(n, h, prefer_exact) <= g[1..N].rating
  BY <1>1, <1>10 DEF P
<1> HIDE DEF Folds
<1>12. CASE g[1..N] = Nothing
  BY <1>6, <1>11, <1>12 DEF Found, Nothing, M
<1>13. CASE g[1..N] # Nothing
  <2>1. PICK m \in M : /\ Eligible(m, current, h, rates)
                       /\ g[1..N] = Candidate(m, h, prefer_exact, rates)
    BY <1>11, <1>13 DEF Acc, Bests
  <2>2. /\ g[1..N].mode = AllowedVariant(m, h, rates)
        /\ g[1..N].rating = Rated(m, h, prefer_exact)
    BY <2>1 DEF Candidate
  <2> QED BY <1>6, <1>11, <2>1, <2>2 DEF Found, M
<1> QED BY <1>12, <1>13

-----------------------------------------------------------------------------
(* Types *)

LEMMA KnownTyped == Known \subseteq ModeType
  BY ModeAssumption DEF ModeType, IsMode

LEMMA VariantIs ==
  ASSUME NEW m \in ModeType, NEW h, NEW rates
  PROVE  \E f \in BOOLEAN : AllowedVariant(m, h, rates) = [m EXCEPT !.fractional = f]
<1>1. PICK f \in BOOLEAN : DisplayModeSetHz(m, h) = [m EXCEPT !.fractional = f]
  BY DEF DisplayModeSetHz
<1> DEFINE t == DisplayModeSetHz(m, h)
<1>2. [t EXCEPT !.fractional = ~@] = [m EXCEPT !.fractional = ~f]
  BY <1>1 DEF ModeType
<1> QED BY <1>1, <1>2 DEF AllowedVariant

\* Since the movie's rate is known, best is what the search finds for it.
BestInv ==
  IF hz = 0 THEN best = NoMode
  ELSE Found(best, ToSet(g_modes), g_current_mode, hz, cfg.prefer_exact, cfg.rates)
ModesInv ==
  /\ g_modes \in Lists(ModeType) /\ g_current_mode \in ModeType \cup {NoMode}
  /\ hz \in Nat /\ cfg \in Config
  /\ BestInv

LEMMA ListTyped ==
  ASSUME NEW l \in Lists(ModeType)
  PROVE  \A m \in ToSet(l) : m \in ModeType /\ m.fractional = FALSE
<1>1. \A m \in ModeType : NewMode(m) \in ModeType /\ NewMode(m).fractional = FALSE
  BY DEF ModeType, NewMode
<1>2. l \in Seq({NewMode(m) : m \in ModeType})
  BY DEF Lists
<1>3. ToSet(l) \subseteq {NewMode(m) : m \in ModeType}
  BY <1>2 DEF ToSet
<1> QED BY <1>1, <1>3

LEMMA InitModes == Init => ModesInv
<1>1. <<>> \in Lists(ModeType)
  BY DEF Lists
<1> QED BY <1>1 DEF Init, ModesInv, BestInv

LEMMA PluggedModes ==
  ASSUME ModesInv, NEW cap \in Caps, NEW shown \in System \cup {g_current_mode},
         DisplayModesInit(cap, shown)
  PROVE  ModesInv'
<1>1. shown \in ModeType
  BY KnownTyped DEF DisplayModesInit, ModesInv, Known
<1>2. cap \in Seq(Listed) /\ Extra \in Seq(Listed) /\ Listed \subseteq ModeType
  BY ModeAssumption, KnownTyped DEF Known
<1>3. cap \in Seq(ModeType) /\ Extra \in Seq(ModeType) /\ <<shown>> \in Seq(ModeType)
  BY <1>1, <1>2
<1>4. cap \o <<shown>> \o Extra \in Seq(ModeType)
  BY <1>3
<1>5. g_modes' \in Lists(ModeType)
  BY <1>4, AddAll DEF DisplayModesInit
<1> QED BY <1>1, <1>5 DEF ModesInv, BestInv, DisplayModesInit

LEMMA FoundInFormat ==
  ASSUME NEW b, NEW M, NEW c, NEW d, c.format = d.format, NEW h, NEW prefer_exact, NEW rates,
         Found(b, M, c, h, prefer_exact, rates)
  PROVE  Found(b, M, d, h, prefer_exact, rates)
<1>1. \A m : Eligible(m, c, h, rates) <=> Eligible(m, d, h, rates)
  BY DEF Eligible, Usable
<1> QED BY <1>1 DEF Found

LEMMA SwitchedModes ==
  ASSUME ModesInv, NEW movie \in Requested \cup ({HzRound(m) : m \in Measured} \ {0}),
         FramerateSwitch(movie)
  PROVE  ModesInv'
<1>1. movie \in Nat /\ movie >= 128
  <2>1. CASE movie \in Requested
    BY <2>1, RequestedAssumption
  <2>2. CASE movie \in {HzRound(m) : m \in Measured} \ {0}
    <3>1. PICK m \in Measured : movie = HzRound(m) /\ movie # 0
      BY <2>2
    <3>2. m \in Nat
      BY <3>1, MeasuredAssumption
    <3>3. movie \in SaneHz
      BY <3>1, <3>2, HzRoundTyped
    <3> QED BY <3>3 DEF SaneHz
  <2> QED BY <2>1, <2>2
<1>2. hz' \in Nat \ {0} /\ UNCHANGED <<g_modes, cfg>>
  BY <1>1, UseFractTyped DEF FramerateSwitch
<1>3. Found(best', ToSet(g_modes), g_current_mode, hz', cfg.prefer_exact, cfg.rates)
  <2>1. g_modes \in Seq(ToSet(g_modes))
    BY DEF ModesInv, Lists, ToSet
  <2>2. \A m \in ToSet(g_modes) : m.framerate \in Nat
    BY ListTyped DEF ModesInv, ModeType
  <2> QED BY <1>2, <2>1, <2>2, SearchFinds DEF FramerateSwitch
<1>4. CASE best' = NoMode
  BY <1>2, <1>3, <1>4 DEF ModesInv, BestInv, FramerateSwitch
<1>5. CASE best' # NoMode
  <2>1. PICK m \in ToSet(g_modes) :
          /\ best' = AllowedVariant(m, hz', cfg.rates)
          /\ Eligible(m, g_current_mode, hz', cfg.rates)
    BY <1>3, <1>5 DEF Found
  <2>2. m \in ModeType
    BY ListTyped DEF ModesInv
  <2>3. best' \in ModeType /\ best'.format = m.format
    BY <2>1, <2>2, VariantIs DEF ModeType
  <2>4. g_current_mode' \in ModeType \cup {NoMode} /\ g_current_mode'.format = g_current_mode.format
    BY <1>5, <2>1, <2>3 DEF FramerateSwitch, Eligible, Usable, ModesInv
  <2>5. BestInv'
    BY <1>2, <1>3, <2>4, FoundInFormat DEF BestInv
  <2> QED BY <1>2, <2>4, <2>5 DEF ModesInv
<1> QED BY <1>4, <1>5

LEMMA StepModes == ModesInv /\ [Next]_vars => ModesInv'
<1> SUFFICES ASSUME ModesInv, [Next]_vars PROVE ModesInv'
  OBVIOUS
<1>1. CASE DisplayModesFini
  <2>1. <<>> \in Lists(ModeType)
    BY DEF Lists
  <2> QED BY <1>1, <2>1 DEF DisplayModesFini, ModesInv, BestInv
<1>2. CASE UNCHANGED vars
  BY <1>2 DEF vars, ModesInv, BestInv, Allowed
<1> QED BY <1>1, <1>2, PluggedModes, SwitchedModes DEF Next

\* A mode that is found is a variant of a listed mode and suits the movie.
LEMMA FoundMode ==
  ASSUME ModesInv, best # NoMode
  PROVE  /\ hz \in Nat \ {0}
         /\ \E m \in ToSet(g_modes) :
              /\ best = AllowedVariant(m, hz, cfg.rates)
              /\ Eligible(m, g_current_mode, hz, cfg.rates)
              /\ \E f \in BOOLEAN : best = [m EXCEPT !.fractional = f]
              /\ m \in ModeType /\ m.fractional = FALSE
<1>1. hz \in Nat \ {0}
  BY DEF ModesInv, BestInv
<1>2. PICK m \in ToSet(g_modes) : /\ best = AllowedVariant(m, hz, cfg.rates)
                                  /\ Eligible(m, g_current_mode, hz, cfg.rates)
  BY <1>1 DEF ModesInv, BestInv, Found
<1>3. m \in ModeType /\ m.fractional = FALSE
  BY ListTyped DEF ModesInv
<1> QED BY <1>1, <1>2, <1>3, VariantIs

LEMMA ModesAlways == Spec => []ModesInv
  BY InitModes, StepModes, PTL DEF Spec

-----------------------------------------------------------------------------
(* Theorems *)

\* The list holds modes without a fraction, in which the mode found is listed.
THEOREM TypeCorrect == Spec => []TypeOK
<1>1. ModesInv => TypeOK
  <2> SUFFICES ASSUME ModesInv PROVE TypeOK
    OBVIOUS
  <2>1. \A m \in ToSet(g_modes) : m \in ModeType /\ m.fractional = FALSE
    BY ListTyped DEF ModesInv
  <2>2. \A m \in ToSet(g_modes) :
          DOMAIN m = {"name", "format", "framerate", "fractional"} /\ ~m.fractional
    BY <2>1 DEF ModeType
  <2>3. ASSUME best # NoMode PROVE [best EXCEPT !.fractional = FALSE] \in ToSet(g_modes)
    <3>1. PICK m \in ToSet(g_modes), f \in BOOLEAN : best = [m EXCEPT !.fractional = f]
      BY <2>3, FoundMode
    <3>2. [[m EXCEPT !.fractional = f] EXCEPT !.fractional = FALSE] = m
      BY <2>1 DEF ModeType
    <3> QED BY <3>1, <3>2
  <2> QED BY <2>2, <2>3 DEF ModesInv, TypeOK
<1> QED BY <1>1, ModesAlways, PTL

\* Whatever the display, the system and the configuration name, in whatever order, no
\* two modes of the list have the same format and rate.
THEOREM ListHasNoDuplicates == Spec => []NoDuplicates
<1>1. ModesInv => NoDuplicates
  <2> SUFFICES ASSUME ModesInv, NEW i \in DOMAIN g_modes, NEW j \in DOMAIN g_modes,
                      g_modes[i].format = g_modes[j].format,
                      g_modes[i].framerate = g_modes[j].framerate
               PROVE  i = j
    BY DEF NoDuplicates
  <2>1. \A k \in DOMAIN g_modes :
          g_modes[k] \in ModeType /\ g_modes[k].fractional = FALSE
    BY ListTyped DEF ModesInv, ToSet
  <2>2. DisplayModeHz(g_modes[i]) = DisplayModeHz(g_modes[j])
    BY <2>1 DEF DisplayModeHz
  <2> QED BY <2>2 DEF DisplayModeEqual, ModesInv, Lists
<1> QED BY <1>1, ModesAlways, PTL

\* Whatever the display and the movie, the mode that is found has the format of the
\* one on the screen, an allowed rate, and one within 12/256 of the movie's rate
\* once, twice or three times.
THEOREM NeverFindsBadMode == Spec => []NeverBadMode
<1>1. ModesInv => NeverBadMode
  <2> SUFFICES ASSUME ModesInv, best # NoMode
               PROVE  /\ Allowed(DisplayModeHz(best))
                      /\ \E m \in ToSet(g_modes) :
                           m.name = best.name /\ m.format = g_current_mode.format
                      /\ \E n \in 1..3 :
                           256 * Distance(best.framerate * 256, n * hz) < 12 * n * hz
    BY DEF NeverBadMode
  <2>1. PICK m \in ToSet(g_modes) :
          /\ best = AllowedVariant(m, hz, cfg.rates)
          /\ Eligible(m, g_current_mode, hz, cfg.rates)
          /\ \E f \in BOOLEAN : best = [m EXCEPT !.fractional = f]
          /\ m \in ModeType
    BY FoundMode
  <2>2. best.name = m.name /\ best.framerate = m.framerate /\ m.framerate \in Nat
    BY <2>1 DEF ModeType
  <2>3. /\ m.format = g_current_mode.format /\ Delta(m, hz) <= 11
        /\ Allowed(DisplayModeHz(best))
    BY <2>1 DEF Eligible, Usable, Allowed
  <2>4. hz \in Nat \ {0}
    BY FoundMode
  <2> QED BY <2>2, <2>3, <2>4, NearMultiple
<1> QED BY <1>1, ModesAlways, PTL

-----------------------------------------------------------------------------
(* The best mode is found *)

\* Of the allowed variants of a mode the nearest to the multiple is taken.
LEMMA NearestVariant ==
  ASSUME NEW m \in ModeType, NEW h, NEW rates, NEW c \in Int, ClosestMultiple(m, h) = c,
         NEW f \in BOOLEAN,
         ~RateIsBlacklisted(DisplayModeHz([m EXCEPT !.fractional = f]), rates)
  PROVE  LET v == AllowedVariant(m, h, rates)
         IN /\ ~RateIsBlacklisted(DisplayModeHz(v), rates)
            /\ Distance(DisplayModeHz(v), c)
                 <= Distance(DisplayModeHz([m EXCEPT !.fractional = f]), c)
<1> DEFINE int == [m EXCEPT !.fractional = FALSE]
           frac == [m EXCEPT !.fractional = TRUE]
           v == AllowedVariant(m, h, rates)
<1>1. PICK I \in Nat, R \in Nat :
        I = DisplayModeHz(int) /\ R = DisplayModeHz(frac) /\ I = m.framerate * 256
  <2>1. DisplayModeHz(int) \in Nat /\ DisplayModeHz(frac) \in Nat
    BY HzTyped DEF ModeType
  <2>2. DisplayModeHz(int) = m.framerate * 256
    BY DEF DisplayModeHz, ModeType
  <2> QED BY <2>1, <2>2
<1>2. PICK dI \in Nat, dR \in Nat : dI = Distance(I, c) /\ dR = Distance(R, c)
  BY DEF Distance
<1>3. DisplayModeSetHz(m, h) = [m EXCEPT !.fractional = R # I /\ dI >= dR]
  BY <1>1, <1>2 DEF DisplayModeSetHz
<1>4. /\ [int EXCEPT !.fractional = ~@] = frac
      /\ [frac EXCEPT !.fractional = ~@] = int
  BY DEF ModeType
<1>5. [m EXCEPT !.fractional = f] = IF f THEN frac ELSE int
  OBVIOUS
<1> HIDE DEF int, frac
<1>6. CASE R # I /\ dI >= dR
  <2>1. DisplayModeSetHz(m, h) = frac
    BY <1>3, <1>6 DEF frac
  <2>2. v = IF RateIsBlacklisted(R, rates) THEN int ELSE frac
    BY <1>1, <1>4, <2>1 DEF AllowedVariant
  <2>3. CASE RateIsBlacklisted(R, rates)
    <3>1. v = [m EXCEPT !.fractional = f] /\ v = int
      BY <1>1, <1>5, <2>2, <2>3
    <3>2. Distance(DisplayModeHz(v), c) = dI
      BY <1>1, <1>2, <3>1
    <3> QED BY <3>1, <3>2
  <2>4. CASE ~RateIsBlacklisted(R, rates)
    <3>1. v = frac /\ dR <= dI /\ dR <= dR
      BY <1>6, <2>2, <2>4
    <3>2. Distance(DisplayModeHz([m EXCEPT !.fractional = f]), c) \in {dI, dR}
      BY <1>1, <1>2, <1>5
    <3> QED BY <1>1, <1>2, <2>4, <3>1, <3>2
  <2> QED BY <2>3, <2>4
<1>7. CASE ~(R # I /\ dI >= dR)
  <2>1. DisplayModeSetHz(m, h) = int
    BY <1>3, <1>7 DEF int
  <2>2. v = IF RateIsBlacklisted(I, rates) THEN frac ELSE int
    BY <1>1, <1>4, <2>1 DEF AllowedVariant
  <2>3. CASE RateIsBlacklisted(I, rates)
    <3>1. v = [m EXCEPT !.fractional = f] /\ v = frac
      BY <1>1, <1>5, <2>2, <2>3
    <3>2. Distance(DisplayModeHz(v), c) = dR
      BY <1>1, <1>2, <3>1
    <3> QED BY <3>1, <3>2
  <2>4. CASE ~RateIsBlacklisted(I, rates)
    <3>1. v = int /\ dI <= dR /\ dI <= dI
      BY <1>2, <1>7, <2>2, <2>4
    <3>2. Distance(DisplayModeHz([m EXCEPT !.fractional = f]), c) \in {dI, dR}
      BY <1>1, <1>2, <1>5
    <3> QED BY <1>1, <1>2, <2>4, <3>1, <3>2
  <2> QED BY <2>3, <2>4
<1> QED BY <1>6, <1>7

LEMMA VariantsAre ==
  ASSUME NEW m
  PROVE  Variants(m) # {} => \E f \in BOOLEAN :
           ~RateIsBlacklisted(DisplayModeHz([m EXCEPT !.fractional = f]), cfg.rates)
  BY DEF Variants, Allowed

\* A mode that differs is rated below those that do not.
LEMMA RatedIs ==
  ASSUME NEW m, NEW h, NEW prefer_exact, NEW d \in 0..11, NEW n \in 1..3,
         Delta(m, h) = d, Divisor(m, h) = n
  PROVE  Rated(m, h, prefer_exact) =
           (11 - d) * 16 + 4 * (IF prefer_exact THEN 4 - n ELSE n - 1)
  BY DEF Rated, Rating

\* Among usual rates, where the display has a mode that shows every frame once or
\* twice, the one wanted is found, in the variant nearest to the movie among those
\* allowed, for every display, configuration and order of the list.
THEOREM BestFoundAmongUsualRates == Spec => [](UsualRates => BestIsFound)
<1>1. ModesInv /\ UsualRates => BestIsFound
  <2> SUFFICES ASSUME ModesInv, UsualRates, hz # 0, SuitsTimes(1) \/ SuitsTimes(2)
               PROVE  /\ best # NoMode /\ HzClose(best.framerate * 256, Wanted * hz)
                      /\ \A v \in Variants(best) :
                           Distance(DisplayModeHz(best), Wanted * hz)
                             <= Distance(v, Wanted * hz)
    BY DEF BestIsFound
  <2> DEFINE exact == cfg.prefer_exact
  <2>1. hz \in Nat \ {0} /\ cfg \in Config /\ exact \in BOOLEAN
    BY ConfigAssumption DEF ModesInv
  <2>2. \A m \in ToSet(g_modes) :
          m \in ModeType /\ m.framerate \in Nat /\ m.fractional = FALSE
    BY ListTyped DEF ModesInv, ModeType
  <2>3. PICK W \in {1, 2} : W = Wanted /\ SuitsTimes(W)
    BY DEF Wanted
  <2>4. PICK w \in ToSet(g_modes) : Suits(w, W)
    BY <2>3 DEF SuitsTimes
  <2>5. ASSUME NEW m \in ToSet(g_modes), NEW n \in {1, 2, 3},
               m.format = g_current_mode.format, HzClose(m.framerate * 256, n * hz)
        PROVE  JustAbove(m.framerate * 256, n * hz)
    BY <2>1, <2>5 DEF UsualRates
  <2>6. Eligible(w, g_current_mode, hz, cfg.rates)
        /\ Divisor(w, hz) = W /\ Delta(w, hz) = 0
    <3>1. JustAbove(w.framerate * 256, W * hz)
      BY <2>4, <2>5 DEF Suits
    <3>2. Divisor(w, hz) = W /\ Delta(w, hz) = 0
      BY <2>1, <2>2, <3>1, UsualDivisor
    <3>3. PICK f \in BOOLEAN :
            ~RateIsBlacklisted(DisplayModeHz([w EXCEPT !.fractional = f]), cfg.rates)
      BY <2>4, VariantsAre DEF Suits
    <3>4. ClosestMultiple(w, hz) = W * hz /\ W * hz \in Int
      BY <2>1, <2>2, <3>1, UsualClosest
    <3>5. ~RateIsBlacklisted(DisplayModeHz(AllowedVariant(w, hz, cfg.rates)), cfg.rates)
      BY <2>2, <3>3, <3>4, NearestVariant
    <3> QED BY <2>4, <3>2, <3>5 DEF Eligible, Usable, Suits
  <2>7. Rated(w, hz, exact) = 176 + 4 * (IF exact THEN 4 - W ELSE W - 1)
    BY <2>6, RatedIs
  <2>8. PICK m \in ToSet(g_modes) :
          /\ Eligible(m, g_current_mode, hz, cfg.rates)
          /\ best = AllowedVariant(m, hz, cfg.rates)
          /\ Rated(w, hz, exact) <= Rated(m, hz, exact)
    <3>1. Found(best, ToSet(g_modes), g_current_mode, hz, exact, cfg.rates)
      BY <2>1 DEF ModesInv, BestInv
    <3>2. ~(Rated(w, hz, exact) <= 0)
      BY <2>1, <2>7
    <3> QED BY <2>6, <3>1, <3>2 DEF Found
  <2>9. PICK f \in BOOLEAN : best = [m EXCEPT !.fractional = f]
    BY <2>2, <2>8, VariantIs
  <2>10. best # NoMode /\ best.framerate = m.framerate
    BY <2>2, <2>9, NoModeAssumption DEF ModeType
  <2>11. Divisor(m, hz) \in 1..3 /\ Delta(m, hz) \in 0..11
    BY <2>1, <2>2, <2>8, NearMultiple, RatedTyped DEF Eligible, Usable
  <2>12. Rated(m, hz, exact) =
           (11 - Delta(m, hz)) * 16
             + 4 * (IF exact THEN 4 - Divisor(m, hz) ELSE Divisor(m, hz) - 1)
    BY <2>11, RatedIs
  <2>13. Delta(m, hz) = 0
    BY <2>1, <2>7, <2>8, <2>11, <2>12
  <2>14. PICK n \in {1, 2} : Divisor(m, hz) = n /\ HzClose(m.framerate * 256, n * hz)
    <3>1. PICK k \in {1, 2, 3} :
            /\ Divisor(m, hz) = k /\ HzClose(m.framerate * 256, k * hz)
            /\ k = 3 => ~JustAbove(m.framerate * 256, 3 * hz)
      BY <2>1, <2>2, <2>13, ExactDivisor
    <3>2. k # 3
      BY <2>5, <2>8, <3>1 DEF Eligible, Usable
    <3> QED BY <3>1, <3>2
  <2>15. Suits(m, n)
    <3>1. Allowed(DisplayModeHz([m EXCEPT !.fractional = f]))
      BY <2>8, <2>9 DEF Eligible, Usable, Allowed
    <3>2. Variants(m) # {}
      BY <3>1 DEF Variants
    <3> QED BY <2>8, <2>14, <3>2 DEF Suits, Eligible, Usable
  <2>16. n = W
    <3>1. SuitsTimes(n)
      BY <2>15 DEF SuitsTimes
    <3>2. (IF exact THEN 4 - W ELSE W - 1) <= (IF exact THEN 4 - n ELSE n - 1)
      BY <2>1, <2>7, <2>8, <2>12, <2>13, <2>14
    <3> QED BY <2>1, <2>3, <3>1, <3>2 DEF Wanted
  <2>17. ClosestMultiple(m, hz) = W * hz /\ W * hz \in Int
    <3>1. JustAbove(m.framerate * 256, n * hz)
      BY <2>5, <2>15 DEF Suits
    <3> QED BY <2>1, <2>2, <2>16, <3>1, UsualClosest
  <2>18. ASSUME NEW v \in Variants(best)
         PROVE  Distance(DisplayModeHz(best), W * hz) <= Distance(v, W * hz)
    <3>1. PICK b \in BOOLEAN :
            v = DisplayModeHz([best EXCEPT !.fractional = b]) /\ Allowed(v)
      BY DEF Variants
    <3>2. [best EXCEPT !.fractional = b] = [m EXCEPT !.fractional = b]
      BY <2>2, <2>9 DEF ModeType
    <3> QED BY <2>2, <2>8, <2>17, <3>1, <3>2, NearestVariant DEF Allowed
  <2> QED BY <2>3, <2>10, <2>14, <2>16, <2>18
<1> QED BY <1>1, ModesAlways, PTL

=============================================================================
