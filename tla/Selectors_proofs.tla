--------------------------- MODULE Selectors_proofs ---------------------------
(***************************************************************************)
(* Proofs about Selectors: for every configuration file, every fleet and   *)
(* every width of the rotation counter the slice operations sort by        *)
(* Precedes, and validation accepts an alias exactly if what resolve makes *)
(* of it can be served.                                                    *)
(*                                                                         *)
(* Every stage's slice lists the positions of the healthy candidates, in   *)
(* an order of its own: as configured, then by the distance from the       *)
(* rotation's start or by tier and cost, then with the consumer's protocol *)
(* first.  The lemmas say what each slice operation makes of a list in     *)
(* some order.                                                             *)
(***************************************************************************)
EXTENDS Selectors, Ascending_proofs

------------------------------------------------------------------------------
\* The survivors are finitely many positions of the plan.
LEMMA FitIs ==
  ASSUME NEW v \in Snapshot, NEW p \in Plan
  PROVE  /\ Fit(v, p) \in SUBSET Nat /\ IsFiniteSet(Fit(v, p))
         /\ \A i \in Fit(v, p) : i \in DOMAIN p.cands /\ p.cands[i] \in Candidate
<1>1. p.cands \in Seq(Candidate) /\ Len(p.cands) \in Nat
  BY DEF Plan
<1>2. Fit(v, p) \subseteq 1..Len(p.cands)
  BY <1>1 DEF Fit
<1>3. IsFiniteSet(1..Len(p.cands))
  BY <1>1, FS_Interval
<1> QED
  BY <1>1, <1>2, <1>3, FS_Subset

\* Shift is the distance of a survivor from the start of the rotation.
LEMMA ShiftIs ==
  ASSUME NEW v, NEW p, NEW t, NEW i
  PROVE  Shift(v, p, t, i) = Distance(Fit(v, p), t, i)
BY DEF Shift, Distance

------------------------------------------------------------------------------
\* s lists the members of S, each once, in the order R.
Lists(s, S, R) ==
  /\ s \in Seq(S)
  /\ S = {s[k] : k \in DOMAIN s}
  /\ \A k, l \in DOMAIN s : k < l => s[k] # s[l] /\ <<s[k], s[l]>> \in R

Increasing(S) == {p \in S \X S : p[1] < p[2]}

------------------------------------------------------------------------------
\* The places of a sequence.
LEMMA Places ==
  ASSUME NEW S, NEW s \in Seq(S)
  PROVE  /\ Len(s) \in Nat /\ DOMAIN s = 1..Len(s) /\ DOMAIN s \in SUBSET Nat
         /\ IsFiniteSet(DOMAIN s) /\ Cardinality(DOMAIN s) = Len(s)
         /\ \A k \in DOMAIN s : s[k] \in S
<1>1. Len(s) \in Nat /\ DOMAIN s = 1..Len(s) /\ \A k \in DOMAIN s : s[k] \in S
  OBVIOUS
<1>2. IsFiniteSet(1..Len(s)) /\ Cardinality(1..Len(s)) = Len(s)
  <2>1. 1 \in Int /\ Len(s) \in Int /\ (IF 1 > Len(s) THEN 0 ELSE Len(s) - 1 + 1) = Len(s)
    BY <1>1
  <2> QED
    BY <2>1, FS_Interval
<1> QED
  BY <1>1, <1>2

\* A sequence of what its entries all are.
LEMMA Narrowed ==
  ASSUME NEW S, NEW T, NEW s \in Seq(S), \A k \in DOMAIN s : s[k] \in T
  PROVE  s \in Seq(T)
<1>1. Len(s) \in Nat /\ DOMAIN s = 1..Len(s) /\ s \in [1..Len(s) -> S]
  OBVIOUS
<1>2. s \in [1..Len(s) -> T]
  BY <1>1
<1> QED
  BY <1>1, <1>2

\* A list repeats nothing.
LEMMA ListsOnce ==
  ASSUME NEW S, NEW R, NEW s, Lists(s, S, R)
  PROVE  IsInjective(s) /\ ToSet(s) = S
<1>1. s \in Seq(S) /\ DOMAIN s \in SUBSET Nat
  BY Places DEF Lists
<1>2. ASSUME NEW k \in DOMAIN s, NEW l \in DOMAIN s, s[k] = s[l]
      PROVE  k = l
  <2>1. k \in Nat /\ l \in Nat
    BY <1>1
  <2>2. ~(k < l) /\ ~(l < k)
    BY <1>2 DEF Lists
  <2> QED
    BY <2>1, <2>2
<1>3. ToSet(s) = S
  BY DEF ToSet, Lists
<1> QED
  BY <1>2, <1>3 DEF IsInjective

\* A list stays one in every order that agrees on its pairs.
LEMMA ListsIn ==
  ASSUME NEW S, NEW Q, NEW R, NEW s, Lists(s, S, Q),
         \A x, y \in S : x # y /\ <<x, y>> \in Q => <<x, y>> \in R
  PROVE  Lists(s, S, R)
<1>1. \A k \in DOMAIN s : s[k] \in S
  BY Places DEF Lists
<1> QED
  BY <1>1 DEF Lists

\* Two lists of disjoint sets, one after the other.
LEMMA ListsBoth ==
  ASSUME NEW A, NEW B, A \cap B = {}, NEW Q, NEW R, NEW s, NEW t,
         Lists(s, A, Q), Lists(t, B, Q),
         \A x \in A, y \in B : <<x, y>> \in R,
         \A x, y \in A \cup B : <<x, y>> \in Q => <<x, y>> \in R
  PROVE  Lists(s \o t, A \cup B, R)
<1> DEFINE m == Len(s)
           n == Len(t)
           u == s \o t
<1>1. /\ s \in Seq(A) /\ m \in Nat /\ DOMAIN s = 1..m /\ \A k \in 1..m : s[k] \in A
      /\ t \in Seq(B) /\ n \in Nat /\ DOMAIN t = 1..n /\ \A k \in 1..n : t[k] \in B
  BY Places DEF Lists
<1>2. s \in Seq(A \cup B) /\ t \in Seq(A \cup B)
  BY <1>1
<1>3. u \in Seq(A \cup B) /\ Len(u) = m + n
  BY <1>1, <1>2
<1>4. DOMAIN u = 1..(m + n)
  BY <1>3
<1>5. \A k \in 1..m : u[k] = s[k]
  BY <1>1, <1>2
<1>6. \A k \in 1..n : u[m + k] = t[k]
  BY <1>1, <1>2
<1>7. /\ A = {s[k] : k \in 1..m} /\ B = {t[k] : k \in 1..n}
      /\ \A k, l \in 1..m : k < l => s[k] # s[l] /\ <<s[k], s[l]>> \in Q
      /\ \A k, l \in 1..n : k < l => t[k] # t[l] /\ <<t[k], t[l]>> \in Q
  BY <1>1 DEF Lists
<1> HIDE DEF m, n, u
<1>8. ASSUME NEW x \in A \cup B
      PROVE  \E k \in 1..(m + n) : u[k] = x
  <2>1. CASE x \in A
    <3>1. PICK k \in 1..m : x = s[k]
      BY <1>7, <2>1
    <3>2. k \in 1..(m + n)
      BY <1>1
    <3> QED
      BY <1>5, <3>1, <3>2
  <2>2. CASE x \in B
    <3>1. PICK k \in 1..n : x = t[k]
      BY <1>7, <2>2
    <3>2. m + k \in 1..(m + n)
      BY <1>1
    <3> QED
      BY <1>6, <3>1, <3>2
  <2> QED
    BY <2>1, <2>2
<1>9. ASSUME NEW k \in 1..(m + n), NEW l \in 1..(m + n), k < l
      PROVE  u[k] # u[l] /\ <<u[k], u[l]>> \in R
  <2>1. CASE l <= m
    <3>1. k \in 1..m /\ l \in 1..m
      BY <1>1, <1>9, <2>1
    <3>2. s[k] # s[l] /\ <<s[k], s[l]>> \in Q /\ s[k] \in A /\ s[l] \in A
      BY <1>1, <1>7, <1>9, <3>1
    <3> QED
      BY <1>5, <3>1, <3>2
  <2>2. CASE k > m
    <3> DEFINE i == k - m
               j == l - m
    <3>1. i \in 1..n /\ j \in 1..n /\ i < j /\ k = m + i /\ l = m + j
      BY <1>1, <1>9, <2>2
    <3> HIDE DEF i, j
    <3>2. t[i] # t[j] /\ <<t[i], t[j]>> \in Q /\ t[i] \in B /\ t[j] \in B
      BY <1>1, <1>7, <3>1
    <3>3. u[k] = t[i] /\ u[l] = t[j]
      BY <1>6, <3>1
    <3> QED
      BY <3>2, <3>3
  <2>3. CASE k <= m /\ l > m
    <3> DEFINE j == l - m
    <3>1. k \in 1..m /\ j \in 1..n /\ l = m + j
      BY <1>1, <2>3
    <3> HIDE DEF j
    <3>2. u[k] = s[k] /\ u[l] = t[j] /\ s[k] \in A /\ t[j] \in B
      BY <1>1, <1>5, <1>6, <3>1
    <3> QED
      BY <3>2
  <2> QED
    BY <1>1, <2>1, <2>2, <2>3
<1>10. \A k \in 1..(m + n) : u[k] \in A \cup B
  BY <1>3, <1>4
<1>11. A \cup B = {u[k] : k \in 1..(m + n)}
  BY <1>8, <1>10
<1> QED
  BY <1>3, <1>4, <1>9, <1>11 DEF Lists, u

\* Of a list Kept keeps the list of some of its members, in the same order.
LEMMA ListsKept ==
  ASSUME NEW S, NEW R, NEW s, Lists(s, S, R), NEW T \in SUBSET S, NEW P,
         P = {k \in DOMAIN s : s[k] \in T}
  PROVE  Lists(Kept(s, P), T, R)
<1>0. P \in SUBSET (DOMAIN s)
  OBVIOUS
<1>1. s \in Seq(S) /\ S = {s[k] : k \in DOMAIN s}
  BY DEF Lists
<1>2. Kept(s, P) \in Seq(S) /\ DOMAIN Kept(s, P) = 1..Cardinality(P) /\ Follows(Kept(s, P), s, P)
  BY <1>0, <1>1, KeptIs
<1> DEFINE u == Kept(s, P)
           n == Cardinality(P)
<1> HIDE DEF u, n
<1>8. u \in Seq(S) /\ DOMAIN u = 1..n /\ Follows(u, s, P)
  BY <1>2 DEF u, n
<1>3. {s[i] : i \in P} = T
  BY <1>1
<1>4. T = {u[k] : k \in DOMAIN u}
  BY <1>3, <1>8 DEF Follows
<1>5. u \in Seq(T)
  BY <1>4, <1>8, Narrowed
<1>6. ASSUME NEW k \in DOMAIN u, NEW l \in DOMAIN u, k < l
      PROVE  u[k] # u[l] /\ <<u[k], u[l]>> \in R
  <2>1. PICK i \in P, j \in P : i < j /\ u[k] = s[i] /\ u[l] = s[j]
    BY <1>6, <1>8 DEF Follows
  <2>2. s[i] # s[j] /\ <<s[i], s[j]>> \in R
    BY <1>1, <2>1 DEF Lists
  <2> QED
    BY <2>1, <2>2
<1>7. Lists(u, T, R)
  BY <1>4, <1>5, <1>6 DEF Lists
<1> QED
  BY <1>7 DEF u

\* The listing of a set of naturals is a list in their order.
LEMMA ListsAscending ==
  ASSUME NEW S \in SUBSET Nat, IsFiniteSet(S)
  PROVE  Lists(Ascending(S), S, Increasing(S))
<1> DEFINE a == Ascending(S)
           n == Cardinality(S)
<1>1. /\ a \in Seq(S) /\ DOMAIN a = 1..n /\ {a[k] : k \in 1..n} = S
      /\ \A k, l \in 1..n : k < l => a[k] < a[l]
  BY AscendingLists
<1> HIDE DEF a, n
<1>2. \A k \in DOMAIN a : a[k] \in S /\ a[k] \in Nat
  BY <1>1
<1>3. ASSUME NEW k \in DOMAIN a, NEW l \in DOMAIN a, k < l
      PROVE  a[k] # a[l] /\ <<a[k], a[l]>> \in Increasing(S)
  <2>1. a[k] < a[l] /\ a[k] \in S /\ a[l] \in S /\ a[k] \in Nat /\ a[l] \in Nat
    BY <1>1, <1>2, <1>3
  <2> QED
    BY <2>1 DEF Increasing
<1>4. Lists(a, S, Increasing(S))
  BY <1>1, <1>3 DEF Lists
<1> QED
  BY <1>4 DEF a
------------------------------------------------------------------------------
\* By cost, then as the list came.
Cheaper(S) ==
  {p \in S \X S : \/ CostOf(p[1]) < CostOf(p[2])
                  \/ CostOf(p[1]) = CostOf(p[2]) /\ p[1] < p[2]}

\* A candidate's cost is a number.
LEMMA CostTyped ==
  ASSUME view \in Snapshot, plan \in Plan, NEW i \in DOMAIN plan.cands
  PROVE  CostOf(i) \in Nat
<1>1. plan.cands[i] \in Candidate
  BY DEF Plan
<1>2. view[plan.cands[i].backend] \in BackendState
  BY <1>1 DEF Candidate, Snapshot
<1> QED
  BY <1>2 DEF CostOf, Cost, BackendState

\* rankByCost sorts a list of positions by cost and leaves ties as they were.
LEMMA RankByCostIs ==
  ASSUME view \in Snapshot, plan \in Plan, NEW S \in SUBSET (DOMAIN plan.cands), NEW s,
         Lists(s, S, Increasing(S))
  PROVE  Lists(RankByCost(s), S, Cheaper(S))
<1> DEFINE D == DOMAIN s
           R == {p \in D \X D : Goes(s, p[1], p[2])}
           n == Cardinality(D)
           at == Listed(D, R)
<1>1. /\ s \in Seq(S) /\ D \in SUBSET Nat /\ IsFiniteSet(D)
      /\ \A k \in D : s[k] \in S /\ k \in Nat
  BY Places DEF Lists
<1>2. \A k \in D : CostOf(s[k]) \in Nat
  <2>1. ASSUME NEW k \in D
        PROVE  CostOf(s[k]) \in Nat
    <3>1. s[k] \in DOMAIN plan.cands
      BY <1>1
    <3> QED
      BY <3>1, CostTyped
  <2> QED
    BY <2>1
<1>3. \A h, k \in D : <<h, k>> \in R <=> Goes(s, h, k)
  OBVIOUS
<1>4. S = {s[k] : k \in D} /\ \A k, l \in D : k < l => s[k] # s[l] /\ <<s[k], s[l]>> \in Increasing(S)
  BY DEF Lists
<1>5. \A k, l \in D : k < l => s[k] < s[l]
  BY <1>4 DEF Increasing
<1> HIDE DEF D, R
<1>6. IsOrder(D, R)
  <2>1. \A h, k \in D : Goes(s, h, k) \/ Goes(s, k, h)
    BY <1>1, <1>2 DEF Goes
  <2>2. \A h, k \in D : Goes(s, h, k) /\ Goes(s, k, h) => h = k
    BY <1>1, <1>2 DEF Goes
  <2>3. \A h, k, l \in D : Goes(s, h, k) /\ Goes(s, k, l) => Goes(s, h, l)
    BY <1>1, <1>2 DEF Goes
  <2> QED
    BY <1>3, <2>1, <2>2, <2>3 DEF IsOrder
<1>7. /\ n \in Nat /\ DOMAIN at = 1..n
      /\ {at[k] : k \in 1..n} = D
      /\ \A k, l \in 1..n : k < l => at[k] # at[l] /\ <<at[k], at[l]>> \in R
  BY <1>1, <1>6, ListedLists
<1> DEFINE r == RankByCost(s)
<1>8. r = [k \in DOMAIN at |-> s[at[k]]]
  BY DEF RankByCost, R, D
<1> HIDE DEF at, n, r
<1>9. \A k \in 1..n : at[k] \in D
  BY <1>7
<1>10. DOMAIN r = 1..n /\ \A k \in 1..n : r[k] = s[at[k]]
  BY <1>7, <1>8
<1>11. r \in [1..n -> S]
  BY <1>1, <1>7, <1>8, <1>9
<1>12. r \in Seq(S)
  BY <1>7, <1>11
<1>13. S = {r[k] : k \in DOMAIN r}
  <2>1. \A x \in S : \E k \in 1..n : x = r[k]
    BY <1>4, <1>7, <1>10
  <2> QED
    BY <1>10, <1>11, <2>1
<1>14. ASSUME NEW k \in DOMAIN r, NEW l \in DOMAIN r, k < l
       PROVE  r[k] # r[l] /\ <<r[k], r[l]>> \in Cheaper(S)
  <2> DEFINE h == at[k]
             i == at[l]
  <2>1. h \in D /\ i \in D /\ h # i /\ <<h, i>> \in R /\ r[k] = s[h] /\ r[l] = s[i]
    BY <1>7, <1>9, <1>10, <1>14
  <2> HIDE DEF h, i
  <2>2. Goes(s, h, i)
    BY <1>3, <2>1
  <2>3. h \in Nat /\ i \in Nat /\ s[h] \in S /\ s[i] \in S /\ CostOf(s[h]) \in Nat /\ CostOf(s[i]) \in Nat
    BY <1>1, <1>2, <2>1
  <2>4. s[h] # s[i]
    <3>1. h < i \/ i < h
      BY <2>1, <2>3
    <3> QED
      BY <1>4, <2>1, <3>1
  <2>5. \/ CostOf(s[h]) < CostOf(s[i])
        \/ CostOf(s[h]) = CostOf(s[i]) /\ s[h] < s[i]
    BY <1>5, <2>1, <2>2, <2>3 DEF Goes
  <2> QED
    BY <2>1, <2>3, <2>4, <2>5 DEF Cheaper
<1>15. Lists(r, S, Cheaper(S))
  BY <1>12, <1>13, <1>14 DEF Lists
<1> QED
  BY <1>15 DEF r
------------------------------------------------------------------------------
Nearer(s, p, t) == {q \in Fit(s, p) \X Fit(s, p) : Shift(s, p, t, q[1]) < Shift(s, p, t, q[2])}

\* Rotating the survivors lists them by their distance from the start.
LEMMA RotatedByIs ==
  ASSUME NEW v \in Snapshot, NEW p \in Plan, NEW t \in Nat, Fit(v, p) # {}
  PROVE  LET s == Ascending(Fit(v, p))
         IN Lists(RotatedBy(s, t % Len(s)), Fit(v, p), Nearer(v, p, t))
<1> DEFINE S == Fit(v, p)
           s == Ascending(S)
           n == Cardinality(S)
           start == t % n
           at(k) == ((start + k - 1) % n) + 1
           r == [k \in DOMAIN s |-> s[((start + k - 1) % Len(s)) + 1]]
<1>1. S \in SUBSET Nat /\ IsFiniteSet(S) /\ S # {}
  BY FitIs
<1>2. s \in Seq(S) /\ Len(s) = n /\ DOMAIN s = 1..n /\ {s[k] : k \in 1..n} = S
  BY <1>1, AscendingLists
<1>3. \A k \in 1..n : s[k] \in S /\ Place(S, s[k]) = k
  BY <1>1, AscendingAt
<1>4. n \in Nat \ {0}
  BY <1>1, FS_CardinalityType, FS_EmptySet
<1>5. start \in 0..(n - 1)
  BY <1>4, Division
<1>6. ASSUME NEW k \in 1..n
      PROVE  at(k) = (IF start + k - 1 < n THEN start + k ELSE start + k - n) /\ at(k) \in 1..n
  <2> DEFINE x == start + k - 1
  <2> HIDE DEF n, start
  <2>1. x \in 0..(2 * n - 1)
    BY <1>4, <1>5, <1>6
  <2>2. x % n = IF x < n THEN x ELSE x - n
    <3> HIDE DEF x
    <3> QED
      BY <1>4, <2>1, ReduceOnce
  <2> QED
    BY <1>4, <1>5, <1>6, <2>1, <2>2
<1>7. \A k \in 1..n : r[k] = s[at(k)] /\ DOMAIN r = 1..n
  BY <1>2
<1>8. ASSUME NEW k \in 1..n
      PROVE  r[k] \in S /\ Shift(v, p, t, r[k]) = k - 1
  <2> DEFINE i == s[at(k)]
  <2>1. i \in S /\ Place(S, i) = at(k)
    BY <1>3, <1>6
  <2>2. Shift(v, p, t, i) = IF at(k) > start THEN at(k) - 1 - start ELSE at(k) - 1 + n - start
    <3> HIDE DEF i
    <3> QED
      BY <1>1, <2>1, ShiftIs, DistanceIs
  <2> DEFINE a == at(k)
             f == Shift(v, p, t, i)
  <2>3. /\ a = (IF start + k - 1 < n THEN start + k ELSE start + k - n)
        /\ f = IF a > start THEN a - 1 - start ELSE a - 1 + n - start
    BY <1>6, <2>2
  <2>4. f = k - 1
    <3> HIDE DEF a, f, n, start
    <3> QED
      BY <1>4, <1>5, <2>3
  <2> QED
    BY <1>7, <2>1, <2>4
<1>9. \A i \in S : \E k \in 1..n : i = r[k]
  <2>1. ASSUME NEW i \in S
        PROVE  \E k \in 1..n : at(k) = Place(S, i)
    <3> DEFINE j == Place(S, i)
               k == IF j > start THEN j - start ELSE j - start + n
    <3>1. j \in 1..n
      BY <1>1, PlaceTyped
    <3>2. k \in 1..n /\ j = IF start + k - 1 < n THEN start + k ELSE start + k - n
      <4> HIDE DEF j, n, start
      <4> QED
        BY <1>4, <1>5, <3>1
    <3>3. at(k) = IF start + k - 1 < n THEN start + k ELSE start + k - n
      <4> HIDE DEF k, n, start, at
      <4> QED
        BY <1>6, <3>2
    <3>4. at(k) = j
      BY <3>2, <3>3
    <3> QED
      BY <3>2, <3>4
  <2>2. ASSUME NEW i \in S, NEW k \in 1..n, at(k) = Place(S, i)
        PROVE  i = r[k]
    <3>1. r[k] \in S /\ Place(S, r[k]) = Place(S, i)
      <4> HIDE DEF at, r, s
      <4> QED
        BY <1>3, <1>6, <1>7, <2>2
    <3>2. PICK j \in 1..n : i = s[j]
      BY <1>2
    <3>3. Place(S, i) = j
      BY <1>3, <3>2
    <3> HIDE DEF at, r, s
    <3> QED
      BY <1>7, <2>2, <3>2, <3>3
  <2> HIDE DEF at, r
  <2> QED
    BY <2>1, <2>2
<1>10. r = RotatedBy(s, t % Len(s))
  BY <1>2 DEF RotatedBy
<1> HIDE DEF r, at, start, n, s
<1>11. DOMAIN r = 1..n
  BY <1>4, <1>7
<1>12. r \in [1..n -> S]
  <2>1. r = [k \in 1..n |-> r[k]]
    BY <1>2 DEF r
  <2> QED
    BY <1>8, <2>1
<1>13. r \in Seq(S)
  BY <1>4, <1>12
<1>14. S = {r[k] : k \in DOMAIN r}
  BY <1>8, <1>9, <1>11
<1>15. ASSUME NEW k \in DOMAIN r, NEW l \in DOMAIN r, k < l
       PROVE  r[k] # r[l] /\ <<r[k], r[l]>> \in Nearer(v, p, t)
  <2> DEFINE x == r[k]
             y == r[l]
  <2>1. /\ x \in S /\ y \in S /\ k \in Int /\ l \in Int
        /\ Shift(v, p, t, x) = k - 1 /\ Shift(v, p, t, y) = l - 1
    BY <1>8, <1>11
  <2> HIDE DEF x, y
  <2>2. Shift(v, p, t, x) < Shift(v, p, t, y)
    BY <1>15, <2>1
  <2>3. x # y
    BY <1>15, <2>1
  <2>4. <<x, y>> \in Nearer(v, p, t)
    BY <2>1, <2>2 DEF Nearer
  <2> QED
    BY <2>3, <2>4 DEF x, y
<1>16. Lists(r, S, Nearer(v, p, t))
  BY <1>13, <1>14, <1>15 DEF Lists
<1> QED
  BY <1>10, <1>16 DEF s
------------------------------------------------------------------------------
Survivors == Fit(view, plan)

\* The order that the failover loop should find.
Due(t) ==
  {p \in Survivors \X Survivors : Precedes(view, plan, t, consumer, override, p[1], p[2])}

\* The pareto selector returns the survivors in that order: those above the bar
\* by cost, then the others by cost.
LEMMA RankIs ==
  ASSUME view \in Snapshot, plan \in Plan, plan.selector = "pareto", NEW s, NEW t,
         Lists(s, Survivors, Increasing(Survivors))
  PROVE  Lists(RankByCost(Kept(s, GoodEnough(s)))
                 \o RankByCost(Kept(s, DOMAIN s \ GoodEnough(s))), Survivors, Due(t))
<1> DEFINE S    == Survivors
           bar  == Bar(plan, override)
           Good == {i \in S : plan.cands[i].quality >= bar}
           Poor == S \ Good
           up   == Increasing(S)
<1>1. S \in SUBSET Nat /\ IsFiniteSet(S) /\ S \subseteq DOMAIN plan.cands
  BY FitIs DEF Survivors
<1>2. \A k \in DOMAIN s : s[k] \in S
  BY Places DEF Lists
<1>3. GoodEnough(s) = {k \in DOMAIN s : s[k] \in Good}
  BY <1>2 DEF GoodEnough
<1>4. DOMAIN s \ GoodEnough(s) = {k \in DOMAIN s : s[k] \in Poor}
  BY <1>2, <1>3
<1>5. Good \subseteq S /\ Poor \subseteq S /\ Good \cap Poor = {} /\ Good \cup Poor = S
  OBVIOUS
<1> HIDE DEF Good, Poor, S
<1>6. Lists(Kept(s, GoodEnough(s)), Good, up)
  BY <1>3, <1>5, ListsKept DEF S
<1>7. Lists(Kept(s, DOMAIN s \ GoodEnough(s)), Poor, up)
  BY <1>4, <1>5, ListsKept DEF S
<1>8. ASSUME NEW T, T \subseteq S, NEW u, Lists(u, T, up)
      PROVE  Lists(RankByCost(u), T, Cheaper(T))
  <2>1. \A x, y \in T : <<x, y>> \in up => <<x, y>> \in Increasing(T)
    BY <1>8 DEF Increasing
  <2>2. Lists(u, T, Increasing(T))
    BY <1>8, <2>1, ListsIn
  <2>3. T \subseteq DOMAIN plan.cands
    BY <1>1, <1>8
  <2> QED
    BY <2>2, <2>3, RankByCostIs
<1> DEFINE g == RankByCost(Kept(s, GoodEnough(s)))
           p == RankByCost(Kept(s, DOMAIN s \ GoodEnough(s)))
           Q == Cheaper(Good) \cup Cheaper(Poor)
<1>9. Lists(g, Good, Cheaper(Good)) /\ Lists(p, Poor, Cheaper(Poor))
  BY <1>5, <1>6, <1>7, <1>8
<1> HIDE DEF g, p
<1>10. Lists(g, Good, Q) /\ Lists(p, Poor, Q)
  BY <1>9, ListsIn
<1>11. \A x \in Good, y \in Poor : <<x, y>> \in Due(t)
  <2> USE DEF S, Good, Poor
  <2>1. ASSUME NEW x \in Good, NEW y \in Poor
        PROVE  Precedes(view, plan, t, consumer, override, x, y)
    BY DEF Precedes, ParetoBefore
  <2> QED
    BY <2>1 DEF Due
<1>12. \A x, y \in Good \cup Poor : <<x, y>> \in Q => <<x, y>> \in Due(t)
  <2> USE DEF S, Good, Poor
  <2>1. ASSUME NEW x \in Good \cup Poor, NEW y \in Good \cup Poor, <<x, y>> \in Q
        PROVE  Precedes(view, plan, t, consumer, override, x, y)
    BY <2>1 DEF Precedes, ParetoBefore, Cheaper, CostOf
  <2> QED
    BY <2>1 DEF Due
<1>13. Lists(g \o p, Good \cup Poor, Due(t))
  <2> HIDE DEF Q
  <2> QED
    BY <1>5, <1>10, <1>11, <1>12, ListsBoth
<1> QED
  BY <1>5, <1>13 DEF g, p, S

\* Execute keeps the rotation's order within each protocol.
LEMMA PreferIs ==
  ASSUME plan.selector # "pareto", NEW s, NEW t, Lists(s, Survivors, Nearer(view, plan, t))
  PROVE  Lists(Kept(s, Speaking(s)) \o Kept(s, DOMAIN s \ Speaking(s)), Survivors, Due(t))
<1> DEFINE S     == Survivors
           Same  == {i \in S : ProtocolOf[BackendOf(i)] = consumer}
           Other == S \ Same
           Q     == Nearer(view, plan, t)
           a     == Kept(s, Speaking(s))
           b     == Kept(s, DOMAIN s \ Speaking(s))
<1>1. \A k \in DOMAIN s : s[k] \in S
  BY Places DEF Lists
<1>2. Speaking(s) = {k \in DOMAIN s : s[k] \in Same}
  BY <1>1 DEF Speaking
<1>3. DOMAIN s \ Speaking(s) = {k \in DOMAIN s : s[k] \in Other}
  BY <1>1, <1>2
<1>4. Same \subseteq S /\ Other \subseteq S /\ Same \cap Other = {} /\ Same \cup Other = S
  OBVIOUS
<1> HIDE DEF Same, Other, S, Q
<1>5. Lists(a, Same, Q)
  BY <1>2, <1>4, ListsKept DEF S, Q
<1>6. Lists(b, Other, Q)
  BY <1>3, <1>4, ListsKept DEF S, Q
<1>7. \A x \in Same, y \in Other : <<x, y>> \in Due(t)
  <2> USE DEF S, Same, Other
  <2>1. ASSUME NEW x \in Same, NEW y \in Other
        PROVE  Precedes(view, plan, t, consumer, override, x, y)
    BY DEF Precedes, RoundRobinBefore, BackendOf
  <2> QED
    BY <2>1 DEF Due
<1>8. \A x, y \in Same \cup Other : <<x, y>> \in Q => <<x, y>> \in Due(t) \/ (x \in Other /\ y \in Same)
  <2> USE DEF S, Same, Other
  <2>1. ASSUME NEW x \in Same \cup Other, NEW y \in Same \cup Other, <<x, y>> \in Q,
               ~(x \in Other /\ y \in Same)
        PROVE  Precedes(view, plan, t, consumer, override, x, y)
    BY <2>1 DEF Precedes, RoundRobinBefore, Nearer, BackendOf, Q
  <2> QED
    BY <2>1 DEF Due
<1> DEFINE P == Q \cap Due(t)
<1>9. Lists(a, Same, P) /\ Lists(b, Other, P)
  <2>1. \A x, y \in Same : <<x, y>> \in Q => <<x, y>> \in P
    BY <1>4, <1>8
  <2>2. \A x, y \in Other : <<x, y>> \in Q => <<x, y>> \in P
    BY <1>4, <1>8
  <2> HIDE DEF P, a, b
  <2> QED
    BY <1>5, <1>6, <2>1, <2>2, ListsIn
<1>10. Lists(a \o b, Same \cup Other, Due(t))
  <2>1. \A x, y \in Same \cup Other : <<x, y>> \in P => <<x, y>> \in Due(t)
    OBVIOUS
  <2> HIDE DEF P, a, b
  <2> QED
    BY <1>4, <1>7, <1>9, <2>1, ListsBoth
<1> QED
  BY <1>4, <1>10 DEF S

\* The candidates as the plan lists them.
LEMMA GivenIs ==
  ASSUME NEW v \in Snapshot, NEW p \in Plan, NEW s, s = [i \in DOMAIN p.cands |-> i]
  PROVE  Kept(s, Fit(v, p)) = Ascending(Fit(v, p))
<1>1. Fit(v, p) \in SUBSET (DOMAIN p.cands) /\ Fit(v, p) \in SUBSET Nat /\ IsFiniteSet(Fit(v, p))
  BY FitIs
<1>2. LET a == Ascending(Fit(v, p)) IN \A k \in DOMAIN a : a[k] \in Fit(v, p)
  BY <1>1, AscendingLists
<1>3. LET a == Ascending(Fit(v, p)) IN a = [k \in DOMAIN a |-> a[k]]
  BY DEF Ascending
<1> DEFINE a == Ascending(Fit(v, p))
<1>4. Kept(s, Fit(v, p)) = [k \in DOMAIN a |-> s[a[k]]]
  BY DEF Kept
<1> HIDE DEF a
<1>5. [k \in DOMAIN a |-> s[a[k]]] = [k \in DOMAIN a |-> a[k]]
  BY <1>1, <1>2 DEF a
<1> QED
  BY <1>3, <1>4, <1>5 DEF a
------------------------------------------------------------------------------
(* The configuration. *)

\* An entry's fields.
LEMMA EntryFields ==
  ASSUME NEW e \in EntryType
  PROVE  /\ e.model \in Models \cup {NotSet} /\ e.backends \in Seq(Backends)
         /\ e.quality \in 0..MaxQuality
BY DEF EntryType

\* A candidate whose model may be missing.
Offer == [model : Models \cup {NotSet}, backend : Backends, quality : 0..MaxQuality]

\* A pool's candidates: one for each backend of each entry, and no other.
LEMMA PooledIs ==
  ASSUME NEW pool \in Seq(EntryType)
  PROVE  /\ Pooled(pool) \in Seq(Offer)
         /\ \A k \in DOMAIN Pooled(pool) :
              \E i \in DOMAIN pool : \E j \in DOMAIN pool[i].backends :
                Pooled(pool)[k] = [model   |-> pool[i].model,
                                   backend |-> pool[i].backends[j],
                                   quality |-> pool[i].quality]
         /\ \A i \in DOMAIN pool : pool[i].backends # <<>> => Pooled(pool) # <<>>
<1> DEFINE D       == DOMAIN pool
           row(i)  == {i} \X (DOMAIN pool[i].backends)
           places  == UNION {row(i) : i \in D}
           upTo(q) == {p \in places : p[1] < q[1] \/ (p[1] = q[1] /\ p[2] <= q[2])}
           R       == UNION {upTo(q) \X {q} : q \in places}
           at      == Listed(places, R)
           n       == Cardinality(places)
           entry(p) == [model   |-> pool[p[1]].model,
                        backend |-> pool[p[1]].backends[p[2]],
                        quality |-> pool[p[1]].quality]
<1>1. D \in SUBSET Nat /\ IsFiniteSet(D) /\ \A i \in D : pool[i] \in EntryType
  BY Places
<1>2. ASSUME NEW i \in D
      PROVE  DOMAIN pool[i].backends \in SUBSET Nat /\ IsFiniteSet(DOMAIN pool[i].backends)
  <2>1. pool[i].backends \in Seq(Backends)
    BY <1>1, EntryFields
  <2> QED
    BY <2>1, Places
<1>3. \A p \in places : /\ p[1] \in D /\ p[2] \in DOMAIN pool[p[1]].backends
                        /\ p = <<p[1], p[2]>> /\ p[1] \in Nat /\ p[2] \in Nat
  BY <1>1, <1>2
<1>4. IsFiniteSet(places)
  <2> DEFINE f == [i \in D |-> row(i)]
             T == {row(i) : i \in D}
  <2>1. f \in Surjection(D, T)
    BY DEF Surjection
  <2>2. IsFiniteSet(T)
    <3> HIDE DEF f, T
    <3> QED
      BY <1>1, <2>1, FS_Surjection
  <2>3. ASSUME NEW i \in D
        PROVE  IsFiniteSet(row(i))
    BY <1>2, FS_Singleton, FS_Product
  <2>4. \A r \in T : IsFiniteSet(r)
    BY <2>3
  <2> HIDE DEF row
  <2> QED
    BY <2>2, <2>4, FS_UNION
<1>5. \A p, q \in places :
        <<p, q>> \in R <=> p[1] < q[1] \/ (p[1] = q[1] /\ p[2] <= q[2])
  <2> HIDE DEF places
  <2> QED
    OBVIOUS
<1>6. IsOrder(places, R)
  <2> HIDE DEF places, R
  <2>1. ASSUME NEW p \in places, NEW q \in places
        PROVE  <<p, q>> \in R \/ <<q, p>> \in R
    <3>1. p[1] \in Nat /\ p[2] \in Nat /\ q[1] \in Nat /\ q[2] \in Nat
      BY <1>3
    <3>2. \/ p[1] < q[1] \/ (p[1] = q[1] /\ p[2] <= q[2])
          \/ q[1] < p[1] \/ (q[1] = p[1] /\ q[2] <= p[2])
      BY <3>1
    <3> QED
      BY <1>5, <3>2
  <2>2. ASSUME NEW p \in places, NEW q \in places, <<p, q>> \in R, <<q, p>> \in R
        PROVE  p = q
    <3>1. p[1] = q[1] /\ p[2] = q[2]
      BY <1>3, <1>5, <2>2
    <3>2. p = <<p[1], p[2]>> /\ q = <<q[1], q[2]>>
      BY <1>3
    <3> QED
      BY <3>1, <3>2
  <2>3. ASSUME NEW p \in places, NEW q \in places, NEW r \in places,
               <<p, q>> \in R, <<q, r>> \in R
        PROVE  <<p, r>> \in R
    <3>1. /\ p[1] \in Nat /\ p[2] \in Nat /\ q[1] \in Nat /\ q[2] \in Nat
          /\ r[1] \in Nat /\ r[2] \in Nat
      BY <1>3
    <3>2. /\ p[1] < q[1] \/ (p[1] = q[1] /\ p[2] <= q[2])
          /\ q[1] < r[1] \/ (q[1] = r[1] /\ q[2] <= r[2])
      BY <1>5, <2>3
    <3>3. p[1] < r[1] \/ (p[1] = r[1] /\ p[2] <= r[2])
      BY <3>1, <3>2
    <3> QED
      BY <1>5, <3>3
  <2> QED
    BY <2>1, <2>2, <2>3 DEF IsOrder
<1>7. /\ n \in Nat /\ DOMAIN at = 1..n /\ {at[k] : k \in 1..n} = places
  <2> HIDE DEF places, R
  <2> QED
    BY <1>4, <1>6, ListedLists
<1> DEFINE c == Pooled(pool)
<1>8. c = [k \in DOMAIN at |-> entry(at[k])]
  BY DEF Pooled
<1>9. \A k \in 1..n : at[k] \in places
  BY <1>7
<1> HIDE DEF at, n, c
<1>10. DOMAIN c = 1..n /\ \A k \in 1..n : c[k] = entry(at[k])
  BY <1>7, <1>8
<1>11. Len(c) = n
  BY <1>7, <1>8
<1>12. ASSUME NEW k \in DOMAIN c
       PROVE  \E i \in D : \E j \in DOMAIN pool[i].backends :
                c[k] = [model |-> pool[i].model, backend |-> pool[i].backends[j],
                        quality |-> pool[i].quality]
  <2> DEFINE p == at[k]
  <2>1. p \in places /\ c[k] = entry(p)
    BY <1>9, <1>10, <1>12
  <2> HIDE DEF p, places
  <2>2. p[1] \in D /\ p[2] \in DOMAIN pool[p[1]].backends
    BY <1>3, <2>1
  <2> QED
    BY <2>1, <2>2
<1>13. ASSUME NEW i \in D, pool[i].backends # <<>>
       PROVE  c # <<>>
  <2>1. pool[i].backends \in Seq(Backends)
    BY <1>1, EntryFields
  <2>2. 1 \in DOMAIN pool[i].backends
    BY <1>13, <2>1
  <2>3. <<i, 1>> \in row(i)
    BY <2>2
  <2>4. <<i, 1>> \in places
    BY <2>3
  <2>5. n # 0
    <3> HIDE DEF places
    <3> QED
      BY <1>4, <2>4, FS_EmptySet DEF n
  <2>6. Len(c) # 0
    BY <1>11, <2>5
  <2> QED
    BY <2>6
<1>14. c \in Seq(Offer)
  <2>1. ASSUME NEW k \in 1..n
        PROVE  c[k] \in Offer
    <3>0. PICK i \in D : \E j \in DOMAIN pool[i].backends :
            c[k] = [model |-> pool[i].model, backend |-> pool[i].backends[j],
                    quality |-> pool[i].quality]
      BY <1>10, <1>12
    <3>1. PICK j \in DOMAIN pool[i].backends :
            c[k] = [model |-> pool[i].model, backend |-> pool[i].backends[j],
                    quality |-> pool[i].quality]
      BY <3>0
    <3>2. pool[i] \in EntryType
      BY <1>1
    <3>3. pool[i].model \in Models \cup {NotSet} /\ pool[i].quality \in 0..MaxQuality
      BY <3>2, EntryFields
    <3>4. pool[i].backends[j] \in Backends
      BY <3>2, EntryFields, Places
    <3> QED
      BY <3>1, <3>3, <3>4 DEF Offer
  <2>2. c = [k \in 1..n |-> c[k]]
    BY <1>7, <1>8
  <2> QED
    BY <1>7, <2>1, <2>2
<1> QED
  BY <1>12, <1>13, <1>14 DEF c

\* What the defaults make of a file of the given shape has that shape.
LEMMA DefaultsTyped ==
  ASSUME NEW f \in Files
  PROVE  /\ WithDefaults(f).backends \in Seq(SpeakerType)
         /\ WithDefaults(f).aliases \in [DOMAIN f.aliases -> AliasType]
         /\ DOMAIN WithDefaults(f).backends = DOMAIN f.backends
         /\ \A i \in DOMAIN f.backends :
              WithDefaults(f).backends[i] = SpeakerWithDefaults(f.backends[i])
         /\ WithDefaults(f).audio \in {"absent", "valid", "invalid"}
         /\ WithDefaults(f).parses \in BOOLEAN /\ WithDefaults(f).blankToken \in BOOLEAN
<1> DEFINE N == DOMAIN f.aliases
           b == [i \in DOMAIN f.backends |-> SpeakerWithDefaults(f.backends[i])]
           a == [x \in N |-> AliasWithDefaults(f.aliases[x])]
<1>1. f \in FileType(N)
  BY SelectorsAssumption
<1>2. f.backends \in Seq(SpeakerType) /\ f.aliases \in [N -> AliasType]
  BY <1>1 DEF FileType
<1>3. ASSUME NEW s \in SpeakerType
      PROVE  SpeakerWithDefaults(s) \in SpeakerType
  BY DEF SpeakerWithDefaults, SpeakerType, OrElse, Words
<1>4. ASSUME NEW x \in AliasType
      PROVE  AliasWithDefaults(x) \in AliasType
  <2>1. /\ OrElse(x.type, NotSet, "proxy") \in Words
        /\ OrElse(x.selector, NotSet, "round_robin") \in Words
        /\ OrElse(x.minPanel, 0, 1) \in Int
    BY DEF AliasType, OrElse, Words
  <2> QED
    BY <2>1 DEF AliasType, AliasWithDefaults
<1>5. b \in Seq(SpeakerType)
  <2>1. Len(f.backends) \in Nat /\ DOMAIN f.backends = 1..Len(f.backends)
        /\ \A i \in DOMAIN f.backends : f.backends[i] \in SpeakerType
    BY <1>2, Places
  <2>2. \A i \in 1..Len(f.backends) : b[i] \in SpeakerType
    BY <1>3, <2>1
  <2>3. b = [i \in 1..Len(f.backends) |-> b[i]]
    BY <2>1
  <2> HIDE DEF b
  <2> QED
    BY <2>1, <2>2, <2>3
<1>6. a \in [N -> AliasType]
  <2>1. \A x \in N : f.aliases[x] \in AliasType
    BY <1>2
  <2>2. \A x \in N : a[x] \in AliasType
    BY <1>4, <2>1
  <2> QED
    BY <2>2
<1>7. DOMAIN b = DOMAIN f.backends /\ \A i \in DOMAIN b : b[i] = SpeakerWithDefaults(f.backends[i])
  OBVIOUS
<1>8. WithDefaults(f).backends = b
  BY <1>1 DEF WithDefaults, FileType
<1>9. WithDefaults(f).aliases = a
  BY <1>1 DEF WithDefaults, FileType
<1>10. /\ WithDefaults(f).audio = f.audio /\ WithDefaults(f).parses = f.parses
       /\ WithDefaults(f).blankToken = f.blankToken
  BY <1>1 DEF WithDefaults, FileType
<1> HIDE DEF a, b
<1> QED
  BY <1>1, <1>5, <1>6, <1>7, <1>8, <1>9, <1>10 DEF FileType

Names == Defined(WithDefaults(file))

\* Of the defined backends only the one in question is up.
LEMMA AloneIs ==
  ASSUME NEW b \in Backends
  PROVE  \A x \in Backends : Alone(b)[x].healthy <=> x = b /\ x \in Names
BY DEF Alone, Unprobed, Names

\* An entry passes validation exactly if each of its backends can fill its role.
LEMMA EntryServes ==
  ASSUME NEW e, e.model \in Models \cup {NotSet}, e.backends \in Seq(Backends)
  PROVE  EntryValid(e, Names) <=> Staffed(e)
<1>1. e.model # NotSet <=> e.model \in Models
  BY SelectorsAssumption
<1>2. \A i \in DOMAIN e.backends : e.backends[i] \in Backends
  BY Places
<1>3. ASSUME NEW i \in DOMAIN e.backends
      PROVE  e.backends[i] \in Names <=> Healthy(Alone(e.backends[i]), e.backends) # {}
  <2> DEFINE b == e.backends[i]
  <2>1. b \in Backends
    BY <1>2
  <2>2. \A j \in DOMAIN e.backends :
          Alone(b)[e.backends[j]].healthy <=> e.backends[j] = b /\ b \in Names
    BY <1>2, <2>1, AloneIs
  <2> QED
    BY <2>2 DEF Healthy
<1>4. ToSet(e.backends) \subseteq Names <=> \A i \in DOMAIN e.backends : e.backends[i] \in Names
  BY DEF ToSet
<1> QED
  BY <1>1, <1>3, <1>4 DEF EntryValid, RefsValid, Staffed

\* The plan of a valid proxy alias is one, and lists what the alias names.
LEMMA ProxyServes ==
  ASSUME NEW a \in AliasType, a.selector \in Selectors, a.type = "proxy"
  PROVE  /\ ProxyValid(a, Names) <=> Servable(a)
         /\ ProxyValid(a, Names) => PlanOf(a) \in Plan
<1> DEFINE p == PlanOf(a)
<1>1. /\ a.pool \in Seq(EntryType) /\ a.model \in Models \cup {NotSet} /\ a.backends \in Seq(Backends)
      /\ a.minQuality \in 0..MaxQuality
  BY DEF AliasType
<1>2. p.selector = a.selector /\ p.minQuality = a.minQuality /\ p.direct = FALSE
  BY DEF PlanOf
<1>3. p \in Plan <=> p.cands \in Seq(Candidate)
  BY <1>1, <1>2 DEF Plan, PlanOf
<1>4. Servable(a) <=>
        /\ p \in Plan /\ p.cands # <<>>
        /\ \A i \in DOMAIN p.cands : i \in Fit(Alone(p.cands[i].backend), p)
        /\ p.selector = "pareto" => \A i \in DOMAIN a.pool : Staffed(a.pool[i])
  BY DEF Servable
<1>5. ASSUME p.cands \in Seq(Candidate), NEW i \in DOMAIN p.cands
      PROVE  i \in Fit(Alone(p.cands[i].backend), p) <=> p.cands[i].backend \in Names
  <2> DEFINE b == p.cands[i].backend
  <2>1. b \in Backends
    <3>1. p.cands[i] \in Candidate
      BY <1>5
    <3> QED
      BY <3>1 DEF Candidate
  <2>2. Alone(b)[b].healthy <=> b \in Names
    BY <2>1, AloneIs
  <2> QED
    BY <1>5, <2>2 DEF Fit
<1>6. CASE a.selector = "pareto"
  <2> DEFINE pool == a.pool
  <2>1. p.cands = Pooled(pool)
    BY <1>6 DEF PlanOf
  <2>2. \A i \in DOMAIN pool : /\ pool[i] \in EntryType /\ pool[i].model \in Models \cup {NotSet}
                               /\ pool[i].backends \in Seq(Backends) /\ pool[i].quality \in 0..MaxQuality
    BY <1>1, Places, EntryFields
  <2>3. \A i \in DOMAIN pool : EntryValid(pool[i], Names) <=> Staffed(pool[i])
    BY <2>2, EntryServes
  <2>4. ProxyValid(a, Names) <=> pool # <<>> /\ \A i \in DOMAIN pool : Staffed(pool[i])
    BY <1>6, <2>3 DEF ProxyValid
  <2>5. /\ p.cands \in Seq(Offer)
        /\ \A k \in DOMAIN p.cands :
             \E i \in DOMAIN pool : \E j \in DOMAIN pool[i].backends :
               p.cands[k] = [model |-> pool[i].model, backend |-> pool[i].backends[j],
                             quality |-> pool[i].quality]
        /\ \A i \in DOMAIN pool : pool[i].backends # <<>> => p.cands # <<>>
    <3>1. /\ Pooled(pool) \in Seq(Offer)
          /\ \A k \in DOMAIN Pooled(pool) :
               \E i \in DOMAIN pool : \E j \in DOMAIN pool[i].backends :
                 Pooled(pool)[k] = [model |-> pool[i].model, backend |-> pool[i].backends[j],
                                    quality |-> pool[i].quality]
          /\ \A i \in DOMAIN pool : pool[i].backends # <<>> => Pooled(pool) # <<>>
      BY <1>1, PooledIs
    <3> HIDE DEF p
    <3> QED
      BY <2>1, <3>1
  <2>6. ASSUME pool # <<>>, \A i \in DOMAIN pool : Staffed(pool[i])
        PROVE  /\ p \in Plan /\ p.cands # <<>>
               /\ \A i \in DOMAIN p.cands : i \in Fit(Alone(p.cands[i].backend), p)
    <3>1. 1 \in DOMAIN pool
      BY <1>1, <2>6
    <3>2. p.cands # <<>>
      BY <2>5, <2>6, <3>1 DEF Staffed
    <3>3. ASSUME NEW k \in DOMAIN p.cands
          PROVE  p.cands[k] \in Candidate /\ p.cands[k].backend \in Names
      <4>1. PICK i \in DOMAIN pool : \E j \in DOMAIN pool[i].backends :
              p.cands[k] = [model |-> pool[i].model, backend |-> pool[i].backends[j],
                            quality |-> pool[i].quality]
        BY <2>5, <3>3
      <4>2. PICK j \in DOMAIN pool[i].backends :
              p.cands[k] = [model |-> pool[i].model, backend |-> pool[i].backends[j],
                            quality |-> pool[i].quality]
        BY <4>1
      <4>3. pool[i].backends[j] \in Backends
        BY <2>2, Places
      <4>4. pool[i].model \in Models
        BY <2>6 DEF Staffed
      <4>5. pool[i].backends[j] \in Names
        <5>1. EntryValid(pool[i], Names)
          BY <2>3, <2>6
        <5>2. ToSet(pool[i].backends) \subseteq Names
          BY <5>1 DEF EntryValid, RefsValid
        <5> QED
          BY <5>2 DEF ToSet
      <4> QED
        BY <2>2, <4>2, <4>3, <4>4, <4>5 DEF Candidate
    <3>4. p.cands \in Seq(Candidate)
      BY <2>5, <3>3, Narrowed
    <3> QED
      BY <1>3, <1>5, <3>2, <3>3, <3>4
  <2>7. ASSUME p.cands # <<>>
        PROVE  pool # <<>>
    <3>1. 1 \in DOMAIN p.cands
      <4> DEFINE c == p.cands
      <4>1. c \in Seq(Offer) /\ c # <<>>
        BY <2>5, <2>7
      <4> HIDE DEF c
      <4>2. 1 \in DOMAIN c
        BY <4>1
      <4> QED
        BY <4>2 DEF c
    <3>2. \E i \in DOMAIN pool : TRUE
      BY <2>5, <3>1
    <3> QED
      BY <3>2
  <2> QED
    BY <1>2, <1>4, <1>6, <2>4, <2>6, <2>7
<1>7. CASE a.selector # "pareto"
  <2> DEFINE e == [model |-> a.model, backends |-> a.backends]
  <2>1. p.cands = CandidatesOf(a.model, a.backends)
    BY <1>7 DEF PlanOf
  <2>2. EntryValid(e, Names) <=> Staffed(e)
    BY <1>1, EntryServes
  <2>3. ProxyValid(a, Names) <=> EntryValid(e, Names)
    BY <1>7 DEF ProxyValid
  <2>4. /\ Len(a.backends) \in Nat /\ DOMAIN a.backends = 1..Len(a.backends)
        /\ \A k \in DOMAIN a.backends : a.backends[k] \in Backends
    BY <1>1, Places
  <2>5. /\ DOMAIN p.cands = DOMAIN a.backends
        /\ \A k \in DOMAIN a.backends :
             p.cands[k] = [model |-> a.model, backend |-> a.backends[k], quality |-> 0]
    BY <2>1 DEF CandidatesOf
  <2>6. p.cands # <<>> <=> a.backends # <<>>
    BY <2>1, <2>4, <2>5, <1>1 DEF CandidatesOf
  <2>7. ASSUME a.model \in Models
        PROVE  p.cands \in Seq(Candidate)
    <3>1. \A k \in 1..Len(a.backends) :
            [model |-> a.model, backend |-> a.backends[k], quality |-> 0] \in Candidate
      BY <2>4, <2>7, SelectionAssumption DEF Candidate
    <3> QED
      BY <2>1, <2>4, <3>1 DEF CandidatesOf
  <2>8. ASSUME p.cands \in Seq(Candidate), p.cands # <<>>
        PROVE  a.model \in Models
    <3>1. 1 \in DOMAIN p.cands
      BY <2>4, <2>5, <2>6, <2>8, <1>1
    <3>2. p.cands[1] \in Candidate
      BY <2>8, <3>1, Places
    <3>3. p.cands[1].model = a.model
      <4>1. p.cands[1] = [model |-> a.model, backend |-> a.backends[1], quality |-> 0]
        BY <2>5, <3>1
      <4> HIDE DEF p
      <4> QED
        BY <4>1
    <3> QED
      BY <3>2, <3>3 DEF Candidate
  <2>9. EntryValid(e, Names) <=>
          /\ a.model \in Models /\ a.backends # <<>>
          /\ \A k \in DOMAIN a.backends : a.backends[k] \in Names
    BY <1>1, SelectorsAssumption DEF EntryValid, RefsValid, ToSet
  <2>10. ASSUME p.cands \in Seq(Candidate)
         PROVE  (\A i \in DOMAIN p.cands : i \in Fit(Alone(p.cands[i].backend), p))
                <=> \A k \in DOMAIN a.backends : a.backends[k] \in Names
    <3>1. \A i \in DOMAIN p.cands :
            i \in Fit(Alone(p.cands[i].backend), p) <=> p.cands[i].backend \in Names
      BY <1>5, <2>10
    <3> HIDE DEF p
    <3>2. ASSUME NEW i \in DOMAIN p.cands
          PROVE  p.cands[i].backend = a.backends[i]
      <4>1. p.cands[i] = [model |-> a.model, backend |-> a.backends[i], quality |-> 0]
        BY <2>5
      <4> QED
        BY <4>1
    <3> QED
      BY <2>5, <3>1, <3>2
  <2> QED
    BY <1>2, <1>3, <1>4, <1>7, <2>3, <2>6, <2>7, <2>8, <2>9, <2>10
<1> QED
  BY <1>6, <1>7

\* With every backend up a panel keeps all members that name a backend.
LEMMA PanelFull ==
  ASSUME NEW up \in Snapshot, \A b \in Backends : up[b].healthy,
         NEW panel \in Seq(Seq(Backends)), \A i \in DOMAIN panel : panel[i] # <<>>
  PROVE  Len(PinnedPanel(up, panel)) = Len(panel)
<1> DEFINE kept == {i \in DOMAIN panel : Healthy(up, panel[i]) # {}}
           at   == Ascending(kept)
<1>1. /\ Len(panel) \in Nat /\ DOMAIN panel \in SUBSET Nat /\ IsFiniteSet(DOMAIN panel)
      /\ Cardinality(DOMAIN panel) = Len(panel)
      /\ \A i \in DOMAIN panel : panel[i] \in Seq(Backends)
  BY Places
<1>2. ASSUME NEW i \in DOMAIN panel
      PROVE  Healthy(up, panel[i]) # {}
  <2> DEFINE names == panel[i]
  <2>1. names \in Seq(Backends) /\ names # <<>>
    BY <1>1
  <2> HIDE DEF names
  <2>2. 1 \in DOMAIN names /\ names[1] \in Backends
    BY <2>1
  <2>3. 1 \in Healthy(up, names)
    BY <2>2 DEF Healthy
  <2> QED
    BY <2>3 DEF names
<1>3. kept = DOMAIN panel
  BY <1>2
<1>4. DOMAIN at = 1..Len(panel)
  BY <1>1, <1>3, AscendingLists
<1>5. PinnedPanel(up, panel) = [k \in DOMAIN at |-> Pick(up, panel[at[k]])]
  BY DEF PinnedPanel
<1> HIDE DEF at
<1> QED
  BY <1>1, <1>4, <1>5

\* A fusion alias passes validation exactly if its panel can meet its quorum and
\* each of its roles can be filled.
LEMMA FusionServes ==
  ASSUME NEW a \in AliasType, a.type = "fusion"
  PROVE  FusionValid(a, Names) <=> Servable(a)
<1> DEFINE c  == CouncilOf(a)
           up == [x \in Backends |-> [Unprobed EXCEPT !.healthy = TRUE]]
           n  == Len(a.panel)
<1>1. /\ a.panel \in Seq(EntryType) /\ a.judge \in EntryType /\ a.synthesis \in EntryType
      /\ a.minPanel \in Int
  BY DEF AliasType
<1>2. /\ n \in Nat /\ DOMAIN a.panel = 1..n
      /\ \A i \in DOMAIN a.panel : a.panel[i] \in EntryType
  BY <1>1, Places
<1>3. \A e \in EntryType : EntryValid(e, Names) <=> Staffed(e)
  BY EntryFields, EntryServes
<1>4. /\ c.panel = [i \in DOMAIN a.panel |-> a.panel[i].backends]
      /\ c.judge = a.judge.backends /\ c.synthesis = a.synthesis.backends
      /\ c.minPanel = a.minPanel
  BY DEF CouncilOf
<1>5. c \in Council <=> a.minPanel \in Nat \ {0}
  <2>1. a.judge.backends \in Seq(Backends) /\ a.synthesis.backends \in Seq(Backends)
    BY <1>1, EntryFields
  <2>2. c.panel \in Seq(Seq(Backends))
    <3>1. \A i \in 1..n : a.panel[i].backends \in Seq(Backends)
      BY <1>2, EntryFields
    <3> QED
      BY <1>2, <1>4, <3>1
  <2>3. c = [panel |-> c.panel, judge |-> a.judge.backends,
             synthesis |-> a.synthesis.backends, minPanel |-> a.minPanel]
    BY <1>4 DEF CouncilOf
  <2> HIDE DEF c
  <2> QED
    BY <2>1, <2>2, <2>3 DEF Council
<1>6. up \in Snapshot /\ \A b \in Backends : up[b].healthy
  BY DEF Snapshot, BackendState, Unprobed
<1>7. ASSUME \A i \in DOMAIN a.panel : Staffed(a.panel[i])
      PROVE  Len(PinnedPanel(up, c.panel)) = n
  <2>1. \A i \in 1..n : a.panel[i].backends \in Seq(Backends) /\ a.panel[i].backends # <<>>
    BY <1>2, <1>7, EntryFields DEF Staffed
  <2> DEFINE p == c.panel
  <2>2. p = [i \in 1..n |-> a.panel[i].backends]
    BY <1>2, <1>4
  <2> HIDE DEF p, n, up
  <2>3. p \in Seq(Seq(Backends)) /\ Len(p) = n /\ \A i \in DOMAIN p : p[i] # <<>>
    BY <1>2, <2>1, <2>2
  <2>4. Len(PinnedPanel(up, p)) = Len(p)
    BY <1>6, <2>3, PanelFull
  <2> QED
    BY <2>3, <2>4 DEF p
<1>8. FusionValid(a, Names) <=>
        /\ n \in 1..MaxPanel /\ a.minPanel \in 1..n
        /\ \A i \in DOMAIN a.panel : Staffed(a.panel[i])
        /\ Staffed(a.judge) /\ Staffed(a.synthesis)
  BY <1>1, <1>2, <1>3 DEF FusionValid
<1>9. Servable(a) <=>
        /\ c \in Council
        /\ Len(PinnedPanel(up, c.panel)) \in c.minPanel..MaxPanel
        /\ \A i \in DOMAIN a.panel : Staffed(a.panel[i])
        /\ Staffed(a.judge) /\ Staffed(a.synthesis)
  BY DEF Servable
<1>10. n \in 1..MaxPanel /\ a.minPanel \in 1..n <=>
         a.minPanel \in Nat \ {0} /\ n \in a.minPanel..MaxPanel
  <2> HIDE DEF n
  <2> QED
    BY <1>1, <1>2 DEF MaxPanel
<1> HIDE DEF c, up, n
<1> QED
  BY <1>4, <1>5, <1>7, <1>8, <1>9, <1>10

\* So does every alias.
LEMMA AliasServes ==
  ASSUME NEW a \in AliasType
  PROVE  AliasValid(a, Names) <=> a.selector \in Selectors /\ Servable(a)
<1>1. CASE a.type = "proxy"
  <2>1. a.selector \in Selectors => (ProxyValid(a, Names) <=> Servable(a))
    BY <1>1, ProxyServes
  <2> QED
    BY <1>1, <2>1 DEF AliasValid
<1>2. CASE a.type = "fusion"
  <2>1. FusionValid(a, Names) <=> Servable(a)
    BY <1>2, FusionServes
  <2> QED
    BY <1>2, <2>1 DEF AliasValid
<1>3. CASE a.type # "proxy" /\ a.type # "fusion"
  BY <1>3 DEF AliasValid, Servable
<1> QED
  BY <1>1, <1>2, <1>3
------------------------------------------------------------------------------
(* The specification. *)

Shape ==
  /\ file \in Files
  /\ counter \in 0..(CounterWidth - 1) /\ turn \in 0..(CounterWidth - 1)
  /\ stage \in {"read", "refused", "started", "given", "healthy", "arranged", "ordered"}
  /\ view \in Fleets \cup {EmptySnapshot} /\ plan \in Plan
  /\ consumer \in Protocols /\ override \in Overrides

\* Nothing runs before the file is accepted.
Judged ==
  /\ stage = "refused" => ~Accepted(file)
  /\ stage \notin {"read", "refused"} => Accepted(file)

\* What the slice lists at each stage, and in which order.
Sliced ==
  /\ stage \in {"read", "refused", "started"} => slice = <<>>
  /\ stage = "given" => slice = [i \in DOMAIN plan.cands |-> i]
  /\ stage = "healthy" => slice = Ascending(Survivors) /\ Survivors # {}
  /\ stage = "arranged" =>
       /\ plan.selector = "pareto" => Lists(slice, Survivors, Due(turn))
       /\ plan.selector # "pareto" => Lists(slice, Survivors, Nearer(view, plan, turn))
  /\ stage = "ordered" => Lists(slice, Survivors, Due(turn))

SelectorsInv == Shape /\ Judged /\ Sliced

\* Every view is a snapshot.
LEMMA ViewIs ==
  ASSUME Shape
  PROVE  view \in Snapshot
<1>1. EmptySnapshot \in Snapshot
  BY DEF EmptySnapshot, Snapshot, Unprobed, BackendState
<1> QED
  BY <1>1, SelectorsAssumption DEF Shape

\* The survivors are listed as the filter leaves them.
LEMMA SurvivorsAscend ==
  ASSUME Shape
  PROVE  /\ Survivors \in SUBSET Nat /\ IsFiniteSet(Survivors) /\ Survivors \subseteq DOMAIN plan.cands
         /\ Lists(Ascending(Survivors), Survivors, Increasing(Survivors))
<1>1. view \in Snapshot /\ plan \in Plan
  BY ViewIs DEF Shape
<1>2. Survivors \in SUBSET Nat /\ IsFiniteSet(Survivors) /\ Survivors \subseteq DOMAIN plan.cands
  BY <1>1, FitIs DEF Survivors
<1> QED
  BY <1>2, ListsAscending

LEMMA SelectorsStart == Init => SelectorsInv
<1> SUFFICES ASSUME Init PROVE SelectorsInv
  OBVIOUS
<1>1. NoPlan \in Plan
  BY SelectionAssumption DEF NoPlan, Plan, Selectors
<1>2. consumer \in Protocols
  BY SelectorsAssumption DEF Init
<1>3. 0 \in 0..(CounterWidth - 1)
  BY SelectorsAssumption
<1>4. Shape
  BY <1>1, <1>2, <1>3, SelectorsAssumption DEF Init, Shape
<1> QED
  BY <1>4 DEF SelectorsInv, Judged, Sliced, Init

\* The plan of a request is one that validation has passed.
LEMMA RequestPlans ==
  ASSUME file \in Files, Accepted(file), NEW alias \in Proxies
  PROVE  PlanOf(alias) \in Plan
<1> DEFINE aliases == WithDefaults(file).aliases
<1>1. PICK a \in DOMAIN aliases : alias = aliases[a] /\ aliases[a].type = "proxy"
  BY DEF Proxies
<1>2. alias \in AliasType
  BY <1>1, DefaultsTyped
<1>3. AliasValid(alias, Names)
  BY <1>1 DEF Accepted, Names
<1>4. alias.selector \in Selectors /\ ProxyValid(alias, Names)
  BY <1>1, <1>3 DEF AliasValid
<1> QED
  BY <1>1, <1>2, <1>4, ProxyServes

LEMMA SelectorsStep == SelectorsInv /\ [Next]_vars => SelectorsInv'
<1> SUFFICES ASSUME SelectorsInv, [Next]_vars PROVE SelectorsInv'
  OBVIOUS
<1> USE DEF SelectorsInv
<1>0. Shape /\ Judged /\ Sliced /\ view \in Snapshot
  BY ViewIs
<1>1. CASE Load
  <2>1. Shape'
    BY <1>0, <1>1 DEF Load, Shape, request
  <2>2. Judged'
    BY <1>1 DEF Load, Judged
  <2>3. Sliced'
    BY <1>0, <1>1 DEF Load, Sliced
  <2> QED
    BY <2>1, <2>2, <2>3
<1>2. CASE Request
  <2>1. Accepted(file)
    BY <1>0, <1>2 DEF Request, Judged
  <2>2. plan' \in Plan
    BY <1>0, <1>2, <2>1, RequestPlans DEF Request, Shape
  <2>3. view' \in Fleets \cup {EmptySnapshot}
    BY <1>0, <1>2 DEF Request, Shape
  <2>4. Shape'
    BY <1>0, <1>2, <2>2, <2>3, SelectorsAssumption DEF Request, Shape
  <2>5. Judged'
    BY <1>2, <2>1 DEF Request, Judged
  <2>6. Sliced'
    BY <1>2 DEF Request, Sliced
  <2> QED
    BY <2>4, <2>5, <2>6
<1>3. CASE Filter
  <2>1. plan' = plan /\ view' = view /\ slice = [i \in DOMAIN plan.cands |-> i]
    BY <1>0, <1>3 DEF Filter, Sliced, request
  <2>2. slice' = Ascending(Survivors)
    <3>1. {k \in DOMAIN slice : view[BackendOf(slice[k])].healthy} = Survivors
      BY <2>1 DEF Survivors, Fit, BackendOf
    <3>2. slice' = Kept(slice, Survivors)
      BY <1>3, <3>1 DEF Filter, FilterHealthy
    <3> QED
      BY <1>0, <2>1, <3>2, GivenIs DEF Survivors, Shape
  <2>3. Shape' /\ Judged'
    BY <1>0, <1>3 DEF Filter, Shape, Judged, request
  <2>4. Survivors' = Survivors
    BY <2>1 DEF Survivors
  <2>5. CASE slice' = <<>>
    <3>1. Lists(slice', Survivors, Increasing(Survivors))
      BY <1>0, <2>2, SurvivorsAscend
    <3>2. Survivors = {}
      BY <2>5, <3>1 DEF Lists
    <3>3. Lists(<<>>, {}, Due(turn)')
      BY DEF Lists
    <3>4. stage' = "ordered"
      BY <1>3, <2>5 DEF Filter
    <3> QED
      BY <2>3, <2>4, <2>5, <3>2, <3>3, <3>4 DEF Sliced
  <2>6. CASE slice' # <<>>
    <3>1. stage' = "healthy"
      BY <1>3, <2>6 DEF Filter
    <3>2. Survivors # {}
      <4>1. Lists(slice', Survivors, Increasing(Survivors))
        BY <1>0, <2>2, SurvivorsAscend
      <4>2. 1 \in DOMAIN slice'
        BY <2>6, <4>1 DEF Lists
      <4> QED
        BY <4>1, <4>2 DEF Lists
    <3> QED
      BY <2>2, <2>3, <2>4, <3>1, <3>2 DEF Sliced
  <2> QED
    BY <2>5, <2>6
<1>4. CASE Rotate
  <2>1. /\ slice = Ascending(Survivors) /\ Survivors # {} /\ plan.selector # "pareto"
        /\ turn' = counter /\ slice' = RotatedBy(slice, turn' % Len(slice)) /\ stage' = "arranged"
        /\ plan' = plan /\ view' = view
    BY <1>0, <1>4 DEF Rotate, Sliced, request
  <2>2. counter \in Nat /\ plan \in Plan
    BY <1>0, SelectorsAssumption DEF Shape
  <2>3. Lists(slice', Survivors, Nearer(view, plan, turn'))
    BY <1>0, <2>1, <2>2, RotatedByIs DEF Survivors
  <2>4. counter' \in 0..(CounterWidth - 1)
    <3>1. counter' = (counter + 1) % CounterWidth
      BY <1>4 DEF Rotate
    <3>2. counter + 1 \in Nat /\ CounterWidth \in Nat \ {0}
      BY <2>2, SelectorsAssumption
    <3> QED
      BY <3>1, <3>2, Division
  <2>5. Shape' /\ Judged'
    BY <1>0, <1>4, <2>4 DEF Rotate, Shape, Judged, request
  <2>6. Lists(slice', Survivors', Nearer(view', plan', turn'))
    BY <2>1, <2>3 DEF Survivors
  <2>7. Sliced'
    BY <2>1, <2>6 DEF Sliced
  <2> QED
    BY <2>5, <2>7
<1>5. CASE Rank
  <2>1. /\ slice = Ascending(Survivors) /\ plan.selector = "pareto" /\ stage' = "arranged"
        /\ slice' = RankByCost(Kept(slice, GoodEnough(slice)))
                      \o RankByCost(Kept(slice, DOMAIN slice \ GoodEnough(slice)))
        /\ plan' = plan /\ view' = view /\ consumer' = consumer /\ override' = override
        /\ turn' = turn
    BY <1>0, <1>5 DEF Rank, Sliced, request
  <2>2. Lists(slice', Survivors, Due(turn))
    BY <1>0, <2>1, SurvivorsAscend, RankIs DEF Shape
  <2>3. Lists(slice', Survivors', Due(turn)')
    BY <2>1, <2>2 DEF Survivors, Due
  <2>4. Shape' /\ Judged'
    BY <1>0, <1>5 DEF Rank, Shape, Judged, request
  <2>5. Sliced'
    BY <2>1, <2>3 DEF Sliced
  <2> QED
    BY <2>4, <2>5
<1>6. CASE PreferSameProtocol
  <2>1. /\ plan' = plan /\ view' = view /\ consumer' = consumer /\ override' = override
        /\ turn' = turn /\ stage' = "ordered"
        /\ slice' = IF plan.selector = "pareto" THEN slice
                    ELSE Kept(slice, Speaking(slice)) \o Kept(slice, DOMAIN slice \ Speaking(slice))
    BY <1>6 DEF PreferSameProtocol, request
  <2>2. Lists(slice', Survivors, Due(turn))
    <3>1. CASE plan.selector = "pareto"
      BY <1>0, <1>6, <2>1, <3>1 DEF PreferSameProtocol, Sliced
    <3>2. CASE plan.selector # "pareto"
      <4>1. Lists(slice, Survivors, Nearer(view, plan, turn))
        BY <1>0, <1>6, <3>2 DEF PreferSameProtocol, Sliced
      <4> QED
        BY <2>1, <3>2, <4>1, PreferIs
    <3> QED
      BY <3>1, <3>2
  <2>3. Lists(slice', Survivors', Due(turn)')
    BY <2>1, <2>2 DEF Survivors, Due
  <2>4. Shape' /\ Judged'
    BY <1>0, <1>6 DEF PreferSameProtocol, Shape, Judged, request
  <2>5. Sliced'
    BY <2>1, <2>3 DEF Sliced
  <2> QED
    BY <2>4, <2>5
<1>7. CASE UNCHANGED vars
  <2>1. /\ file' = file /\ counter' = counter /\ stage' = stage /\ view' = view /\ plan' = plan
        /\ consumer' = consumer /\ override' = override /\ turn' = turn /\ slice' = slice
    BY <1>7 DEF vars, request
  <2>2. Shape' /\ Judged'
    BY <1>0, <2>1 DEF Shape, Judged
  <2>3. Survivors' = Survivors /\ Due(turn)' = Due(turn)
    BY <2>1 DEF Survivors, Due
  <2>4. Sliced'
    BY <1>0, <2>1, <2>3 DEF Sliced
  <2> QED
    BY <2>2, <2>4
<1> QED
  BY <1>1, <1>2, <1>3, <1>4, <1>5, <1>6, <1>7 DEF Next

LEMMA SelectorsAlways == Spec => []SelectorsInv
BY SelectorsStart, SelectorsStep, PTL DEF Spec

\* In every state the slice lists candidates of the request's plan, none twice,
\* and from the health filter on exactly the healthy ones: no selector loses,
\* repeats or invents a candidate.
THEOREM SliceWhole == Spec => []TypeOK
<1>1. SelectorsInv => TypeOK
  <2> SUFFICES ASSUME SelectorsInv PROVE TypeOK
    OBVIOUS
  <2>1. Shape /\ Sliced
    BY DEF SelectorsInv
  <2>2. /\ Survivors \subseteq DOMAIN plan.cands
        /\ Lists(Ascending(Survivors), Survivors, Increasing(Survivors))
    BY <2>1, SurvivorsAscend
  <2>3. ASSUME NEW R, Lists(slice, Survivors, R)
        PROVE  slice \in Seq(DOMAIN plan.cands) /\ IsInjective(slice) /\ ToSet(slice) = Survivors
    <3>1. \A k \in DOMAIN slice : slice[k] \in DOMAIN plan.cands
      BY <2>2, <2>3, Places DEF Lists
    <3>2. slice \in Seq(DOMAIN plan.cands)
      BY <2>3, <3>1, Narrowed DEF Lists
    <3> QED
      BY <2>3, <3>2, ListsOnce
  <2>4. CASE stage \in {"read", "refused", "started"}
    <3>1. slice = <<>>
      BY <2>1, <2>4 DEF Sliced
    <3>2. <<>> \in Seq(DOMAIN plan.cands)
      OBVIOUS
    <3>3. IsInjective(<<>>)
      BY DEF IsInjective
    <3> QED
      BY <2>1, <2>4, <3>1, <3>2, <3>3 DEF TypeOK, Shape
  <2>5. CASE stage = "given"
    <3> DEFINE D == DOMAIN plan.cands
    <3>1. slice = [i \in D |-> i]
      BY <2>1, <2>5 DEF Sliced
    <3>2. Len(plan.cands) \in Nat /\ D = 1..Len(plan.cands)
      <4>1. plan.cands \in Seq(Candidate)
        BY <2>1 DEF Shape, Plan
      <4> QED
        BY <4>1, Places
    <3> HIDE DEF D
    <3>3. slice \in Seq(D) /\ IsInjective(slice)
      BY <3>1, <3>2 DEF IsInjective
    <3> QED
      BY <2>1, <2>5, <3>3 DEF TypeOK, Shape, D
  <2>6. CASE stage \in {"healthy", "arranged", "ordered"}
    <3>1. \E R : Lists(slice, Survivors, R)
      BY <2>1, <2>2, <2>6 DEF Sliced
    <3>2. slice \in Seq(DOMAIN plan.cands) /\ IsInjective(slice) /\ ToSet(slice) = Survivors
      BY <2>3, <3>1
    <3> QED
      BY <2>1, <3>2 DEF TypeOK, Shape, Survivors
  <2> QED
    BY <2>1, <2>4, <2>5, <2>6 DEF Shape
<1> QED
  BY SelectorsAlways, <1>1, PTL

\* The failover loop always walks the healthy candidates in the order of
\* Precedes: filtering, rotating, partitioning and stable sorting the slices
\* sorts by it, whatever the plan, the fleet and the turn.
THEOREM SlicesSorted == Spec => []SortedByPrecedence
<1>1. SelectorsInv => SortedByPrecedence
  BY DEF SelectorsInv, Sliced, SortedByPrecedence, Lists, Due
<1> QED
  BY SelectorsAlways, <1>1, PTL

\* Validation and resolution agree on every file: what is accepted can be
\* served, and what is refused for its aliases could not be.
THEOREM FilesServe == Spec => []ConfigServes
<1>1. SelectorsInv => ConfigServes
  <2> SUFFICES ASSUME SelectorsInv PROVE ConfigServes
    OBVIOUS
  <2> DEFINE cfg == WithDefaults(file)
             aliases == cfg.aliases
             servable == \A a \in DOMAIN aliases :
                           aliases[a].selector \in Selectors /\ Servable(aliases[a])
  <2>1. file \in Files /\ Judged
    BY DEF SelectorsInv, Shape
  <2>2. /\ cfg.audio \in {"absent", "valid", "invalid"} /\ DOMAIN cfg.backends = DOMAIN file.backends
        /\ \A a \in DOMAIN aliases : aliases[a] \in AliasType
        /\ \A i \in DOMAIN file.backends : cfg.backends[i] = SpeakerWithDefaults(file.backends[i])
    BY <2>1, DefaultsTyped
  <2>3. servable <=> \A a \in DOMAIN aliases : AliasValid(aliases[a], Names)
    BY <2>2, AliasServes
  <2>4. Accepted(file) <=>
          cfg.parses /\ ~cfg.blankToken /\ BackendsValid(cfg.backends) /\ servable
          /\ cfg.audio \in {"absent", "valid"}
    BY <2>3 DEF Accepted, Names
  <2>5. ASSUME BackendsValid(cfg.backends), NEW i \in DOMAIN cfg.backends
        PROVE  cfg.backends[i].protocol = ProtocolOf[cfg.backends[i].name]
    <3> DEFINE b == file.backends[i]
               c == cfg.backends[i]
    <3>1. b \in SpeakerType /\ c = SpeakerWithDefaults(b)
      <4>1. file \in FileType(DOMAIN file.aliases)
        BY <2>1, SelectorsAssumption
      <4>2. file.backends \in Seq(SpeakerType)
        BY <4>1 DEF FileType
      <4> QED
        BY <2>2, <4>2, Places
    <3>2. c.name # NotSet /\ c.protocol \in {"openai", "anthropic"}
      BY <2>5 DEF BackendsValid
    <3> HIDE DEF c
    <3>3. b.name = c.name /\ c.protocol = OrElse(b.protocol, NotSet, "openai")
      BY <3>1 DEF SpeakerWithDefaults, SpeakerType
    <3>4. ProtocolOf[b.name] = IF b.protocol = "anthropic" THEN "anthropic" ELSE "openai"
      BY <2>1, <2>2, <3>2, <3>3, SelectorsAssumption DEF OrElse
    <3>5. c.protocol = ProtocolOf[c.name]
      BY <3>2, <3>3, <3>4 DEF OrElse, NotSet
    <3> QED
      BY <3>5 DEF c
  <2> HIDE DEF servable
  <2>6. /\ stage \notin {"read", "refused"} =>
             servable /\ \A i \in DOMAIN cfg.backends :
                           cfg.backends[i].protocol = ProtocolOf[cfg.backends[i].name]
        /\ stage = "refused" =>
             ~servable \/ ~BackendsValid(cfg.backends) \/ ~cfg.parses \/ cfg.blankToken
             \/ cfg.audio = "invalid"
    BY <2>1, <2>2, <2>4, <2>5 DEF Judged
  <2> QED
    BY <2>6 DEF ConfigServes, servable
<1> QED
  BY SelectorsAlways, <1>1, PTL
------------------------------------------------------------------------------
(* What Proxy and Fusion take from here. *)

\* Of two survivors not both come before the other.
LEMMA OneWay ==
  ASSUME Shape, NEW i \in Survivors, NEW j \in Survivors,
         Precedes(view, plan, turn, consumer, override, i, j)
  PROVE  ~Precedes(view, plan, turn, consumer, override, j, i)
<1>1. view \in Snapshot /\ plan \in Plan /\ turn \in Nat
  BY ViewIs, SelectorsAssumption DEF Shape
<1>2. /\ Survivors \in SUBSET Nat /\ IsFiniteSet(Survivors)
      /\ i \in DOMAIN plan.cands /\ j \in DOMAIN plan.cands
  BY SurvivorsAscend
<1>3. CASE plan.selector = "pareto"
  <2>1. CostOf(i) \in Nat /\ CostOf(j) \in Nat /\ i \in Nat /\ j \in Nat
    BY <1>1, <1>2, CostTyped
  <2> QED
    BY <1>3, <2>1 DEF Precedes, ParetoBefore, CostOf
<1>4. CASE plan.selector # "pareto"
  <2>1. \A k \in Survivors : Distance(Survivors, turn, k) \in Nat
    BY <1>1, <1>2, DistanceNat
  <2>2. \A k : Shift(view, plan, turn, k) = Distance(Survivors, turn, k)
    BY ShiftIs DEF Survivors
  <2>3. Shift(view, plan, turn, i) \in Nat /\ Shift(view, plan, turn, j) \in Nat
    BY <2>1, <2>2
  <2> QED
    BY <1>4, <2>3 DEF Precedes, RoundRobinBefore
<1> QED
  BY <1>3, <1>4

\* The survivors that a loop over the slice has not reached before its place k.
Left(k) == Survivors \ {slice[l] : l \in 1..(k - 1)}

\* Each entry of the slice is what Proxy's failover loop goes for by the relation.
WalkedByPrecedence ==
  stage = "ordered" =>
    /\ \A k \in DOMAIN slice :
         /\ slice[k] \in Left(k)
         /\ \A i \in Left(k) :
              i = slice[k] <=>
                \A j \in Left(k) \ {i} : Precedes(view, plan, turn, consumer, override, i, j)
    /\ Left(Len(slice) + 1) = {}

\* A loop over the ordered slice and one that goes by Precedes are the same:
\* after any number of candidates both try the same one next, and both are out of
\* candidates together.  So the guard of Proxy's Dispatch admits exactly what
\* Execute's loop does, for every plan, fleet and turn.
THEOREM SliceWalked == Spec => []WalkedByPrecedence
<1>1. SelectorsInv => WalkedByPrecedence
  <2> SUFFICES ASSUME SelectorsInv, stage = "ordered" PROVE WalkedByPrecedence
    BY DEF WalkedByPrecedence
  <2> DEFINE before(i, j) == Precedes(view, plan, turn, consumer, override, i, j)
  <2>1. Shape /\ Lists(slice, Survivors, Due(turn))
    BY DEF SelectorsInv, Sliced
  <2>2. /\ Len(slice) \in Nat /\ DOMAIN slice = 1..Len(slice)
        /\ Survivors = {slice[k] : k \in DOMAIN slice}
    BY <2>1, Places DEF Lists
  <2>3. \A k, l \in DOMAIN slice : k < l => slice[k] # slice[l] /\ before(slice[k], slice[l])
    BY <2>1 DEF Lists, Due
  <2>4. ASSUME NEW k \in DOMAIN slice
        PROVE  Left(k) = {slice[l] : l \in k..Len(slice)} /\ slice[k] \in Left(k)
    <3>1. \A l \in DOMAIN slice : l < k \/ l = k \/ k < l
      BY <2>2
    <3>2. \A l \in 1..(k - 1), m \in k..Len(slice) : slice[l] # slice[m]
      BY <2>2, <2>3
    <3> QED
      BY <2>2, <3>1, <3>2 DEF Left
  <2>5. ASSUME NEW k \in DOMAIN slice, NEW j \in Left(k) \ {slice[k]}
        PROVE  before(slice[k], j)
    <3>1. PICK l \in k..Len(slice) : j = slice[l]
      BY <2>4, <2>5
    <3>2. l \in DOMAIN slice /\ k < l
      BY <2>2, <2>5, <3>1
    <3> QED
      BY <2>3, <3>1, <3>2
  <2>6. ASSUME NEW k \in DOMAIN slice, NEW i \in Left(k), i # slice[k],
               \A j \in Left(k) \ {i} : before(i, j)
        PROVE  FALSE
    <3>1. i \in Survivors /\ slice[k] \in Survivors
      BY <2>4 DEF Left
    <3>2. before(i, slice[k]) /\ before(slice[k], i)
      BY <2>4, <2>5, <2>6
    <3> QED
      BY <2>1, <3>1, <3>2, OneWay
  <2>7. Left(Len(slice) + 1) = {}
    <3>1. 1..(Len(slice) + 1 - 1) = DOMAIN slice
      BY <2>2
    <3> QED
      BY <2>2, <3>1 DEF Left
  <2>8. ASSUME NEW k \in DOMAIN slice, NEW i \in Left(k)
        PROVE  i = slice[k] <=> \A j \in Left(k) \ {i} : before(i, j)
    <3> HIDE DEF before
    <3> QED
      BY <2>5, <2>6
  <2> QED
    BY <2>4, <2>7, <2>8 DEF WalkedByPrecedence
<1> QED
  BY SelectorsAlways, <1>1, PTL

\* What the program serves is what the other modules assume of their constants:
\* of a proxy alias a plan that is not direct (ProxyAssumption), of a fusion
\* alias a council (FusionAssumption) whose quorum its panel can meet.
FilesFit ==
  stage \notin {"read", "refused"} =>
    LET aliases == WithDefaults(file).aliases
    IN \A a \in DOMAIN aliases :
         \/ /\ aliases[a].type = "proxy"
            /\ PlanOf(aliases[a]) \in Plan /\ ~PlanOf(aliases[a]).direct
         \/ /\ aliases[a].type = "fusion"
            /\ CouncilOf(aliases[a]) \in Council
            /\ CouncilOf(aliases[a]).minPanel <= Len(CouncilOf(aliases[a]).panel)

\* The aliases of every file the program starts with are what Proxy and Fusion
\* are proved for: validation makes their assumptions true.
THEOREM AssumptionsMet == Spec => []FilesFit
<1>1. SelectorsInv => FilesFit
  <2> SUFFICES ASSUME SelectorsInv, stage \notin {"read", "refused"} PROVE FilesFit
    BY DEF FilesFit
  <2> DEFINE aliases == WithDefaults(file).aliases
  <2>1. file \in Files /\ Accepted(file)
    BY DEF SelectorsInv, Shape, Judged
  <2>2. \A a \in DOMAIN aliases : aliases[a] \in AliasType /\ AliasValid(aliases[a], Names)
    BY <2>1, DefaultsTyped DEF Accepted, Names
  <2> SUFFICES ASSUME NEW a \in AliasType, AliasValid(a, Names)
               PROVE  \/ a.type = "proxy" /\ PlanOf(a) \in Plan /\ ~PlanOf(a).direct
                      \/ /\ a.type = "fusion" /\ CouncilOf(a) \in Council
                         /\ CouncilOf(a).minPanel <= Len(CouncilOf(a).panel)
    BY <2>2 DEF FilesFit
  <2>3. Servable(a)
    BY AliasServes
  <2>4. CASE a.type = "proxy"
    BY <2>3, <2>4 DEF Servable, PlanOf
  <2>5. CASE a.type = "fusion"
    <3>1. CouncilOf(a) \in Council
      BY <2>3, <2>5 DEF Servable
    <3>2. a.minPanel \in 1..Len(a.panel)
      BY <2>5 DEF AliasValid, FusionValid
    <3>3. a.panel \in Seq(EntryType)
      BY DEF AliasType
    <3>4. /\ CouncilOf(a).minPanel = a.minPanel
          /\ CouncilOf(a).panel = [i \in DOMAIN a.panel |-> a.panel[i].backends]
      BY DEF CouncilOf
    <3>5. Len(CouncilOf(a).panel) = Len(a.panel)
      BY <3>3, <3>4
    <3>6. Len(a.panel) \in Nat
      BY <3>3
    <3> QED
      BY <2>5, <3>1, <3>2, <3>4, <3>5, <3>6
  <2>6. a.type \in {"proxy", "fusion"}
    BY DEF AliasValid
  <2> QED
    BY <2>4, <2>5, <2>6
<1> QED
  BY SelectorsAlways, <1>1, PTL
==============================================================================
