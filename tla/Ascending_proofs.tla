--------------------------- MODULE Ascending_proofs ---------------------------
(***************************************************************************)
(* What Ascending returns for every finite set of naturals: a listing of   *)
(* exactly its members, strictly increasing; what one more, greater member *)
(* adds to it; which entries of a slice Kept keeps; and what Listed        *)
(* returns for every finite set and every order of it.  The last parts are *)
(* about a rotation of such a listing, which is arithmetic modulo its      *)
(* length, and about the member with the least scores.                     *)
(***************************************************************************)
EXTENDS Ascending, Sequences, FiniteSetTheorems, SequenceTheorems, TLAPS

\* The members of S up to i, and their number.
UpTo(S, i) == {j \in S : j <= i}

\* Counting up to a member of S gives a place among its members.
LEMMA PlaceTyped ==
  ASSUME NEW S \in SUBSET Nat, IsFiniteSet(S), NEW i \in S
  PROVE  Place(S, i) \in 1..Cardinality(S)
<1>1. /\ UpTo(S, i) \subseteq S /\ i \in UpTo(S, i)
  BY DEF UpTo
<1>2. /\ IsFiniteSet(UpTo(S, i)) /\ Cardinality(UpTo(S, i)) <= Cardinality(S)
      /\ Cardinality(UpTo(S, i)) \in Nat /\ Cardinality(S) \in Nat
  BY <1>1, FS_Subset, FS_CardinalityType
<1>3. Cardinality(UpTo(S, i)) # 0
  BY <1>1, <1>2, FS_EmptySet
<1> QED
  BY <1>2, <1>3 DEF Place, UpTo

\* A greater member has a later place, ...
LEMMA PlaceOrders ==
  ASSUME NEW S \in SUBSET Nat, IsFiniteSet(S), NEW i \in S, NEW j \in S, i < j
  PROVE  Place(S, i) < Place(S, j)
<1>1. /\ UpTo(S, i) \subseteq UpTo(S, j) /\ j \in UpTo(S, j) /\ j \notin UpTo(S, i)
      /\ UpTo(S, j) \subseteq S
  <2>1. i \in Nat /\ j \in Nat /\ \A h \in S : h \in Nat
    OBVIOUS
  <2>2. \A h \in S : h <= i => h <= j
    BY <2>1
  <2>3. j <= j /\ ~(j <= i)
    BY <2>1
  <2> QED
    BY <2>2, <2>3 DEF UpTo
<1>2. /\ IsFiniteSet(UpTo(S, j)) /\ IsFiniteSet(UpTo(S, i))
      /\ Cardinality(UpTo(S, i)) <= Cardinality(UpTo(S, j))
      /\ Cardinality(UpTo(S, i)) # Cardinality(UpTo(S, j))
      /\ Cardinality(UpTo(S, i)) \in Nat /\ Cardinality(UpTo(S, j)) \in Nat
  BY <1>1, FS_Subset, FS_CardinalityType
<1> QED
  BY <1>2 DEF Place, UpTo

\* ... and only a greater one.
LEMMA PlaceReflects ==
  ASSUME NEW S \in SUBSET Nat, IsFiniteSet(S), NEW i \in S, NEW j \in S,
         Place(S, i) < Place(S, j)
  PROVE  i < j
<1>1. i \in Nat /\ j \in Nat /\ Place(S, i) \in Nat /\ Place(S, j) \in Nat
  BY PlaceTyped, FS_CardinalityType
<1>2. ~(j < i)
  BY <1>1, PlaceOrders
<1> QED
  BY <1>1, <1>2

\* Every place is taken: an injection of S into as many places is onto.
LEMMA PlaceOnto ==
  ASSUME NEW S \in SUBSET Nat, IsFiniteSet(S), NEW k \in 1..Cardinality(S)
  PROVE  \E i \in S : Place(S, i) = k
<1> DEFINE T == 1..Cardinality(S)
           f == [i \in S |-> Place(S, i)]
<1>1. Cardinality(S) \in Nat
  BY FS_CardinalityType
<1>2. IsFiniteSet(T) /\ Cardinality(T) = Cardinality(S)
  <2>1. 1 \in Int /\ Cardinality(S) \in Int
    BY <1>1
  <2> QED
    BY <1>1, <2>1, FS_Interval
<1>3. \A i \in S : Place(S, i) \in T
  BY PlaceTyped
<1>4. ASSUME NEW i \in S, NEW j \in S, i # j
      PROVE  Place(S, i) # Place(S, j)
  <2>1. i < j \/ j < i
    BY <1>4
  <2>2. Place(S, i) < Place(S, j) \/ Place(S, j) < Place(S, i)
    BY <2>1, PlaceOrders
  <2> QED
    BY <1>1, <1>3, <2>2
<1>5. f \in Injection(S, T)
  BY <1>3, <1>4 DEF Injection, IsInjective
<1>6. f \in Surjection(S, T)
  BY <1>2, <1>5, FS_Injection
<1> QED
  BY <1>6 DEF Surjection

\* Each entry of the listing is the member with that place.
LEMMA AscendingAt ==
  ASSUME NEW S \in SUBSET Nat, IsFiniteSet(S), NEW k \in 1..Cardinality(S)
  PROVE  Ascending(S)[k] \in S /\ Place(S, Ascending(S)[k]) = k
<1>1. \E i \in S : Place(S, i) = k
  BY PlaceOnto
<1>2. Ascending(S)[k] = CHOOSE i \in S : Place(S, i) = k
  BY DEF Ascending
<1> QED
  BY <1>1, <1>2

\* Ascending lists every member of a finite set of naturals once, in ascending
\* order: what the loops over a slice (resolveFusion, runPanel) keep of it.
THEOREM AscendingLists ==
  ASSUME NEW S \in SUBSET Nat, IsFiniteSet(S)
  PROVE  /\ Ascending(S) \in Seq(S)
         /\ Len(Ascending(S)) = Cardinality(S)
         /\ DOMAIN Ascending(S) = 1..Cardinality(S)
         /\ {Ascending(S)[k] : k \in 1..Cardinality(S)} = S
         /\ \A k, l \in 1..Cardinality(S) : k < l => Ascending(S)[k] < Ascending(S)[l]
<1>1. Cardinality(S) \in Nat
  BY FS_CardinalityType
<1>2. Ascending(S) \in [1..Cardinality(S) -> S]
  BY AscendingAt DEF Ascending
<1>3. Ascending(S) \in Seq(S) /\ Len(Ascending(S)) = Cardinality(S)
  BY <1>1, <1>2
<1>4. ASSUME NEW i \in S
      PROVE  \E k \in 1..Cardinality(S) : Ascending(S)[k] = i
  <2> DEFINE k == Place(S, i)
             j == Ascending(S)[k]
  <2>1. k \in 1..Cardinality(S)
    BY PlaceTyped
  <2>2. j \in S /\ Place(S, j) = k
    BY <2>1, AscendingAt
  <2> HIDE DEF j
  <2>3. i \in Nat /\ j \in Nat
    BY <2>2
  <2>4. ~(i < j)
    BY <1>1, <2>1, <2>2, PlaceOrders
  <2>5. ~(j < i)
    BY <1>1, <2>1, <2>2, PlaceOrders
  <2>6. i = j
    BY <2>3, <2>4, <2>5
  <2> QED
    BY <2>1, <2>6 DEF j
<1>5. ASSUME NEW k \in 1..Cardinality(S), NEW l \in 1..Cardinality(S), k < l
      PROVE  Ascending(S)[k] < Ascending(S)[l]
  <2> DEFINE i == Ascending(S)[k]
             j == Ascending(S)[l]
  <2>1. i \in S /\ Place(S, i) = k /\ j \in S /\ Place(S, j) = l
    BY AscendingAt
  <2> HIDE DEF i, j
  <2>2. i < j
    BY <1>5, <2>1, PlaceReflects
  <2> QED
    BY <2>2 DEF i, j
<1> QED
  BY <1>2, <1>3, <1>4, <1>5

\* A member greater than all others comes last.
THEOREM AscendingAppends ==
  ASSUME NEW S \in SUBSET Nat, IsFiniteSet(S), NEW m \in Nat, \A i \in S : i < m
  PROVE  Ascending(S \cup {m}) = Append(Ascending(S), m)
<1> DEFINE n == Cardinality(S)
           T == S \cup {m}
           A == Ascending(S)
           B == Ascending(T)
<1>1. n \in Nat /\ m \notin S /\ T \in SUBSET Nat
  BY FS_CardinalityType
<1>2. IsFiniteSet(T) /\ Cardinality(T) = n + 1
  BY <1>1, FS_AddElement
<1>3. A \in Seq(S) /\ A \in Seq(T) /\ Len(A) = n
  BY AscendingLists, SeqMonotonic
<1>4. B \in Seq(T) /\ Len(B) = n + 1
  BY <1>1, <1>2, AscendingLists
<1>5. /\ Append(A, m) \in Seq(T) /\ Len(Append(A, m)) = n + 1
      /\ \A k \in 1..n : Append(A, m)[k] = A[k]
      /\ Append(A, m)[n + 1] = m
  BY <1>3, AppendProperties
<1>6. ASSUME NEW i \in T, NEW j \in T, Place(T, i) = Place(T, j)
      PROVE  i = j
  <2>1. i \in Nat /\ j \in Nat /\ Place(T, i) \in Nat
    BY <1>1, <1>2, PlaceTyped
  <2>2. ~(i < j) /\ ~(j < i)
    BY <1>1, <1>2, <1>6, <2>1, PlaceOrders
  <2> QED
    BY <2>1, <2>2
<1>7. ASSUME NEW k \in 1..n
      PROVE  B[k] = A[k]
  <2>1. A[k] \in S /\ Place(S, A[k]) = k
    BY AscendingAt
  <2>2. {j \in T : j <= A[k]} = {j \in S : j <= A[k]}
    <3>1. A[k] \in Nat /\ A[k] < m
      BY <2>1
    <3> HIDE DEF A
    <3> QED
      BY <3>1
  <2>3. Place(T, A[k]) = k
    BY <2>1, <2>2 DEF Place
  <2>4. k \in 1..(n + 1)
    BY <1>1
  <2>5. B[k] \in T /\ Place(T, B[k]) = k
    BY <1>1, <1>2, <2>4, AscendingAt
  <2> QED
    BY <1>6, <2>1, <2>3, <2>5
<1>8. B[n + 1] = m
  <2>1. {j \in T : j <= m} = T
    <3>1. \A j \in T : j \in Nat /\ (j < m \/ j = m)
      OBVIOUS
    <3> HIDE DEF T
    <3> QED
      BY <3>1
  <2>2. Place(T, m) = n + 1
    BY <1>2, <2>1 DEF Place
  <2>3. B[n + 1] \in T /\ Place(T, B[n + 1]) = n + 1
    BY <1>1, <1>2, AscendingAt
  <2> QED
    BY <1>6, <2>2, <2>3
<1>9. \A k \in 1..Len(B) : B[k] = Append(A, m)[k]
  <2> HIDE DEF A, B, T
  <2> QED
    BY <1>1, <1>4, <1>5, <1>7, <1>8
<1> HIDE DEF A, B, T
<1>10. B = Append(A, m)
  BY <1>4, <1>5, <1>9, SeqEqual
<1> QED
  BY <1>10 DEF A, B, T

\* A nonempty set of naturals has a least member.
LEMMA LeastNatural ==
  ASSUME NEW S \in SUBSET Nat, S # {}
  PROVE  \E m \in S : \A i \in S : m <= i
<1>1. PICK n \in S : TRUE
  OBVIOUS
<1> DEFINE T == {i \in S : i <= n}
<1>2. T \in SUBSET Nat /\ n \in T /\ n \in Nat /\ \A i \in T : i <= n
  <2>1. n \in Nat
    OBVIOUS
  <2>2. n <= n
    BY <2>1
  <2> QED
    BY <2>1, <2>2
<1>3. IsFiniteSet(T)
  BY <1>2, FS_BoundedSetOfNaturals
<1>4. Cardinality(T) \in Nat /\ Cardinality(T) # 0
  BY <1>2, <1>3, FS_EmptySet, FS_CardinalityType
<1> DEFINE m == Ascending(T)[1]
<1>5. 1 \in 1..Cardinality(T)
  BY <1>4
<1>6. m \in T /\ Place(T, m) = 1
  BY <1>2, <1>3, <1>5, AscendingAt
<1> HIDE DEF m
<1>7. ASSUME NEW i \in T
      PROVE  m <= i
  <2>1. Place(T, i) \in 1..Cardinality(T)
    BY <1>2, <1>3, PlaceTyped
  <2>2. i < m => Place(T, i) < 1
    BY <1>2, <1>3, <1>6, PlaceOrders
  <2> QED
    BY <1>2, <1>4, <1>6, <2>1, <2>2
<1>8. ASSUME NEW i \in S
      PROVE  m <= i
  BY <1>2, <1>6, <1>7
<1> QED
  BY <1>6, <1>8
------------------------------------------------------------------------------
\* u lists the entries of s at the places P, in the order of s.
Follows(u, s, P) ==
  /\ {u[k] : k \in DOMAIN u} = {s[i] : i \in P}
  /\ \A k, l \in DOMAIN u : k < l => \E i, j \in P : i < j /\ u[k] = s[i] /\ u[l] = s[j]

\* Kept keeps exactly the entries at the given places, and their order.
THEOREM KeptIs ==
  ASSUME NEW X, NEW s \in Seq(X), NEW P \in SUBSET (DOMAIN s)
  PROVE  /\ Kept(s, P) \in Seq(X) /\ Len(Kept(s, P)) = Cardinality(P) /\ Cardinality(P) \in Nat
         /\ DOMAIN Kept(s, P) = 1..Cardinality(P)
         /\ Follows(Kept(s, P), s, P)
<1> DEFINE at == Ascending(P)
           n  == Cardinality(P)
<1>1. Len(s) \in Nat /\ DOMAIN s = 1..Len(s) /\ \A i \in DOMAIN s : s[i] \in X
  OBVIOUS
<1>2. P \in SUBSET Nat /\ IsFiniteSet(P)
  <2>1. P \subseteq 1..Len(s) /\ IsFiniteSet(1..Len(s))
    BY <1>1, FS_Interval
  <2> QED
    BY <2>1, FS_Subset
<1>3. /\ DOMAIN at = 1..n /\ n \in Nat
      /\ {at[k] : k \in 1..n} = P
      /\ \A k, l \in 1..n : k < l => at[k] < at[l]
  BY <1>2, AscendingLists, FS_CardinalityType
<1> DEFINE u == Kept(s, P)
<1>4. u = [k \in 1..n |-> s[at[k]]]
  BY <1>3 DEF Kept
<1>5. \A k \in 1..n : at[k] \in P
  BY <1>3
<1> HIDE DEF at, n, u
<1>6. u \in [1..n -> X]
  BY <1>1, <1>4, <1>5
<1>7. u \in Seq(X) /\ Len(u) = n /\ DOMAIN u = 1..n
  BY <1>3, <1>6
<1>8. {u[k] : k \in 1..n} = {s[i] : i \in P}
  BY <1>3, <1>4
<1>9. ASSUME NEW k \in DOMAIN u, NEW l \in DOMAIN u, k < l
      PROVE  \E i, j \in P : i < j /\ u[k] = s[i] /\ u[l] = s[j]
  BY <1>3, <1>4, <1>5, <1>7, <1>9
<1>10. {u[k] : k \in DOMAIN u} = {s[i] : i \in P}
  BY <1>7, <1>8
<1>11. Follows(u, s, P)
  BY <1>9, <1>10 DEF Follows
<1> QED
  BY <1>3, <1>7, <1>11 DEF n, u

------------------------------------------------------------------------------
(* Other orders. *)

IsOrder(S, R) ==
  /\ \A x, y \in S : <<x, y>> \in R \/ <<y, x>> \in R
  /\ \A x, y \in S : <<x, y>> \in R /\ <<y, x>> \in R => x = y
  /\ \A x, y, z \in S : <<x, y>> \in R /\ <<y, z>> \in R => <<x, z>> \in R

Down(S, R, x) == {y \in S : <<y, x>> \in R}

\* A member's ordinal is a place among the members, ...
LEMMA OrdinalTyped ==
  ASSUME NEW S, IsFiniteSet(S), NEW R, IsOrder(S, R), NEW x \in S
  PROVE  Ordinal(S, R, x) \in 1..Cardinality(S)
<1>1. Down(S, R, x) \subseteq S /\ x \in Down(S, R, x)
  BY DEF Down, IsOrder
<1>2. /\ IsFiniteSet(Down(S, R, x)) /\ Cardinality(Down(S, R, x)) <= Cardinality(S)
      /\ Cardinality(Down(S, R, x)) \in Nat /\ Cardinality(S) \in Nat
  BY <1>1, FS_Subset, FS_CardinalityType
<1>3. Cardinality(Down(S, R, x)) # 0
  BY <1>1, <1>2, FS_EmptySet
<1> QED
  BY <1>2, <1>3 DEF Ordinal, Down

\* ... and an earlier one for the earlier of two.
LEMMA OrdinalOrders ==
  ASSUME NEW S, IsFiniteSet(S), NEW R, IsOrder(S, R), NEW x \in S, NEW y \in S, x # y,
         <<x, y>> \in R
  PROVE  Ordinal(S, R, x) < Ordinal(S, R, y)
<1>1. /\ Down(S, R, x) \subseteq Down(S, R, y) /\ y \in Down(S, R, y) /\ y \notin Down(S, R, x)
      /\ Down(S, R, y) \subseteq S
  BY DEF Down, IsOrder
<1>2. /\ IsFiniteSet(Down(S, R, y)) /\ IsFiniteSet(Down(S, R, x))
      /\ Cardinality(Down(S, R, x)) <= Cardinality(Down(S, R, y))
      /\ Cardinality(Down(S, R, x)) # Cardinality(Down(S, R, y))
      /\ Cardinality(Down(S, R, x)) \in Nat /\ Cardinality(Down(S, R, y)) \in Nat
  BY <1>1, FS_Subset, FS_CardinalityType
<1> QED
  BY <1>2 DEF Ordinal, Down

\* Every ordinal is taken, by one member.
LEMMA ListedAt ==
  ASSUME NEW S, IsFiniteSet(S), NEW R, IsOrder(S, R), NEW k \in 1..Cardinality(S)
  PROVE  Listed(S, R)[k] \in S /\ Ordinal(S, R, Listed(S, R)[k]) = k
<1> DEFINE T == 1..Cardinality(S)
           f == [x \in S |-> Ordinal(S, R, x)]
<1>1. Cardinality(S) \in Nat
  BY FS_CardinalityType
<1>2. IsFiniteSet(T) /\ Cardinality(T) = Cardinality(S)
  <2>1. 1 \in Int /\ Cardinality(S) \in Int
    BY <1>1
  <2> QED
    BY <1>1, <2>1, FS_Interval
<1>3. \A x \in S : Ordinal(S, R, x) \in T
  BY OrdinalTyped
<1>4. ASSUME NEW x \in S, NEW y \in S, x # y
      PROVE  Ordinal(S, R, x) # Ordinal(S, R, y)
  <2>1. <<x, y>> \in R \/ <<y, x>> \in R
    BY DEF IsOrder
  <2>2. Ordinal(S, R, x) < Ordinal(S, R, y) \/ Ordinal(S, R, y) < Ordinal(S, R, x)
    BY <1>4, <2>1, OrdinalOrders
  <2> QED
    BY <1>1, <1>3, <2>2
<1>5. f \in Injection(S, T)
  BY <1>3, <1>4 DEF Injection, IsInjective
<1>6. f \in Surjection(S, T)
  BY <1>2, <1>5, FS_Injection
<1>7. \E x \in S : Ordinal(S, R, x) = k
  BY <1>6 DEF Surjection
<1>8. Listed(S, R)[k] = CHOOSE x \in S : Ordinal(S, R, x) = k
  BY DEF Listed
<1> QED
  BY <1>7, <1>8

\* Listed lists every member of a finite set once, in the given order.
THEOREM ListedLists ==
  ASSUME NEW S, IsFiniteSet(S), NEW R, IsOrder(S, R)
  PROVE  /\ Listed(S, R) \in Seq(S)
         /\ Len(Listed(S, R)) = Cardinality(S) /\ Cardinality(S) \in Nat
         /\ DOMAIN Listed(S, R) = 1..Cardinality(S)
         /\ {Listed(S, R)[k] : k \in 1..Cardinality(S)} = S
         /\ \A k, l \in 1..Cardinality(S) :
              k < l => /\ Listed(S, R)[k] # Listed(S, R)[l]
                       /\ <<Listed(S, R)[k], Listed(S, R)[l]>> \in R
<1> DEFINE L == Listed(S, R)
           n == Cardinality(S)
<1>1. n \in Nat
  BY FS_CardinalityType
<1>2. \A k \in 1..n : L[k] \in S /\ Ordinal(S, R, L[k]) = k
  BY ListedAt
<1>3. L \in [1..n -> S]
  BY <1>2 DEF Listed
<1>4. ASSUME NEW x \in S
      PROVE  \E k \in 1..n : L[k] = x
  <2> DEFINE k == Ordinal(S, R, x)
  <2>1. k \in 1..n
    BY OrdinalTyped
  <2>2. L[k] \in S /\ Ordinal(S, R, L[k]) = k
    BY <1>2, <2>1
  <2>3. ASSUME L[k] # x
        PROVE  FALSE
    <3> DEFINE y == L[k]
    <3>1. y \in S /\ y # x /\ Ordinal(S, R, y) = Ordinal(S, R, x)
      BY <2>2, <2>3
    <3> HIDE DEF y
    <3>2. <<x, y>> \in R \/ <<y, x>> \in R
      BY <3>1 DEF IsOrder
    <3>3. Ordinal(S, R, x) < Ordinal(S, R, y) \/ Ordinal(S, R, y) < Ordinal(S, R, x)
      BY <3>1, <3>2, OrdinalOrders
    <3> HIDE DEF L
    <3>4. Ordinal(S, R, x) \in Int
      BY <1>1, <2>1
    <3> HIDE DEF k
    <3> QED
      BY <3>1, <3>3, <3>4
  <2> QED
    BY <2>1, <2>3
<1>5. ASSUME NEW k \in 1..n, NEW l \in 1..n, k < l
      PROVE  L[k] # L[l] /\ <<L[k], L[l]>> \in R
  <2> DEFINE x == L[k]
             y == L[l]
  <2>1. x \in S /\ y \in S /\ Ordinal(S, R, x) = k /\ Ordinal(S, R, y) = l
    BY <1>2
  <2> HIDE DEF x, y
  <2>2. x # y
    BY <1>1, <1>5, <2>1
  <2>3. <<x, y>> \in R
    <3>1. <<x, y>> \in R \/ <<y, x>> \in R
      BY <2>1 DEF IsOrder
    <3>2. <<y, x>> \in R => l < k
      BY <2>1, <2>2, OrdinalOrders
    <3> QED
      BY <1>1, <1>5, <3>1, <3>2
  <2> QED
    BY <2>2, <2>3 DEF x, y
<1>6. L \in Seq(S) /\ Len(L) = n /\ DOMAIN L = 1..n
  BY <1>1, <1>3
<1>7. {L[k] : k \in 1..n} = S
  BY <1>2, <1>4
<1> QED
  BY <1>1, <1>5, <1>6, <1>7
------------------------------------------------------------------------------
\* A number below twice the modulus is reduced by at most one subtraction.
LEMMA ReduceOnce ==
  ASSUME NEW n \in Nat \ {0}, NEW x \in 0..(2 * n - 1)
  PROVE  x % n = IF x < n THEN x ELSE x - n
<1>1. n \in Int /\ n > 0 /\ x \in Int /\ x >= 0 /\ x < 2 * n
  OBVIOUS
<1>2. CASE x < n
  BY <1>1, <1>2
<1>3. CASE x >= n
  BY <1>1, <1>3
<1> QED
  BY <1>1, <1>2, <1>3

\* The quotient and the remainder of a division.
LEMMA Division ==
  ASSUME NEW n \in Nat \ {0}, NEW t \in Nat
  PROVE  \E k \in Int : t = n * k + (t % n) /\ t % n \in 0..(n - 1)
<1>1. t = n * (t \div n) + (t % n)
  OBVIOUS
<1>2. t % n \in 0..(n - 1)
  OBVIOUS
<1>3. t \div n \in Int
  OBVIOUS
<1> QED
  BY <1>1, <1>2, <1>3

\* Successive numbers differ modulo anything but one.
LEMMA Successive ==
  ASSUME NEW n \in Nat, n > 1, NEW t \in Nat
  PROVE  (t + 1) % n # t % n
<1>0. n \in Nat \ {0} /\ t + 1 \in Nat
  OBVIOUS
<1>1. PICK k \in Int : t = n * k + (t % n) /\ t % n \in 0..(n - 1)
  BY <1>0, Division
<1>2. PICK l \in Int : t + 1 = n * l + ((t + 1) % n) /\ (t + 1) % n \in 0..(n - 1)
  BY <1>0, Division
<1>3. ASSUME (t + 1) % n = t % n
      PROVE  FALSE
  <2> DEFINE d == l - k
  <2>1. d \in Int /\ n * d = 1
    BY <1>1, <1>2, <1>3
  <2>2. d <= 0 \/ d >= 1
    BY <2>1
  <2> HIDE DEF d
  <2>3. d <= 0 => n * d <= 0
    BY <2>1
  <2>4. d >= 1 => n * d >= n
    BY <2>1
  <2> QED
    BY <2>1, <2>2, <2>3, <2>4
<1> QED
  BY <1>3
------------------------------------------------------------------------------
\* How far behind the starting point that a turn names the member i of S comes.
Distance(S, turn, i) ==
  LET n == Cardinality(S)
  IN (Cardinality({j \in S : j < i}) + n - (turn % n)) % n

\* As many members come before i as its place among them says.
LEMMA BeforeIs ==
  ASSUME NEW S \in SUBSET Nat, IsFiniteSet(S), NEW i \in S
  PROVE  Cardinality({j \in S : j < i}) = Place(S, i) - 1
<1> DEFINE B == {j \in S : j < i}
<1>1. i \in Nat /\ \A j \in S : j \in Nat
  OBVIOUS
<1>2. IsFiniteSet(B) /\ i \notin B
  <2>1. B \subseteq S
    OBVIOUS
  <2> QED
    BY <1>1, <2>1, FS_Subset
<1>3. B \cup {i} = {j \in S : j <= i}
  <2>1. \A j \in S : j <= i <=> (j < i \/ j = i)
    BY <1>1
  <2> QED
    BY <2>1
<1>4. Cardinality(B \cup {i}) = Cardinality(B) + 1 /\ Cardinality(B) \in Nat
  BY <1>2, FS_AddElement, FS_CardinalityType
<1> QED
  BY <1>3, <1>4 DEF Place

\* The distance of a member from the starting point of the rotation.
LEMMA DistanceIs ==
  ASSUME NEW S \in SUBSET Nat, IsFiniteSet(S), NEW turn \in Nat, NEW i \in S
  PROVE  LET n     == Cardinality(S)
             start == turn % n
             at    == Place(S, i)
         IN /\ n \in Nat \ {0} /\ start \in 0..(n - 1) /\ at \in 1..n
            /\ Distance(S, turn, i) = IF at > start THEN at - 1 - start ELSE at - 1 + n - start
<1> DEFINE n     == Cardinality(S)
           start == turn % n
           at    == Place(S, i)
<1>1. S \in SUBSET Nat /\ IsFiniteSet(S)
  OBVIOUS
<1>2. at \in 1..n /\ n \in Nat
  BY <1>1, PlaceTyped, FS_CardinalityType
<1>3. n \in Nat \ {0}
  BY <1>2
<1>4. start \in 0..(n - 1)
  BY <1>3, Division
<1>5. Distance(S, turn, i) = (at - 1 + n - start) % n
  BY <1>1, BeforeIs DEF Distance
<1> DEFINE x == at - 1 + n - start
<1> HIDE DEF n, start, at
<1>6. x \in 0..(2 * n - 1)
  BY <1>2, <1>3, <1>4
<1>7. x % n = IF x < n THEN x ELSE x - n
  <2> HIDE DEF x
  <2> QED
    BY <1>3, <1>6, ReduceOnce
<1>8. (IF x < n THEN x ELSE x - n) = IF at > start THEN at - 1 - start ELSE x
  BY <1>2, <1>3, <1>4
<1> QED
  BY <1>2, <1>3, <1>4, <1>5, <1>7, <1>8 DEF n, start, at

\* It is a natural number.
LEMMA DistanceNat ==
  ASSUME NEW S \in SUBSET Nat, IsFiniteSet(S), NEW turn \in Nat, NEW i \in S
  PROVE  Distance(S, turn, i) \in Nat
<1> DEFINE n     == Cardinality(S)
           start == turn % n
           at    == Place(S, i)
<1>1. /\ n \in Nat \ {0} /\ start \in 0..(n - 1) /\ at \in 1..n
      /\ Distance(S, turn, i) = IF at > start THEN at - 1 - start ELSE at - 1 + n - start
  BY DistanceIs
<1> HIDE DEF n, start, at
<1> QED
  BY <1>1

\* Different members are at different distances.
LEMMA DistanceInjective ==
  ASSUME NEW S \in SUBSET Nat, IsFiniteSet(S), NEW turn \in Nat,
         NEW i \in S, NEW j \in S, i # j
  PROVE  Distance(S, turn, i) # Distance(S, turn, j)
<1> DEFINE n     == Cardinality(S)
           start == turn % n
<1>1. Place(S, i) # Place(S, j)
  <2>1. S \in SUBSET Nat /\ IsFiniteSet(S)
    OBVIOUS
  <2>2. i < j \/ j < i
    BY <2>1
  <2>3. Place(S, i) < Place(S, j) \/ Place(S, j) < Place(S, i)
    BY <2>1, <2>2, PlaceOrders
  <2>4. Place(S, i) \in Nat /\ Place(S, j) \in Nat
    BY <2>1, PlaceTyped, FS_CardinalityType
  <2> QED
    BY <2>3, <2>4
<1> DEFINE at(k) == Place(S, k)
<1>2. ASSUME NEW k \in S
      PROVE  /\ n \in Nat \ {0} /\ start \in 0..(n - 1) /\ at(k) \in 1..n
             /\ Distance(S, turn, k) =
                  IF at(k) > start THEN at(k) - 1 - start ELSE at(k) - 1 + n - start
  BY DistanceIs
<1>3. at(i) # at(j)
  BY <1>1
<1> HIDE DEF n, start, at
<1> QED
  BY <1>2, <1>3

\* One member is where the rotation starts: the one in the place that the turn
\* names, modulo their number.
LEMMA DistanceStarts ==
  ASSUME NEW S \in SUBSET Nat, IsFiniteSet(S), NEW turn \in Nat, S # {}
  PROVE  LET n     == Cardinality(S)
         IN /\ \A i \in S :
                 Distance(S, turn, i) = 0 <=> Place(S, i) = (turn % n) + 1
            /\ \E i \in S : Distance(S, turn, i) = 0
<1> DEFINE n     == Cardinality(S)
           start == turn % n
           at(k) == Place(S, k)
<1>1. S \in SUBSET Nat /\ IsFiniteSet(S)
  OBVIOUS
<1>2. ASSUME NEW k \in S
      PROVE  /\ n \in Nat \ {0} /\ start \in 0..(n - 1) /\ at(k) \in 1..n
             /\ Distance(S, turn, k) =
                  IF at(k) > start THEN at(k) - 1 - start ELSE at(k) - 1 + n - start
  BY DistanceIs
<1>3. \A k \in S : Distance(S, turn, k) = 0 <=> at(k) = start + 1
  <2> HIDE DEF n, start, at
  <2> QED
    BY <1>2
<1>4. start + 1 \in 1..n
  <2>1. PICK k \in S : TRUE
    OBVIOUS
  <2>2. n \in Nat \ {0} /\ start \in 0..(n - 1)
    BY <2>1, <1>2
  <2> HIDE DEF n, start, at
  <2> QED
    BY <2>2
<1>5. \E k \in S : at(k) = start + 1
  BY <1>1, <1>4, PlaceOnto
<1> QED
  BY <1>3, <1>5
------------------------------------------------------------------------------
\* By the first score, then the second, then the last.
Less(f, g, h, i, j) ==
  \/ f[i] < f[j]
  \/ f[i] = f[j] /\ (g[i] < g[j] \/ (g[i] = g[j] /\ h[i] < h[j]))

\* Some member of a set has the least score.
LEMMA LeastScore ==
  ASSUME NEW T, NEW f \in [T -> Nat], NEW A \in SUBSET T, A # {}
  PROVE  \E m \in A : \A i \in A : f[m] <= f[i]
<1> DEFINE S == {f[i] : i \in A}
<1>1. S \in SUBSET Nat /\ S # {}
  OBVIOUS
<1>2. PICK n \in S : \A k \in S : n <= k
  <2> HIDE DEF S
  <2> QED
    BY <1>1, LeastNatural
<1> QED
  BY <1>2

\* If the last score tells all members of a set apart, one of them is less than
\* every other, and not the other way round.
LEMMA OneLeast ==
  ASSUME NEW T, T # {}, NEW f \in [T -> Nat], NEW g \in [T -> Nat], NEW h \in [T -> Nat],
         \A i, j \in T : i # j => h[i] # h[j]
  PROVE  \E i \in T : \A j \in T \ {i} : Less(f, g, h, i, j) /\ ~Less(f, g, h, j, i)
<1>1. PICK k \in T : \A i \in T : f[k] <= f[i]
  BY LeastScore
<1> DEFINE A == {i \in T : f[i] = f[k]}
<1>2. A \subseteq T /\ A # {}
  OBVIOUS
<1>3. PICK l \in A : \A i \in A : g[l] <= g[i]
  <2> HIDE DEF A
  <2> QED
    BY <1>2, LeastScore
<1> DEFINE B == {i \in A : g[i] = g[l]}
<1>4. B \subseteq T /\ B # {}
  OBVIOUS
<1>5. PICK m \in B : \A i \in B : h[m] <= h[i]
  <2> HIDE DEF B
  <2> QED
    BY <1>4, LeastScore
<1>6. m \in T /\ f[m] = f[k] /\ g[m] = g[l]
  OBVIOUS
<1>7. f[m] \in Nat /\ g[m] \in Nat /\ h[m] \in Nat
  BY <1>6
<1>8. ASSUME NEW j \in T \ {m}
      PROVE  Less(f, g, h, m, j) /\ ~Less(f, g, h, j, m)
  <2>1. f[j] \in Nat /\ g[j] \in Nat /\ h[j] \in Nat /\ h[m] # h[j]
    BY <1>6, <1>8
  <2>2. f[m] <= f[j]
    BY <1>1, <1>6
  <2>3. f[j] = f[m] => g[m] <= g[j]
    BY <1>3, <1>6
  <2>4. f[j] = f[m] /\ g[j] = g[m] => h[m] <= h[j]
    BY <1>5, <1>6
  <2> QED
    BY <1>7, <2>1, <2>2, <2>3, <2>4 DEF Less
<1> QED
  BY <1>6, <1>8
==============================================================================
