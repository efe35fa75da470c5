-------------------------- MODULE Translation_proofs --------------------------
(***************************************************************************)
(* Proofs about Translation, for requests and answers of any length.       *)
(*                                                                         *)
(* The loops of the two adapters append something, or nothing, for each    *)
(* part, block or message.  The first half says what such loops return:    *)
(* two of them in a row are one, that appends for each entry what the      *)
(* second makes of what the first appends (CollectTwice).  So a translated *)
(* request says what the original said, or only what an Anthropic provider *)
(* can be told of it, because each part does.                              *)
(***************************************************************************)
EXTENDS Translation, Ascending_proofs

------------------------------------------------------------------------------
(* Sequences of any length. *)

\* Induction over sequences, for a set G of sequences.
LEMMA SeqInduction ==
  ASSUME NEW S, NEW G, <<>> \in G, \A s \in Seq(S), x \in S : s \in G => Append(s, x) \in G
  PROVE  Seq(S) \subseteq G
<1> SUFFICES ASSUME NEW bad \in Seq(S), bad \notin G
             PROVE  FALSE
  OBVIOUS
<1> DEFINE N == {Len(s) : s \in Seq(S) \ G}
<1>1. N \in SUBSET Nat /\ N # {}
  OBVIOUS
<1>2. PICK m \in N : \A i \in N : m <= i
  <2> HIDE DEF N
  <2> QED
    BY <1>1, LeastNatural
<1>3. PICK s \in Seq(S) \ G : Len(s) = m
  BY <1>2
<1>4. s # <<>>
  BY <1>3
<1>5. PICK t \in Seq(S), x \in S : s = Append(t, x)
  BY <1>3, <1>4, SequenceEmptyOrAppend
<1>6. Len(t) \in Nat /\ Len(s) = Len(t) + 1
  BY <1>5
<1>7. t \notin G
  BY <1>3, <1>5
<1>8. Len(t) \in N
  BY <1>7
<1>9. m <= Len(t)
  BY <1>2, <1>8
<1> QED
  BY <1>3, <1>6, <1>9

\* f is what FlattenSeq computes of s.
IsFlat(f, s) == f = [i \in 1..Len(s) |-> IF i = 1 THEN s[i] ELSE f[i - 1] \o s[i]]

\* More of s does not change what was computed of its beginning.
LEMMA FlatAgrees ==
  ASSUME NEW T, NEW s \in Seq(Seq(T)), NEW x \in Seq(T), NEW f, NEW g,
         IsFlat(f, s), IsFlat(g, Append(s, x))
  PROVE  \A i \in 1..Len(s) : f[i] = g[i]
<1> DEFINE t == Append(s, x)
           B == {i \in 1..Len(s) : f[i] # g[i]}
<1>1. Len(s) \in Nat /\ Len(t) = Len(s) + 1 /\ \A i \in 1..Len(s) : t[i] = s[i]
  OBVIOUS
<1> HIDE DEF t
<1>2. \A i \in 1..Len(s) : f[i] = IF i = 1 THEN s[i] ELSE f[i - 1] \o s[i]
  BY DEF IsFlat
<1>3. \A i \in 1..Len(t) : g[i] = IF i = 1 THEN t[i] ELSE g[i - 1] \o t[i]
  BY DEF IsFlat, t
<1>4. \A i \in 1..Len(s) : g[i] = IF i = 1 THEN s[i] ELSE g[i - 1] \o s[i]
  BY <1>1, <1>3
<1>5. SUFFICES ASSUME B # {} PROVE FALSE
  OBVIOUS
<1>6. B \in SUBSET Nat
  OBVIOUS
<1>7. PICK m \in B : \A i \in B : m <= i
  <2> HIDE DEF B
  <2> QED
    BY <1>5, <1>6, LeastNatural
<1>8. m # 1
  BY <1>2, <1>4
<1>9. m - 1 \in 1..Len(s) /\ m - 1 \notin B /\ m \in 1..Len(s)
  <2>1. m \in 1..Len(s)
    OBVIOUS
  <2>2. m - 1 \in 1..Len(s) /\ ~(m <= m - 1)
    BY <1>1, <1>8, <2>1
  <2> HIDE DEF B
  <2> QED
    BY <1>7, <2>1, <2>2
<1>10. f[m - 1] = g[m - 1]
  BY <1>9
<1> QED
  BY <1>2, <1>4, <1>7, <1>8, <1>9, <1>10

\* One more sequence is computed from the last result.
LEMMA FlatExtends ==
  ASSUME NEW T, NEW s \in Seq(Seq(T)), NEW x \in Seq(T), NEW f, IsFlat(f, s)
  PROVE  \E g : IsFlat(g, Append(s, x))
<1> DEFINE t == Append(s, x)
           n == Len(s)
           g == [i \in 1..Len(t) |-> IF i <= n THEN f[i] ELSE IF i = 1 THEN x ELSE f[n] \o x]
<1>1. n \in Nat /\ Len(t) = n + 1 /\ t[n + 1] = x /\ \A i \in 1..n : t[i] = s[i]
  OBVIOUS
<1> HIDE DEF t
<1>2. \A i \in 1..n : f[i] = IF i = 1 THEN s[i] ELSE f[i - 1] \o s[i]
  BY DEF IsFlat
<1> HIDE DEF n
<1>3. ASSUME NEW i \in 1..Len(t)
      PROVE  g[i] = IF i = 1 THEN t[i] ELSE g[i - 1] \o t[i]
  <2>1. CASE i <= n
    <3>1. i \in 1..n /\ (i # 1 => i - 1 \in 1..n)
      BY <1>1, <2>1
    <3>2. g[i] = f[i] /\ (i # 1 => g[i - 1] = f[i - 1])
      BY <1>1, <2>1, <3>1
    <3> QED
      BY <1>1, <1>2, <3>1, <3>2
  <2>2. CASE i = n + 1
    <3>1. g[i] = IF i = 1 THEN x ELSE f[n] \o x
      BY <1>1, <2>2
    <3>2. i # 1 => g[i - 1] = f[n]
      BY <1>1, <2>2
    <3> QED
      BY <1>1, <2>2, <3>1, <3>2
  <2> QED
    BY <1>1, <2>1, <2>2
<1>4. g = [i \in 1..Len(t) |-> IF i = 1 THEN t[i] ELSE g[i - 1] \o t[i]]
  <2> DEFINE h == [i \in 1..Len(t) |-> IF i = 1 THEN t[i] ELSE g[i - 1] \o t[i]]
  <2>1. \A i \in 1..Len(t) : g[i] = h[i]
    BY <1>3
  <2>2. DOMAIN g = 1..Len(t) /\ DOMAIN h = 1..Len(t) /\ g = [i \in DOMAIN g |-> g[i]] /\ h = [i \in DOMAIN h |-> h[i]]
    OBVIOUS
  <2> HIDE DEF g, h
  <2>3. g = h
    BY <2>1, <2>2
  <2> QED
    BY <2>3 DEF h
<1>5. IsFlat(g, t)
  BY <1>4 DEF IsFlat
<1> QED
  BY <1>5 DEF t

\* It can be computed of every sequence.
LEMMA FlatExists ==
  ASSUME NEW T, NEW s \in Seq(Seq(T))
  PROVE  \E f : IsFlat(f, s)
<1> DEFINE G == {t \in Seq(Seq(T)) : \E f : IsFlat(f, t)}
<1>1. <<>> \in G
  <2> DEFINE f == [i \in 1..0 |-> IF i = 1 THEN <<>>[i] ELSE <<>>[i]]
  <2>1. IsFlat(<<>>, <<>>)
    BY DEF IsFlat
  <2> QED
    BY <2>1
<1>2. \A t \in Seq(Seq(T)), x \in Seq(T) : t \in G => Append(t, x) \in G
  BY FlatExtends
<1>3. Seq(Seq(T)) \subseteq G
  <2> HIDE DEF G
  <2> QED
    BY <1>1, <1>2, SeqInduction
<1> QED
  BY <1>3

\* What FlattenSeq returns.
LEMMA FlattenIs ==
  ASSUME NEW T, NEW s \in Seq(Seq(T)), s # <<>>
  PROVE  \E f : IsFlat(f, s) /\ FlattenSeq(s) = f[Len(s)]
<1> DEFINE g == CHOOSE f : IsFlat(f, s)
<1>1. IsFlat(g, s)
  BY FlatExists
<1>2. Len(s) # 0
  OBVIOUS
<1>3. FlattenSeq(s) = g[Len(s)]
  BY <1>2 DEF FlattenSeq, IsFlat
<1> QED
  BY <1>1, <1>3

\* What a loop that appends has built grows by its next piece; the first piece is
\* all there is.
LEMMA FlattenAppends ==
  ASSUME NEW T, NEW s \in Seq(Seq(T)), NEW x \in Seq(T)
  PROVE  FlattenSeq(Append(s, x)) = IF s = <<>> THEN x ELSE FlattenSeq(s) \o x
<1> DEFINE t == Append(s, x)
           n == Len(s)
<1>1. n \in Nat /\ Len(t) = n + 1 /\ t[n + 1] = x /\ t \in Seq(Seq(T)) /\ t # <<>>
  OBVIOUS
<1>2. PICK g : IsFlat(g, t) /\ FlattenSeq(t) = g[Len(t)]
  <2> HIDE DEF t
  <2> QED
    BY <1>1, FlattenIs
<1>3. g[n + 1] = IF n + 1 = 1 THEN x ELSE g[n] \o x
  <2> HIDE DEF t, n
  <2>1. n + 1 \in 1..Len(t) /\ (n + 1) - 1 = n
    BY <1>1
  <2> QED
    BY <1>1, <1>2, <2>1 DEF IsFlat
<1>4. CASE s = <<>>
  <2>1. n = 0
    BY <1>4
  <2> QED
    BY <1>1, <1>2, <1>3, <1>4, <2>1
<1>5. CASE s # <<>>
  <2>1. PICK f : IsFlat(f, s) /\ FlattenSeq(s) = f[n]
    BY <1>5, FlattenIs
  <2>2. \A i \in 1..n : f[i] = g[i]
    BY <1>2, <2>1, FlatAgrees
  <2>3. n # 0 /\ n \in 1..n
    BY <1>1, <1>5
  <2>4. g[n] = FlattenSeq(s)
    BY <2>1, <2>2, <2>3
  <2>5. g[n + 1] = g[n] \o x
    BY <1>1, <1>3, <2>3
  <2>6. FlattenSeq(t) = FlattenSeq(s) \o x
    BY <1>1, <1>2, <2>4, <2>5
  <2> QED
    BY <1>5, <2>6
<1> QED
  BY <1>4, <1>5

\* A loop over nothing builds nothing.
LEMMA FlattenEmpty == FlattenSeq(<<>>) = <<>>
<1>1. Len(<<>>) = 0
  OBVIOUS
<1> QED
  BY <1>1 DEF FlattenSeq

\* A sequence of the same things.
LEMMA FlattenTyped ==
  ASSUME NEW T, NEW s \in Seq(Seq(T))
  PROVE  FlattenSeq(s) \in Seq(T)
<1> DEFINE G == {t \in Seq(Seq(T)) : FlattenSeq(t) \in Seq(T)}
<1>1. <<>> \in G
  BY FlattenEmpty, EmptySeq
<1>2. \A t \in Seq(Seq(T)), x \in Seq(T) : t \in G => Append(t, x) \in G
  <2> SUFFICES ASSUME NEW t \in Seq(Seq(T)), NEW x \in Seq(T), FlattenSeq(t) \in Seq(T)
               PROVE  FlattenSeq(Append(t, x)) \in Seq(T)
    BY AppendProperties
  <2>1. FlattenSeq(Append(t, x)) = IF t = <<>> THEN x ELSE FlattenSeq(t) \o x
    BY FlattenAppends
  <2> QED
    BY <2>1, ConcatProperties
<1>3. Seq(Seq(T)) \subseteq G
  <2> HIDE DEF G
  <2> QED
    BY <1>1, <1>2, SeqInduction
<1> QED
  BY <1>3

LEMMA FlattenOne ==
  ASSUME NEW T, NEW x \in Seq(T)
  PROVE  FlattenSeq(<<x>>) = x
<1>1. <<>> \in Seq(Seq(T)) /\ Append(<<>>, x) = <<x>>
  BY EmptySeq
<1> QED
  BY <1>1, FlattenAppends

\* So a builder (strings.Builder, the slices of parts and blocks) that is given one
\* more piece holds what it held, and then that piece, for any number of pieces.
THEOREM FlattenGrows ==
  ASSUME NEW T, NEW s \in Seq(Seq(T)), NEW x \in Seq(T)
  PROVE  FlattenSeq(Append(s, x)) = FlattenSeq(s) \o x
<1>1. <<>> \o x = x
  BY ConcatEmptySeq
<1> QED
  BY <1>1, FlattenAppends, FlattenEmpty

------------------------------------------------------------------------------
(* Each and Collect: a loop that appends something for each entry. *)

Each(h, s) == [i \in DOMAIN s |-> h[s[i]]]

Collect(h, s) == FlattenSeq(Each(h, s))

\* What such a loop, of which h says what it makes of an entry, returns.
Converts(h, S, R) ==
  \A s \in Seq(S) : /\ Each(h, s) \in Seq(R) /\ Len(Each(h, s)) = Len(s)
                    /\ Len(s) \in Nat
                    /\ \A i \in 1..Len(s) : s[i] \in S /\ Each(h, s)[i] = h[s[i]]

LEMMA EachIs ==
  ASSUME NEW S, NEW R, NEW h, \A x \in S : h[x] \in R
  PROVE  Converts(h, S, R)
<1> SUFFICES ASSUME NEW s \in Seq(S)
             PROVE  /\ Each(h, s) \in Seq(R) /\ Len(Each(h, s)) = Len(s)
                    /\ Len(s) \in Nat
                    /\ \A i \in 1..Len(s) : s[i] \in S /\ Each(h, s)[i] = h[s[i]]
  BY DEF Converts
<1>1. DOMAIN s = 1..Len(s) /\ Len(s) \in Nat /\ \A i \in 1..Len(s) : s[i] \in S
  OBVIOUS
<1>2. Each(h, s) \in [1..Len(s) -> R]
  BY <1>1 DEF Each
<1>3. \A i \in 1..Len(s) : Each(h, s)[i] = h[s[i]]
  BY <1>1 DEF Each
<1> QED
  BY <1>1, <1>2, <1>3

LEMMA EachGrows ==
  ASSUME NEW S, NEW h, NEW s \in Seq(S), NEW x \in S
  PROVE  Each(h, Append(s, x)) = Append(Each(h, s), h[x])
<1> DEFINE R == {h[y] : y \in S}
<1>8. \A y \in S : h[y] \in R
  OBVIOUS
<1> HIDE DEF R
<1> DEFINE t == Append(s, x)
           u == Each(h, s)
           v == Each(h, t)
<1>0. Converts(h, S, R)
  BY <1>8, EachIs
<1>1. /\ t \in Seq(S) /\ Len(t) = Len(s) + 1 /\ t[Len(s) + 1] = x
      /\ \A i \in 1..Len(s) : t[i] = s[i]
  BY AppendProperties
<1>2. u \in Seq(R) /\ Len(u) = Len(s) /\ Len(s) \in Nat /\ \A i \in 1..Len(s) : u[i] = h[s[i]]
  BY <1>0 DEF Converts
<1>3. v \in Seq(R) /\ Len(v) = Len(t) /\ \A i \in 1..Len(t) : v[i] = h[t[i]]
  <2> HIDE DEF t
  <2> QED
    BY <1>0, <1>1 DEF v, Converts
<1> HIDE DEF t, u, v
<1>4. h[x] \in R
  BY <1>8
<1>5. /\ Append(u, h[x]) \in Seq(R) /\ Len(Append(u, h[x])) = Len(s) + 1
      /\ \A i \in 1..Len(s) : Append(u, h[x])[i] = u[i]
      /\ Append(u, h[x])[Len(s) + 1] = h[x]
  BY <1>2, <1>4, AppendProperties
<1>6. \A i \in 1..Len(v) : v[i] = Append(u, h[x])[i]
  BY <1>1, <1>2, <1>3, <1>5
<1>7. v = Append(u, h[x])
  BY <1>1, <1>3, <1>5, <1>6, SeqEqual
<1> QED
  BY <1>7 DEF t, u, v

\* What such a loop, of which h says what it appends, returns.
Collects(h, S, T) ==
  /\ Collect(h, <<>>) = <<>>
  /\ \A s \in Seq(S) : Collect(h, s) \in Seq(T)
  /\ \A s \in Seq(S), x \in S : Collect(h, Append(s, x)) = Collect(h, s) \o h[x]
  /\ \A x \in S : Collect(h, <<x>>) = h[x] /\ h[x] \in Seq(T)

LEMMA CollectIs ==
  ASSUME NEW S, NEW T, NEW h \in [S -> Seq(T)]
  PROVE  Collects(h, S, T)
<1>1. Collect(h, <<>>) = <<>>
  <2>1. Each(h, <<>>) = <<>>
    BY DEF Each
  <2> QED
    BY <2>1, FlattenEmpty DEF Collect
<1>0. Converts(h, S, Seq(T))
  BY EachIs
<1>2. \A s \in Seq(S) : Collect(h, s) \in Seq(T)
  BY <1>0, FlattenTyped DEF Collect, Converts
<1>3. ASSUME NEW s \in Seq(S), NEW x \in S
      PROVE  Collect(h, Append(s, x)) = Collect(h, s) \o h[x]
  <2>1. Each(h, Append(s, x)) = Append(Each(h, s), h[x])
    BY EachGrows
  <2>2. Each(h, s) \in Seq(Seq(T)) /\ h[x] \in Seq(T)
    BY <1>0 DEF Converts
  <2> QED
    BY <2>1, <2>2, FlattenGrows DEF Collect
<1>4. ASSUME NEW x \in S
      PROVE  Collect(h, <<x>>) = h[x]
  <2>1. Each(h, <<x>>) = <<h[x]>>
    BY DEF Each
  <2> QED
    BY <2>1, FlattenOne DEF Collect
<1> QED
  BY <1>1, <1>2, <1>3, <1>4 DEF Collects

\* What two loops collect one after the other.
Joins(h, S) == \A s, t \in Seq(S) : Collect(h, s \o t) = Collect(h, s) \o Collect(h, t)

\* A loop over a slice and what is appended to it builds what the loop over each
\* would: a system message put in front (parseAnthropicRequest) changes nothing
\* about the messages behind it.
THEOREM CollectJoins ==
  ASSUME NEW S, NEW T, NEW h \in [S -> Seq(T)]
  PROVE  Joins(h, S)
<1> SUFFICES ASSUME NEW s \in Seq(S), NEW t \in Seq(S)
             PROVE  Collect(h, s \o t) = Collect(h, s) \o Collect(h, t)
  BY DEF Joins
<1> DEFINE G == {u \in Seq(S) : Collect(h, s \o u) = Collect(h, s) \o Collect(h, u)}
<1>0. Collects(h, S, T)
  BY CollectIs
<1>1. <<>> \in G
  <2>1. Collect(h, s) \in Seq(T) /\ Collect(h, <<>>) = <<>>
    BY <1>0 DEF Collects
  <2>2. s \o <<>> = s /\ Collect(h, s) \o <<>> = Collect(h, s)
    BY <2>1, ConcatEmptySeq
  <2> QED
    BY <2>1, <2>2, EmptySeq
<1>2. ASSUME NEW u \in Seq(S), NEW x \in S, u \in G
      PROVE  Append(u, x) \in G
  <2> DEFINE a == Collect(h, s)
             b == Collect(h, u)
  <2>1. Collect(h, s \o u) = a \o b
    BY <1>2
  <2>2. Append(u, x) \in Seq(S) /\ s \o u \in Seq(S) /\ s \o Append(u, x) = Append(s \o u, x)
    <3>1. <<x>> \in Seq(S)
      OBVIOUS
    <3>2. s \o (u \o <<x>>) = (s \o u) \o <<x>>
      BY <3>1, ConcatAssociative
    <3>3. Append(u, x) = u \o <<x>> /\ s \o u \in Seq(S)
      BY AppendIsConcat, ConcatProperties
    <3>4. Append(s \o u, x) = (s \o u) \o <<x>>
      BY <3>3, AppendIsConcat
    <3> QED
      BY <3>2, <3>3, <3>4, AppendProperties
  <2>3. Collect(h, Append(s \o u, x)) = (a \o b) \o h[x] /\ Collect(h, Append(u, x)) = b \o h[x]
    BY <1>0, <2>1, <2>2 DEF Collects
  <2>4. a \in Seq(T) /\ b \in Seq(T) /\ h[x] \in Seq(T)
    BY <1>0 DEF Collects
  <2> HIDE DEF a, b
  <2>5. (a \o b) \o h[x] = a \o (b \o h[x])
    BY <2>4, ConcatAssociative
  <2> QED
    BY <2>2, <2>3, <2>5 DEF a, b
<1>3. Seq(S) \subseteq G
  <2> HIDE DEF G
  <2> QED
    BY <1>1, <1>2, SeqInduction
<1> QED
  BY <1>3

\* k makes of an entry what g makes of all that h does.
Twice(h, g, k, S, T, U) ==
  /\ h \in [S -> Seq(T)] /\ g \in [T -> Seq(U)] /\ k \in [S -> Seq(U)]
  /\ \A x \in S : k[x] = Collect(g, h[x])

\* A loop over what another loop built is one loop, whose body does both for each
\* entry: translateAnthropicContent and then anthropicContent lose and reorder
\* nothing that the translation of a single block keeps.
THEOREM CollectTwice ==
  ASSUME NEW S, NEW T, NEW U, NEW h, NEW g, NEW k, Twice(h, g, k, S, T, U), NEW s \in Seq(S)
  PROVE  Collect(g, Collect(h, s)) = Collect(k, s)
<1>2. /\ h \in [S -> Seq(T)] /\ g \in [T -> Seq(U)] /\ k \in [S -> Seq(U)]
      /\ \A x \in S : k[x] = Collect(g, h[x])
  BY DEF Twice
<1> DEFINE G == {u \in Seq(S) : Collect(g, Collect(h, u)) = Collect(k, u)}
<1>0. Collects(h, S, T) /\ Collects(g, T, U) /\ Collects(k, S, U)
  BY <1>2, CollectIs
<1>3. <<>> \in G
  <2>1. Collect(h, <<>>) = <<>> /\ Collect(g, <<>>) = <<>> /\ Collect(k, <<>>) = <<>>
    BY <1>0 DEF Collects
  <2> QED
    BY <2>1, EmptySeq
<1>4. ASSUME NEW u \in Seq(S), NEW x \in S, u \in G
      PROVE  Append(u, x) \in G
  <2>1. Collect(h, Append(u, x)) = Collect(h, u) \o h[x] /\ Collect(h, u) \in Seq(T) /\ h[x] \in Seq(T)
    BY <1>0 DEF Collects
  <2>2. Collect(g, Collect(h, u) \o h[x]) = Collect(g, Collect(h, u)) \o Collect(g, h[x])
    <3>1. Joins(g, T)
      BY <1>2, CollectJoins
    <3> QED
      BY <2>1, <3>1 DEF Joins
  <2>3. Collect(k, Append(u, x)) = Collect(k, u) \o k[x]
    BY <1>0 DEF Collects
  <2> QED
    BY <1>2, <1>4, <2>1, <2>2, <2>3, AppendProperties
<1>5. Seq(S) \subseteq G
  <2> HIDE DEF G
  <2> QED
    BY <1>3, <1>4, SeqInduction
<1> QED
  BY <1>5

\* A loop that continues past some entries and appends the others as they are, like
\* the one over the messages that are not the system's, is one of these loops.
THEOREM KeptCollects ==
  ASSUME NEW S, NEW R, NEW k \in [S -> Seq(R)], \A x \in S : k[x] = <<x>> \/ k[x] = <<>>,
         NEW s \in Seq(S), NEW I \in SUBSET DOMAIN s, \A i \in DOMAIN s : i \in I <=> k[s[i]] # <<>>
  PROVE  Kept(s, I) = Collect(k, s)
<1> DEFINE V    == {x \in S : k[x] # <<>>}
           P(u) == {i \in DOMAIN u : u[i] \in V}
           G    == {u \in Seq(S) : Kept(u, P(u)) = Collect(k, u)}
<1>2. \A x \in S : k[x] = IF x \in V THEN <<x>> ELSE <<>>
  OBVIOUS
<1>6. P(s) = I
  OBVIOUS
<1> HIDE DEF V
<1>0. Collects(k, S, R)
  BY CollectIs
<1>3. <<>> \in G
  <2>1. P(<<>>) = {}
    OBVIOUS
  <2>2. Kept(<<>>, {}) = <<>>
    <3>1. Cardinality({}) = 0
      BY FS_EmptySet
    <3>2. Ascending({}) = <<>>
      BY <3>1 DEF Ascending
    <3> QED
      BY <3>2 DEF Kept
  <2> QED
    BY <1>0, <2>1, <2>2, EmptySeq DEF Collects
<1>4. ASSUME NEW u \in Seq(S), NEW x \in S, u \in G
      PROVE  Append(u, x) \in G
  <2> DEFINE v == Append(u, x)
             n == Len(u)
             Q == P(u)
             A == Ascending(Q)
  <2>1. /\ n \in Nat /\ DOMAIN u = 1..n /\ v \in Seq(S) /\ DOMAIN v = 1..(n + 1)
        /\ v[n + 1] = x /\ \A i \in 1..n : v[i] = u[i]
    OBVIOUS
  <2>2. P(v) = IF x \in V THEN Q \cup {n + 1} ELSE Q
    <3> HIDE DEF v, n
    <3> QED
      BY <2>1
  <2>3. Q \in SUBSET Nat /\ IsFiniteSet(Q) /\ \A i \in Q : i \in 1..n /\ i < n + 1
    <3>1. Q \subseteq 1..n /\ \A i \in 1..n : i \in Nat /\ i < n + 1
      BY <2>1
    <3>2. IsFiniteSet(1..n)
      BY <2>1, FS_Interval
    <3> HIDE DEF Q
    <3> QED
      BY <3>1, <3>2, FS_Subset
  <2>4. /\ A \in Seq(Q) /\ Len(A) \in Nat /\ DOMAIN A = 1..Len(A)
        /\ \A l \in 1..Len(A) : A[l] \in Q
    <3>1. A \in Seq(Q)
      BY <2>3, AscendingLists
    <3> HIDE DEF A, Q
    <3> QED
      BY <3>1
  <2>5. \A l \in 1..Len(A) : v[A[l]] = u[A[l]] /\ u[A[l]] \in S
    <3>1. \A i \in Q : v[i] = u[i] /\ u[i] \in S
      BY <2>1, <2>3
    <3> HIDE DEF A, Q, v
    <3> QED
      BY <2>4, <3>1
  <2>6. Kept(v, Q) = Kept(u, Q)
    <3>1. [l \in DOMAIN A |-> v[A[l]]] = [l \in DOMAIN A |-> u[A[l]]]
      BY <2>4, <2>5
    <3> QED
      BY <3>1 DEF Kept
  <2>7. Kept(v, Q \cup {n + 1}) = Append(Kept(u, Q), x)
    <3>1. Ascending(Q \cup {n + 1}) = Append(A, n + 1)
      <4> HIDE DEF n, Q
      <4>1. n + 1 \in Nat /\ \A i \in Q : i < n + 1
        BY <2>1, <2>3
      <4> QED
        BY <2>3, <4>1, AscendingAppends
    <3>2. Kept(v, Q \cup {n + 1}) = Each(v, Append(A, n + 1)) /\ Kept(u, Q) = Each(v, A)
      BY <2>6, <3>1 DEF Kept, Each
    <3>3. v \in [1..(n + 1) -> S] /\ A \in Seq(1..(n + 1)) /\ n + 1 \in 1..(n + 1)
      <4>1. Q \subseteq 1..(n + 1) /\ n + 1 \in 1..(n + 1)
        BY <2>1, <2>3
      <4>2. A \in Seq(1..(n + 1))
        BY <2>4, <4>1, SeqMonotonic
      <4>3. v \in [1..(n + 1) -> S]
        <5>1. v \in Seq(S) /\ Len(v) = n + 1
          BY AppendProperties
        <5> HIDE DEF v, n
        <5> QED
          BY <5>1
      <4> QED
        BY <4>1, <4>2, <4>3
    <3> HIDE DEF v, A, Q
    <3>4. Each(v, Append(A, n + 1)) = Append(Each(v, A), v[n + 1])
      <4> DEFINE D == 1..(n + 1)
                 m == n + 1
      <4>1. A \in Seq(D) /\ m \in D
        BY <3>3
      <4> HIDE DEF D, m, n
      <4>2. Each(v, Append(A, m)) = Append(Each(v, A), v[m])
        BY <4>1, EachGrows
      <4> QED
        BY <4>2 DEF m
    <3> QED
      BY <2>1, <3>2, <3>4
  <2>8. Collect(k, v) = Collect(k, u) \o k[x] /\ Collect(k, u) \in Seq(R)
    BY <1>0 DEF Collects
  <2>9. Kept(u, Q) = Collect(k, u)
    BY <1>4
  <2>10. CASE x \in V
    <3>1. Collect(k, u) \o <<x>> = Append(Collect(k, u), x)
      <4>1. k[x] = <<x>> /\ k[x] \in Seq(R)
        BY <1>0, <1>2, <2>10 DEF Collects
      <4>2. x \in R
        BY <4>1
      <4> QED
        BY <2>8, <4>2, AppendIsConcat
    <3> HIDE DEF v, Q, n
    <3>2. Kept(v, P(v)) = Collect(k, v)
      BY <1>2, <2>2, <2>7, <2>8, <2>9, <2>10, <3>1
    <3> QED
      BY <2>1, <3>2 DEF v
  <2>11. CASE x \notin V
    <3>1. Collect(k, u) \o <<>> = Collect(k, u)
      BY <2>8, ConcatEmptySeq
    <3> HIDE DEF v, Q, n
    <3>2. Kept(v, P(v)) = Collect(k, v)
      BY <1>2, <2>2, <2>6, <2>8, <2>9, <2>11, <3>1
    <3> QED
      BY <2>1, <3>2 DEF v
  <2> QED
    BY <2>10, <2>11
<1>5. Seq(S) \subseteq G
  <2> HIDE DEF G
  <2> QED
    BY <1>3, <1>4, SeqInduction
<1> QED
  BY <1>5, <1>6

\* A loop that converts each entry.
Wraps(k, h, S, R) ==
  h \in [S -> R] /\ k \in [S -> Seq(R)] /\ \A x \in S : k[x] = <<h[x]>>

LEMMA EachCollects ==
  ASSUME NEW S, NEW R, NEW h, NEW k, Wraps(k, h, S, R), NEW s \in Seq(S)
  PROVE  Each(h, s) = Collect(k, s)
<1>5. h \in [S -> R] /\ k \in [S -> Seq(R)] /\ \A x \in S : k[x] = <<h[x]>>
  BY DEF Wraps
<1> DEFINE G == {u \in Seq(S) : Each(h, u) = Collect(k, u)}
<1>1. \A x \in S : k[x] = <<h[x]>> /\ h[x] \in R
  BY <1>5
<1>0. Collects(k, S, R)
  BY <1>5, CollectIs
<1>2. <<>> \in G
  <2>1. Each(h, <<>>) = <<>>
    BY DEF Each
  <2> QED
    BY <1>0, <2>1, EmptySeq DEF Collects
<1>3. ASSUME NEW u \in Seq(S), NEW x \in S, u \in G
      PROVE  Append(u, x) \in G
  <2>1. Each(h, Append(u, x)) = Append(Each(h, u), h[x]) /\ Each(h, u) \in Seq(R)
    <3> HIDE DEF G
    <3>1. Each(h, Append(u, x)) = Append(Each(h, u), h[x])
      BY EachGrows
    <3>2. Each(h, u) \in Seq(R)
      BY <1>5, EachIs DEF Converts
    <3> QED
      BY <3>1, <3>2
  <2>2. Collect(k, Append(u, x)) = Collect(k, u) \o <<h[x]>>
    BY <1>0, <1>1 DEF Collects
  <2>3. Append(Each(h, u), h[x]) = Each(h, u) \o <<h[x]>>
    BY <1>1, <2>1, AppendIsConcat
  <2> QED
    BY <1>3, <2>1, <2>2, <2>3, AppendProperties
<1>4. Seq(S) \subseteq G
  <2> HIDE DEF G
  <2> QED
    BY <1>2, <1>3, SeqInduction
<1> QED
  BY <1>4

\* Converting what was converted is one conversion.
Follow(h, g, k, S) == \A x \in S : k[x] = g[h[x]]

LEMMA CollectEach ==
  ASSUME NEW S, NEW h, NEW g, NEW k, Follow(h, g, k, S)
  PROVE  \A s \in Seq(S) : Each(g, Each(h, s)) = Each(k, s) /\ Collect(g, Each(h, s)) = Collect(k, s)
<1> SUFFICES ASSUME NEW s \in Seq(S)
             PROVE  Each(g, Each(h, s)) = Each(k, s) /\ Collect(g, Each(h, s)) = Collect(k, s)
  OBVIOUS
<1>1. /\ DOMAIN Each(h, s) = DOMAIN s
      /\ \A i \in DOMAIN s : s[i] \in S /\ Each(h, s)[i] = h[s[i]]
  BY DEF Each
<1>2. Each(g, Each(h, s)) = Each(k, s)
  <2>1. Each(g, Each(h, s)) = [i \in DOMAIN s |-> g[Each(h, s)[i]]]
    BY <1>1 DEF Each
  <2>2. [i \in DOMAIN s |-> g[Each(h, s)[i]]] = [i \in DOMAIN s |-> k[s[i]]]
    BY <1>1 DEF Follow
  <2> QED
    BY <2>1, <2>2 DEF Each
<1> QED
  BY <1>2 DEF Collect

LEMMA FlattenCollects ==
  ASSUME NEW T, NEW k, \A x \in T : k[x] = x, NEW s \in Seq(T)
  PROVE  FlattenSeq(s) = Collect(k, s)
<1>1. \A i \in DOMAIN s : k[s[i]] = s[i]
  OBVIOUS
<1>2. s = [i \in DOMAIN s |-> s[i]]
  OBVIOUS
<1>3. Each(k, s) = s
  BY <1>1, <1>2 DEF Each
<1> QED
  BY <1>3 DEF Collect

LEMMA Single ==
  ASSUME NEW S, NEW x \in S
  PROVE  <<x>> \in Seq(S)
OBVIOUS

\* Of the entries that pass a filter k makes what g does, and of the others nothing.
Guards(k, g, S, V, R) ==
  /\ V \subseteq S /\ g \in [V -> Seq(R)] /\ k \in [S -> Seq(R)]
  /\ \A x \in S : k[x] = IF x \in V THEN g[x] ELSE <<>>

\* A loop over the entries of one kind appends what a loop over all does that skips
\* the others: openAIToAnthropicRequest hoists the system's messages and translates
\* the others in one pass, and each lot comes out in its order, none lost.
THEOREM CollectKept ==
  ASSUME NEW S, NEW V, NEW R, NEW g, NEW k, Guards(k, g, S, V, R),
         NEW s \in Seq(S), NEW I \in SUBSET DOMAIN s, \A i \in DOMAIN s : i \in I <=> s[i] \in V
  PROVE  Kept(s, I) \in Seq(V) /\ Collect(g, Kept(s, I)) = Collect(k, s)
<1> DEFINE f == [x \in S |-> IF x \in V THEN <<x>> ELSE <<>>]
<1>1. /\ V \subseteq S /\ g \in [V -> Seq(R)] /\ k \in [S -> Seq(R)]
      /\ \A x \in S : k[x] = IF x \in V THEN g[x] ELSE <<>>
  BY DEF Guards
<1>2. f \in [S -> Seq(V)] /\ \A x \in S : f[x] = IF x \in V THEN <<x>> ELSE <<>>
  <2>1. \A x \in S : (IF x \in V THEN <<x>> ELSE <<>>) \in Seq(V)
    BY Single, EmptySeq
  <2> QED
    BY <2>1
<1>3. \A x \in S : (x \in V <=> f[x] # <<>>) /\ (f[x] = <<x>> \/ f[x] = <<>>)
  <2> HIDE DEF f
  <2> QED
    BY <1>2
<1> HIDE DEF f
<1>4. Kept(s, I) = Collect(f, s)
  <2>1. \A i \in DOMAIN s : s[i] \in S
    OBVIOUS
  <2>2. \A i \in DOMAIN s : i \in I <=> f[s[i]] # <<>>
    BY <1>3, <2>1
  <2>3. f \in [S -> Seq(V)] /\ \A x \in S : f[x] = <<x>> \/ f[x] = <<>>
    BY <1>2, <1>3
  <2> QED
    BY <2>2, <2>3, KeptCollects
<1>5. Collects(f, S, V) /\ Collects(g, V, R)
  BY <1>1, <1>2, CollectIs
<1>6. Twice(f, g, k, S, V, R)
  <2>1. ASSUME NEW x \in S
        PROVE  k[x] = Collect(g, f[x])
    <3>1. CASE x \in V
      BY <1>1, <1>2, <1>5, <3>1 DEF Collects
    <3>2. CASE x \notin V
      BY <1>1, <1>2, <1>5, <3>2 DEF Collects
    <3> QED
      BY <3>1, <3>2
  <2> QED
    BY <1>1, <1>2, <2>1 DEF Twice
<1>7. Collect(g, Collect(f, s)) = Collect(k, s)
  BY <1>6, CollectTwice
<1> QED
  BY <1>4, <1>5, <1>7 DEF Collects

\* A loop that appends nothing.
LEMMA CollectNothing ==
  ASSUME NEW S, NEW k, \A x \in S : k[x] = <<>>, NEW s \in Seq(S)
  PROVE  Collect(k, s) = <<>>
<1> DEFINE h == [x \in S |-> <<>>]
           G == {u \in Seq(S) : Collect(h, u) = <<>>}
<1>1. h \in [S -> Seq({})] /\ \A x \in S : h[x] = <<>>
  BY EmptySeq
<1> HIDE DEF h
<1>2. Collects(h, S, {})
  BY <1>1, CollectIs
<1>3. <<>> \in G
  BY <1>2, EmptySeq DEF Collects
<1>4. ASSUME NEW u \in Seq(S), NEW x \in S, u \in G
      PROVE  Append(u, x) \in G
  <2>1. Collect(h, Append(u, x)) = <<>> \o <<>>
    BY <1>1, <1>2, <1>4 DEF Collects
  <2>2. <<>> \o <<>> = <<>>
    OBVIOUS
  <2> QED
    BY <2>1, <2>2, AppendProperties
<1>5. Seq(S) \subseteq G
  <2> HIDE DEF G
  <2> QED
    BY <1>3, <1>4, SeqInduction
<1>6. Collect(h, s) = <<>>
  BY <1>5
<1>7. Each(k, s) = Each(h, s)
  <2>1. \A i \in DOMAIN s : k[s[i]] = h[s[i]]
    BY <1>1
  <2> QED
    BY <2>1 DEF Each
<1> QED
  BY <1>6, <1>7 DEF Collect

------------------------------------------------------------------------------
(* The words of a text. *)

Piece == {LineBreak} \cup STRING

Word == [p \in Piece |-> IF p = LineBreak THEN <<>> ELSE <<p>>]

WordsOf == [t \in Text |-> Words(t)]

LEMMA WordTyped ==
  /\ Text = Seq(Piece) /\ Word \in [Piece -> Seq(Piece)]
  /\ Collects(Word, Piece, Piece) /\ Joins(Word, Piece)
<1>1. Word \in [Piece -> Seq(Piece)]
  <2>1. \A p \in Piece : <<p>> \in Seq(Piece) /\ <<>> \in Seq(Piece)
    BY Single, EmptySeq, Zenon
  <2> QED
    BY <2>1, Zenon DEF Word
<1>2. Text = Seq(Piece)
  BY DEF Text, Piece
<1> QED
  BY <1>1, <1>2, CollectIs, CollectJoins

LEMMA WordsCollect ==
  ASSUME NEW t \in Text
  PROVE  Words(t) = Collect(Word, t) /\ Words(t) \in Text
<1> DEFINE I == {i \in DOMAIN t : t[i] # LineBreak}
<1>1. t \in Seq(Piece)
  BY WordTyped
<1>2. \A p \in Piece : Word[p] = <<p>> \/ Word[p] = <<>>
  BY DEF Word
<1>3. I \in SUBSET DOMAIN t /\ \A i \in DOMAIN t : i \in I <=> Word[t[i]] # <<>>
  <2>1. \A i \in DOMAIN t : t[i] \in Piece
    BY <1>1
  <2> QED
    BY <2>1 DEF Word
<1>4. Kept(t, I) = Collect(Word, t)
  <2> HIDE DEF I
  <2> QED
    BY <1>1, <1>2, <1>3, WordTyped, KeptCollects
<1>5. Words(t) = Collect(Word, t)
  BY <1>4 DEF Words
<1> QED
  BY <1>1, <1>5, WordTyped DEF Collects

LEMMA WordsJoin ==
  /\ \A s, t \in Text : Words(s \o t) = Words(s) \o Words(t)
  /\ Words(<<>>) = <<>>
  /\ WordsOf \in [Text -> Text]
  /\ Collects(WordsOf, Text, Piece)
<1>1. ASSUME NEW s \in Text, NEW t \in Text
      PROVE  Words(s \o t) = Words(s) \o Words(t)
  <2>1. s \o t \in Text
    BY WordTyped, ConcatProperties
  <2>2. Collect(Word, s \o t) = Collect(Word, s) \o Collect(Word, t)
    BY WordTyped DEF Joins
  <2> QED
    BY <2>1, <2>2, WordsCollect
<1>2. Words(<<>>) = <<>>
  <2>1. <<>> \in Text
    BY WordTyped, EmptySeq
  <2> QED
    BY <2>1, WordsCollect, WordTyped DEF Collects
<1>3. WordsOf \in [Text -> Text]
  BY WordsCollect DEF WordsOf
<1>4. Collects(WordsOf, Text, Piece)
  BY <1>3, WordTyped, CollectIs
<1> QED
  BY <1>1, <1>2, <1>3, <1>4

\* The words of texts one after the other are those of each.
LEMMA WordsFlatten ==
  ASSUME NEW q \in Seq(Text)
  PROVE  FlattenSeq(q) \in Text /\ Words(FlattenSeq(q)) = Collect(WordsOf, q)
<1> DEFINE k == [t \in Text |-> t]
<1>1. q \in Seq(Seq(Piece)) /\ k \in [Text -> Seq(Piece)] /\ \A t \in Text : k[t] = t
  BY WordTyped
<1> HIDE DEF k
<1>2. FlattenSeq(q) \in Text
  BY <1>1, WordTyped, FlattenTyped
<1>3. FlattenSeq(q) = Collect(k, q)
  BY <1>1, FlattenCollects
<1>4. \A t \in Text : WordsOf[t] = Collect(Word, k[t])
  BY <1>1, WordsCollect DEF WordsOf
<1>5. WordsOf \in [Text -> Seq(Piece)]
  BY WordsJoin, WordTyped
<1>6. Collect(Word, Collect(k, q)) = Collect(WordsOf, q)
  <2>1. Twice(k, Word, WordsOf, Text, Piece, Piece)
    BY <1>1, <1>4, <1>5, WordTyped DEF Twice
  <2> QED
    BY <2>1, CollectTwice
<1> QED
  BY <1>2, <1>3, <1>6, WordsCollect

\* Gaps without words add none.
LEMMA WordsSeparated ==
  ASSUME NEW texts \in Seq(Text), NEW gap \in Text, Words(gap) = <<>>
  PROVE  /\ Separated(texts, gap) \in Text
         /\ Words(Separated(texts, gap)) = Collect(WordsOf, texts)
<1> DEFINE q == [i \in DOMAIN texts |->
                   IF \A j \in 1..(i - 1) : texts[j] = <<>> THEN texts[i] ELSE gap \o texts[i]]
<1>1. \A i \in DOMAIN texts : texts[i] \in Text /\ gap \o texts[i] \in Text
  <2>1. \A i \in DOMAIN texts : texts[i] \in Text
    OBVIOUS
  <2> QED
    BY <2>1, WordTyped, ConcatProperties
<1>2. \A i \in DOMAIN texts : q[i] = texts[i] \/ q[i] = gap \o texts[i]
  OBVIOUS
<1>3. q \in Seq(Text) /\ DOMAIN q = DOMAIN texts
  <2>1. DOMAIN texts = 1..Len(texts) /\ Len(texts) \in Nat
    OBVIOUS
  <2>2. \A i \in DOMAIN texts : q[i] \in Text
    BY <1>1, <1>2
  <2>3. q \in [1..Len(texts) -> Text]
    BY <2>1, <2>2
  <2> HIDE DEF q
  <2> QED
    BY <2>1, <2>3
<1>4. ASSUME NEW i \in DOMAIN texts
      PROVE  WordsOf[q[i]] = WordsOf[texts[i]]
  <2>1. Words(gap \o texts[i]) = <<>> \o Words(texts[i]) /\ Words(texts[i]) \in Seq(Piece)
    <3> DEFINE t == texts[i]
    <3>1. t \in Text
      BY <1>1
    <3> HIDE DEF t
    <3>2. Words(gap \o t) = Words(gap) \o Words(t)
      BY <3>1, WordsJoin
    <3>3. Words(t) \in Seq(Piece)
      BY <3>1, WordsCollect, WordTyped
    <3> QED
      BY <3>2, <3>3 DEF t
  <2>2. <<>> \o Words(texts[i]) = Words(texts[i])
    BY <2>1, ConcatEmptySeq
  <2> HIDE DEF q
  <2>3. Words(q[i]) = Words(texts[i]) /\ q[i] \in Text
    BY <1>1, <1>2, <2>1, <2>2
  <2> QED
    BY <1>1, <2>3 DEF WordsOf
<1>5. Each(WordsOf, q) = Each(WordsOf, texts)
  <2> HIDE DEF q
  <2> QED
    BY <1>3, <1>4 DEF Each
<1>6. FlattenSeq(q) \in Text /\ Words(FlattenSeq(q)) = Collect(WordsOf, q)
  <2> HIDE DEF q
  <2> QED
    BY <1>3, WordsFlatten
<1> QED
  BY <1>5, <1>6 DEF Separated, Collect

\* Lines says the words of all texts.
LEMMA WordsLines ==
  ASSUME NEW texts \in Seq(Text)
  PROVE  Lines(texts) \in Text /\ Words(Lines(texts)) = Collect(WordsOf, texts)
<1> DEFINE k    == [t \in Text |-> IF t # <<>> THEN <<t>> ELSE <<>>]
           I    == {i \in DOMAIN texts : texts[i] # <<>>}
           kept == Kept(texts, I)
<1>1. /\ k \in [Text -> Seq(Text)]
      /\ \A t \in Text : k[t] = (IF t # <<>> THEN <<t>> ELSE <<>>)
      /\ \A t \in Text : k[t] = <<t>> \/ k[t] = <<>>
  OBVIOUS
<1>2. I \in SUBSET DOMAIN texts
  OBVIOUS
<1>8. \A i \in DOMAIN texts : i \in I <=> k[texts[i]] # <<>>
  <2>1. \A i \in DOMAIN texts : texts[i] \in Text
    OBVIOUS
  <2>2. \A t \in Text : t # <<>> <=> k[t] # <<>>
    BY <1>1
  <2> HIDE DEF k
  <2> QED
    BY <2>1, <2>2
<1> HIDE DEF k
<1>3. kept = Collect(k, texts)
  <2> HIDE DEF I
  <2> QED
    BY <1>1, <1>2, <1>8, KeptCollects
<1>4. kept \in Seq(Text)
  <2>1. Collects(k, Text, Text)
    BY <1>1, CollectIs
  <2> HIDE DEF kept
  <2> QED
    BY <1>3, <2>1 DEF Collects
<1>5. Words(<<LineBreak>>) = <<>> /\ <<LineBreak>> \in Text
  <2>1. LineBreak \in Piece /\ Word[LineBreak] = <<>>
    BY DEF Piece, Word
  <2>2. <<LineBreak>> \in Text
    BY <2>1, Single, WordTyped
  <2>3. Collect(Word, <<LineBreak>>) = Word[LineBreak]
    BY <2>1, WordTyped DEF Collects
  <2> QED
    BY <2>1, <2>2, <2>3, WordsCollect
<1>6. Lines(texts) \in Text /\ Words(Lines(texts)) = Collect(WordsOf, kept)
  <2>1. Lines(texts) = Separated(kept, <<LineBreak>>)
    BY DEF Lines
  <2> HIDE DEF kept
  <2> QED
    BY <1>4, <1>5, <2>1, WordsSeparated
<1>7. Collect(WordsOf, Collect(k, texts)) = Collect(WordsOf, texts)
  <2>1. WordsOf \in [Text -> Seq(Piece)]
    BY WordsJoin, WordTyped
  <2>2. ASSUME NEW t \in Text
        PROVE  WordsOf[t] = Collect(WordsOf, k[t])
    <3>1. CASE t = <<>>
      <4>1. k[t] = <<>> /\ WordsOf[t] = <<>>
        BY <1>1, <3>1, WordsJoin DEF WordsOf
      <4> QED
        BY <4>1, WordsJoin DEF Collects
    <3>2. CASE t # <<>>
      <4>1. k[t] = <<t>>
        BY <1>1, <3>2
      <4> QED
        BY <4>1, WordsJoin DEF Collects
    <3> QED
      BY <3>1, <3>2
  <2>3. Twice(k, WordsOf, WordsOf, Text, Text, Piece)
    BY <1>1, <2>1, <2>2, WordTyped DEF Twice
  <2> QED
    BY <2>3, CollectTwice
<1> QED
  BY <1>3, <1>6, <1>7

------------------------------------------------------------------------------
(* What a content says. *)

\* Parts or blocks whose texts are texts.
Legible(P) == \A p \in P : p.type = "text" => p.text \in Text

Speech(P) == [p \in P |-> IF p.type = "text" THEN Words(p.text) ELSE <<>>]

LEMMA SpeechTyped ==
  ASSUME NEW P, Legible(P)
  PROVE  Speech(P) \in [P -> Text] /\ Collects(Speech(P), P, Piece)
<1>1. <<>> \in Text
  BY WordTyped, EmptySeq
<1>2. Speech(P) \in [P -> Text]
  BY <1>1, WordsCollect DEF Speech, Legible
<1>3. Speech(P) \in [P -> Seq(Piece)]
  BY <1>2, WordTyped
<1> QED
  BY <1>2, <1>3, CollectIs

\* speech is the words of the parts of a type, whose texts are texts.
Utters(speech, P, type) ==
  /\ \A p \in P : p.type = type => p.text \in Text
  /\ speech \in [P -> Text]
  /\ \A p \in P : speech[p] = IF p.type = type THEN Words(p.text) ELSE <<>>

\* The texts of the parts of a type, and their words.
LEMMA TextsOfParts ==
  ASSUME NEW P, NEW type, NEW speech, Utters(speech, P, type), NEW parts \in Seq(P)
  PROVE  LET of    == OfType(parts, type)
             texts == [i \in DOMAIN of |-> of[i].text]
         IN texts \in Seq(Text) /\ Collect(WordsOf, texts) = Collect(speech, parts)
<1> DEFINE V     == {p \in P : p.type = type}
           I     == {i \in DOMAIN parts : parts[i].type = type}
           of    == OfType(parts, type)
           h     == [p \in V |-> p.text]
           texts == [i \in DOMAIN of |-> of[i].text]
           g     == [p \in V |-> WordsOf[h[p]]]
<1>1. V \subseteq P /\ \A p \in P : p \in V <=> p.type = type
  OBVIOUS
<1>2. h \in [V -> Text] /\ \A p \in V : h[p] = p.text
  BY DEF Utters
<1> HIDE DEF V
<1>3. g \in [V -> Seq(Piece)] /\ (\A p \in V : g[p] = WordsOf[h[p]]) /\ \A p \in V : g[p] = Words(p.text)
  <2>1. WordsOf \in [Text -> Seq(Piece)]
    BY WordsJoin, WordTyped
  <2>2. \A p \in V : h[p] \in Text /\ WordsOf[h[p]] \in Seq(Piece) /\ WordsOf[h[p]] = Words(p.text)
    BY <1>2, <2>1 DEF WordsOf
  <2> QED
    BY <2>2
<1> HIDE DEF g
<1>4. Guards(speech, g, P, V, Piece)
  BY <1>1, <1>3, WordTyped DEF Guards, Utters
<1>5. I \in SUBSET DOMAIN parts
  OBVIOUS
<1>6. \A i \in DOMAIN parts : i \in I <=> parts[i] \in V
  <2>1. \A i \in DOMAIN parts : parts[i] \in P
    OBVIOUS
  <2> QED
    BY <1>1, <2>1
<1>7. of \in Seq(V) /\ Collect(g, of) = Collect(speech, parts)
  <2>1. of = Kept(parts, I)
    BY DEF OfType
  <2> HIDE DEF I, of
  <2> QED
    BY <1>4, <1>5, <1>6, <2>1, CollectKept
<1> HIDE DEF of, h
<1>8. texts = Each(h, of)
  <2>1. \A i \in DOMAIN of : of[i] \in V
    BY <1>7
  <2> QED
    BY <1>2, <2>1 DEF Each
<1>9. texts \in Seq(Text)
  <2>1. Converts(h, V, Text)
    BY <1>2, EachIs
  <2> HIDE DEF texts
  <2> QED
    BY <1>7, <1>8, <2>1 DEF Converts
<1>10. Collect(WordsOf, Each(h, of)) = Collect(g, of)
  <2>1. Follow(h, WordsOf, g, V)
    BY <1>3 DEF Follow
  <2>2. \A s \in Seq(V) : Collect(WordsOf, Each(h, s)) = Collect(g, s)
    BY <2>1, CollectEach
  <2> QED
    BY <1>7, <2>2
<1>11. Collect(WordsOf, texts) = Collect(speech, parts)
  <2> HIDE DEF texts
  <2> QED
    BY <1>7, <1>8, <1>10
<1> QED
  BY <1>9, <1>11 DEF of, texts

\* The text of a content, and its words.
LEMMA WordsOfContent ==
  ASSUME NEW P, Legible(P), NEW c \in ContentOf(P)
  PROVE  /\ TextOf(c) \in Text /\ Words(TextOf(c)) \in Text
         /\ c.is = "parts" => Words(TextOf(c)) = Collect(Speech(P), c.parts)
<1>1. CASE c.is = "parts"
  <2> DEFINE of    == OfType(c.parts, "text")
             texts == [i \in DOMAIN of |-> of[i].text]
  <2>1. c.parts \in Seq(P)
    BY <1>1 DEF ContentOf, Null
  <2>2. texts \in Seq(Text) /\ Collect(WordsOf, texts) = Collect(Speech(P), c.parts)
    <3>1. \A p \in P : Speech(P)[p] = IF p.type = "text" THEN Words(p.text) ELSE <<>>
      BY DEF Speech
    <3>2. Utters(Speech(P), P, "text")
      BY <3>1, SpeechTyped DEF Legible, Utters
    <3> QED
      BY <2>1, <3>2, TextsOfParts
  <2>3. TextOf(c) = Lines(texts)
    BY <1>1 DEF TextOf
  <2> HIDE DEF texts
  <2>4. TextOf(c) \in Text /\ Words(TextOf(c)) = Collect(Speech(P), c.parts)
    BY <2>2, <2>3, WordsLines
  <2> QED
    BY <2>4, WordsCollect
<1>2. CASE c.is = "string"
  <2>1. TextOf(c) \in Text
    BY <1>2 DEF TextOf, ContentOf, Null
  <2> QED
    BY <1>2, <2>1, WordsCollect
<1>3. CASE c.is = "null"
  <2>1. TextOf(c) \in Text
    BY <1>3, WordTyped, EmptySeq DEF TextOf
  <2> QED
    BY <1>3, <2>1, WordsCollect
<1>4. c.is \in {"parts", "string", "null"}
  BY DEF ContentOf, Null
<1> QED
  BY <1>1, <1>2, <1>3, <1>4

------------------------------------------------------------------------------
(* What a part shows, and what the translation of a content keeps of it. *)

Seen == {Other} \cup TextParts \cup [type : {"picture"}, at : Address]
        \cup [type : {"picture"}, media : Media, data : STRING]

ItemOf(P) == [p \in P |-> Item(p)]

\* The forms of a source, of a URL, of a block and of a part.
LEMMA SourceForms ==
  ASSUME NEW s \in Sources
  PROVE  \/ s = None /\ s.is = "none"
         \/ s.is = "other" /\ s # None
         \/ s.is = "url" /\ s.at \in Address /\ s # None
         \/ s.is = "base64" /\ s.media \in Media /\ s.data \in STRING /\ s # None
BY DEF Sources, None

LEMMA URLForms ==
  ASSUME NEW u \in URLs
  PROVE  \/ u = None /\ u.is = "none"
         \/ u.is = "web" /\ u.at \in Address
         \/ /\ u.is = "data" /\ u.comma \in BOOLEAN /\ u.media \in Media /\ u.base64 \in BOOLEAN
            /\ u.data \in STRING
BY DEF URLs, None

LEMMA BlockForms ==
  ASSUME NEW b \in BlockType
  PROVE  \/ b = Other /\ b.type = "other"
         \/ b \in TextParts /\ b.type = "text" /\ b.text \in Text
         \/ b.type = "image" /\ b.source \in Sources
BY DEF BlockType, TextParts, Other

LEMMA PartForms ==
  ASSUME NEW p \in PartType
  PROVE  \/ p = Other /\ p.type = "other"
         \/ p \in TextParts /\ p.type = "text" /\ p.text \in Text
         \/ p.type = "image_url" /\ p.url \in URLs
BY DEF PartType, TextParts, Other

LEMMA AllLegible == Legible(BlockType) /\ Legible(PartType)
BY BlockForms, PartForms DEF Legible

\* An image shows at most one picture, which both protocols can say.
LEMMA ShownForms ==
  ASSUME NEW s, s \in Sources \cup URLs
  PROVE  Shown(s) = <<>> \/ \E x \in Seen : Shown(s) = <<x>> /\ x.type = "picture"
<1>1. CASE s.is \in {"web", "url"}
  <2> DEFINE x == [type |-> "picture", at |-> s.at]
  <2>1. s.at \in Address
    BY <1>1, SourceForms, URLForms
  <2>2. x \in Seen /\ x.type = "picture"
    BY <2>1 DEF Seen
  <2>3. Shown(s) = <<x>>
    BY <1>1 DEF Shown
  <2> QED
    BY <2>2, <2>3
<1>2. CASE (s.is = "base64" \/ (s.is = "data" /\ s.comma)) /\ s.data # ""
  <2> DEFINE x == [type |-> "picture", data |-> s.data,
                   media |-> IF s.media = "" THEN "application/octet-stream" ELSE s.media]
  <2>1. s.media \in Media /\ s.data \in STRING
    BY <1>2, SourceForms, URLForms
  <2>2. x \in Seen /\ x.type = "picture"
    <3>1. x.media \in Media
      BY <2>1 DEF Media
    <3> QED
      BY <2>1, <3>1 DEF Seen
  <2>3. Shown(s) = <<x>>
    BY <1>2 DEF Shown
  <2> QED
    BY <2>2, <2>3
<1>3. CASE ~(s.is \in {"web", "url"}) /\ ~((s.is = "base64" \/ (s.is = "data" /\ s.comma)) /\ s.data # "")
  BY <1>3 DEF Shown
<1> QED
  BY <1>1, <1>2, <1>3

LEMMA ItemForms ==
  ASSUME NEW p \in BlockType \cup PartType
  PROVE  Item(p) = <<>> \/ \E x \in Seen : Item(p) = <<x>>
<1>1. CASE p = Other
  BY <1>1 DEF Item, Seen, Other
<1>2. CASE p.type = "text" /\ p \in TextParts
  BY <1>2 DEF Item, Seen
<1>3. CASE p.type = "image" /\ p.source \in Sources
  BY <1>3, ShownForms DEF Item
<1>4. CASE p.type = "image_url" /\ p.url \in URLs
  BY <1>4, ShownForms DEF Item
<1> QED
  BY <1>1, <1>2, <1>3, <1>4, BlockForms, PartForms

LEMMA ItemTyped ==
  ASSUME NEW P, P \subseteq BlockType \cup PartType
  PROVE  ItemOf(P) \in [P -> Seq(Seen)] /\ Collects(ItemOf(P), P, Seen)
<1>1. \A p \in P : Item(p) \in Seq(Seen)
  BY ItemForms, Single, EmptySeq
<1>2. ItemOf(P) \in [P -> Seq(Seen)]
  BY <1>1 DEF ItemOf
<1> QED
  BY <1>2, CollectIs

\* The items of a content are those of its parts.
LEMMA ItemsCollect ==
  ASSUME NEW P, P \subseteq BlockType \cup PartType, NEW parts \in Seq(P)
  PROVE  Items(Parts(parts)) = Collect(ItemOf(P), parts) /\ Items(Parts(parts)) \in Seq(Seen)
<1>1. [i \in DOMAIN parts |-> Item(parts[i])] = Each(ItemOf(P), parts)
  <2>1. \A i \in DOMAIN parts : parts[i] \in P
    OBVIOUS
  <2> QED
    BY <2>1 DEF Each, ItemOf
<1>2. Items(Parts(parts)) = FlattenSeq([i \in DOMAIN parts |-> Item(parts[i])])
  BY DEF Items, Parts
<1> QED
  BY <1>1, <1>2, ItemTyped DEF Collect, Collects

\* What an Anthropic provider can be told.
Keep == [x \in Seen |-> IF x.type \in {"text", "picture"} THEN <<x>> ELSE <<>>]

LEMMA KeepTyped == Keep \in [Seen -> Seq(Seen)] /\ Collects(Keep, Seen, Seen)
<1>1. Keep \in [Seen -> Seq(Seen)]
  BY Single, EmptySeq DEF Keep
<1> QED
  BY <1>1, CollectIs

LEMMA KnownCollect ==
  ASSUME NEW items \in Seq(Seen)
  PROVE  KnownItems(items) = Collect(Keep, items) /\ KnownItems(items) \in Seq(Seen)
<1> DEFINE I == {i \in DOMAIN items : items[i].type \in {"text", "picture"}}
<1>1. \A x \in Seen : Keep[x] = <<x>> \/ Keep[x] = <<>>
  BY DEF Keep
<1>2. \A x \in Seen : x.type \in {"text", "picture"} <=> Keep[x] # <<>>
  BY DEF Keep
<1>3. \A i \in DOMAIN items : items[i] \in Seen
  OBVIOUS
<1>4. I \in SUBSET DOMAIN items /\ \A i \in DOMAIN items : i \in I <=> Keep[items[i]] # <<>>
  BY <1>2, <1>3
<1>5. Kept(items, I) = Collect(Keep, items)
  <2> HIDE DEF I
  <2> QED
    BY <1>1, <1>4, KeepTyped, KeptCollects
<1> QED
  BY <1>5, KeepTyped DEF KnownItems, Collects

------------------------------------------------------------------------------
(* Contents on their way to the canonical form. *)

PartFor == [b \in BlockType |-> PartOf(b)]

LEMMA SourceKept ==
  ASSUME NEW s \in Sources, s # None
  PROVE  URLOf(s) \in URLs /\ Shown(URLOf(s)) = Shown(s)
<1>1. CASE s.is = "url"
  BY <1>1, SourceForms DEF URLOf, URLs, Shown
<1>2. CASE s.is = "base64" /\ s.data # ""
  <2>1. URLOf(s) = [is |-> "data", comma |-> TRUE, media |-> s.media, base64 |-> TRUE, data |-> s.data]
    BY <1>2 DEF URLOf, DataURL
  <2>2. s.media \in Media /\ s.data \in STRING
    BY <1>2, SourceForms
  <2>3. URLOf(s) \in URLs
    BY <2>1, <2>2 DEF URLs
  <2> DEFINE u == URLOf(s)
  <2>4. u.is = "data" /\ u.comma = TRUE /\ u.media = s.media /\ u.data = s.data
    BY <2>1
  <2> HIDE DEF u
  <2>5. Shown(u) = Shown(s)
    BY <1>2, <2>4 DEF Shown
  <2> QED
    BY <2>3, <2>5 DEF u
<1>3. CASE s.is = "base64" /\ s.data = ""
  BY <1>3 DEF URLOf, URLs, None, Shown
<1>4. CASE s.is = "other"
  BY <1>4 DEF URLOf, URLs, None, Shown
<1> QED
  BY <1>1, <1>2, <1>3, <1>4, SourceForms

LEMMA BlockKept ==
  ASSUME NEW b \in BlockType
  PROVE  /\ PartOf(b) \in PartType /\ Item(PartOf(b)) = Item(b)
         /\ PartOf(b).type = "text" /\ b.type # "text" => PartOf(b).text = <<>>
         /\ b.type = "text" => PartOf(b) = b
<1>1. CASE b = Other \/ b \in TextParts
  <2>1. PartOf(b) = b /\ b \in PartType
    BY <1>1 DEF PartOf, PartType, Other, TextParts
  <2> QED
    BY <2>1
<1>2. CASE b.type = "image" /\ b.source = None
  <2>1. PartOf(b) = TextPart(<<>>)
    BY <1>2 DEF PartOf
  <2>2. TextPart(<<>>) \in PartType
    BY WordTyped, EmptySeq DEF TextPart, PartType, TextParts
  <2>3. Item(TextPart(<<>>)) = <<>> /\ Item(b) = <<>>
    BY <1>2 DEF Item, TextPart, Shown, None
  <2> QED
    BY <1>2, <2>1, <2>2, <2>3 DEF TextPart
<1>3. CASE b.type = "image" /\ b.source # None /\ b.source \in Sources
  <2>1. PartOf(b) = [type |-> "image_url", url |-> URLOf(b.source)]
    BY <1>3 DEF PartOf
  <2>2. URLOf(b.source) \in URLs /\ Shown(URLOf(b.source)) = Shown(b.source)
    BY <1>3, SourceKept
  <2> QED
    BY <1>3, <2>1, <2>2 DEF Item, PartType
<1> QED
  BY <1>1, <1>2, <1>3, BlockForms

LEMMA PartForKept ==
  /\ PartFor \in [BlockType -> PartType] /\ Converts(PartFor, BlockType, PartType)
  /\ Follow(PartFor, ItemOf(PartType), ItemOf(BlockType), BlockType)
  /\ Follow(PartFor, Speech(PartType), Speech(BlockType), BlockType)
<1>1. PartFor \in [BlockType -> PartType] /\ \A b \in BlockType : PartFor[b] = PartOf(b)
  BY BlockKept DEF PartFor
<1>2. Converts(PartFor, BlockType, PartType)
  BY <1>1, EachIs
<1>3. ASSUME NEW b \in BlockType
      PROVE  /\ ItemOf(BlockType)[b] = ItemOf(PartType)[PartFor[b]]
             /\ Speech(BlockType)[b] = Speech(PartType)[PartFor[b]]
  <2>1. PartFor[b] \in PartType /\ PartFor[b] = PartOf(b)
    BY <1>1, BlockKept
  <2>2. ItemOf(BlockType)[b] = ItemOf(PartType)[PartFor[b]]
    BY <2>1, BlockKept DEF ItemOf
  <2>3. Speech(BlockType)[b] = IF b.type = "text" THEN Words(b.text) ELSE <<>>
    BY DEF Speech
  <2>4. Speech(PartType)[PartFor[b]] = IF PartOf(b).type = "text" THEN Words(PartOf(b).text) ELSE <<>>
    BY <2>1 DEF Speech
  <2>5. Speech(BlockType)[b] = Speech(PartType)[PartFor[b]]
    BY <2>3, <2>4, BlockKept, WordsJoin
  <2> QED
    BY <2>2, <2>5
<1> QED
  BY <1>1, <1>2, <1>3 DEF Follow

\* The canonical content (translateAnthropicContent) has the texts and images of an
\* Anthropic consumer's, in order, and the same words, for any number of blocks.
THEOREM CanonicalKeeps ==
  ASSUME NEW c \in ContentOf(BlockType)
  PROVE  /\ CanonicalContent(c) \in ContentOf(PartType)
         /\ Items(CanonicalContent(c)) = Items(c)
         /\ Words(TextOf(CanonicalContent(c))) = Words(TextOf(c))
<1>1. CASE c.is = "parts"
  <2> DEFINE parts == c.parts
             made  == Each(PartFor, parts)
  <2>1. parts \in Seq(BlockType) /\ c = Parts(parts)
    BY <1>1 DEF ContentOf, Null, Parts
  <2>2. [i \in DOMAIN parts |-> PartOf(parts[i])] = made
    <3>1. \A i \in DOMAIN parts : parts[i] \in BlockType
      BY <2>1
    <3> QED
      BY <3>1 DEF Each, PartFor
  <2>3. CanonicalContent(c) = Parts(made)
    BY <1>1, <2>2 DEF CanonicalContent
  <2>4. made \in Seq(PartType)
    BY <2>1, PartForKept DEF Converts
  <2> HIDE DEF parts, made
  <2>5. Parts(made) \in ContentOf(PartType)
    BY <2>4 DEF ContentOf, Parts
  <2>6. \A s \in Seq(BlockType) : /\ Collect(ItemOf(PartType), Each(PartFor, s)) = Collect(ItemOf(BlockType), s)
                                  /\ Collect(Speech(PartType), Each(PartFor, s)) = Collect(Speech(BlockType), s)
    BY PartForKept, CollectEach
  <2>7. Items(Parts(made)) = Items(c)
    BY <2>1, <2>4, <2>6, ItemsCollect DEF made
  <2>8. Words(TextOf(Parts(made))) = Words(TextOf(c))
    <3>1. Parts(made).is = "parts" /\ Parts(made).parts = made
      BY DEF Parts
    <3>2. Words(TextOf(Parts(made))) = Collect(Speech(PartType), made)
      BY <2>5, <3>1, AllLegible, WordsOfContent
    <3>3. Words(TextOf(c)) = Collect(Speech(BlockType), parts)
      BY <1>1, AllLegible, WordsOfContent DEF parts
    <3> QED
      BY <2>1, <2>6, <3>2, <3>3 DEF made
  <2> QED
    BY <2>3, <2>5, <2>7, <2>8
<1>2. CASE c.is = "null"
  <2>1. CanonicalContent(c) = Str(<<>>)
    BY <1>2 DEF CanonicalContent
  <2>2. Str(<<>>) \in ContentOf(PartType)
    BY WordTyped, EmptySeq DEF Str, ContentOf
  <2>3. Items(Str(<<>>)) = <<>> /\ Items(c) = <<>>
    BY <1>2 DEF Str, Items
  <2>4. TextOf(Str(<<>>)) = <<>> /\ TextOf(c) = <<>>
    BY <1>2 DEF Str, TextOf
  <2> QED
    BY <2>1, <2>2, <2>3, <2>4
<1>3. CASE c.is = "string"
  <2>1. CanonicalContent(c) = c
    BY <1>3 DEF CanonicalContent
  <2>2. c \in ContentOf(PartType)
    BY <1>3 DEF ContentOf, Null
  <2> QED
    BY <2>1, <2>2
<1>4. c.is \in {"parts", "string", "null"}
  BY DEF ContentOf, Null
<1> QED
  BY <1>1, <1>2, <1>3, <1>4

------------------------------------------------------------------------------
(* Contents on their way to an Anthropic provider. *)

BlocksFor == [p \in PartType |-> BlocksOf(p)]

ItemKnown == [p \in PartType |-> KnownItems(Item(p))]

LEMMA URLKept ==
  ASSUME NEW u \in URLs
  PROVE  \/ SourcesOf(u) = <<>> /\ Shown(u) = <<>>
         \/ \E s \in Sources : SourcesOf(u) = <<s>> /\ Shown(s) = Shown(u)
<1>1. CASE u.is = "data" /\ u.comma = TRUE
  <2> DEFINE s == [is |-> "base64", data |-> u.data,
                   media |-> IF u.media = "" THEN "application/octet-stream" ELSE u.media]
  <2>1. u.media \in Media /\ u.data \in STRING
    BY <1>1, URLForms
  <2>2. s.is = "base64" /\ s.data = u.data /\ s.media \in Media
        /\ s.media = (IF u.media = "" THEN "application/octet-stream" ELSE u.media)
    BY <2>1 DEF Media
  <2>3. s \in Sources
    BY <2>1, <2>2 DEF Sources
  <2>4. SourcesOf(u) = <<s>>
    BY <1>1 DEF SourcesOf
  <2> HIDE DEF s
  <2>5. Shown(s) = Shown(u)
    <3>1. s.media # ""
      BY <2>2
    <3> QED
      BY <1>1, <2>2, <3>1 DEF Shown
  <2> QED
    BY <2>3, <2>4, <2>5
<1>2. CASE u.is = "web"
  <2> DEFINE s == [is |-> "url", at |-> u.at]
  <2>1. s \in Sources
    BY <1>2, URLForms DEF Sources
  <2>2. SourcesOf(u) = <<s>> /\ Shown(s) = Shown(u)
    BY <1>2 DEF SourcesOf, Shown
  <2> QED
    BY <2>1, <2>2
<1>3. CASE u.is = "none" \/ (u.is = "data" /\ u.comma = FALSE)
  BY <1>3 DEF SourcesOf, Shown
<1> QED
  BY <1>1, <1>2, <1>3, URLForms

\* A part becomes a block that shows the same, or nothing if that shows nothing
\* or is not known.
LEMMA PartKept ==
  ASSUME NEW p \in PartType
  PROVE  \/ BlocksOf(p) = <<>> /\ KnownItems(Item(p)) = <<>>
         \/ \E b \in BlockType : BlocksOf(p) = <<b>> /\ KnownItems(Item(p)) = Item(b)
<1>1. /\ KnownItems(<<>>) = <<>>
      /\ \A x \in Seen : x.type \in {"text", "picture"} => KnownItems(<<x>>) = <<x>>
      /\ \A x \in Seen : x.type \notin {"text", "picture"} => KnownItems(<<x>>) = <<>>
  <2>1. <<>> \in Seq(Seen) /\ \A x \in Seen : <<x>> \in Seq(Seen)
    BY EmptySeq, Single
  <2> QED
    BY <2>1, KnownCollect, KeepTyped DEF Collects, Keep
<1>2. CASE p = Other
  <2>1. BlocksOf(p) = <<>>
    BY <1>2 DEF BlocksOf, Other
  <2>2. Item(p) = <<Other>> /\ Other \in Seen /\ Other.type = "other"
    BY <1>2 DEF Item, Other, Seen
  <2> QED
    BY <1>1, <2>1, <2>2
<1>3. CASE p.type = "text" /\ p \in TextParts
  <2>1. CASE p.text = <<>>
    BY <1>1, <1>3, <2>1 DEF BlocksOf, Item
  <2>2. CASE p.text # <<>>
    <3>1. BlocksOf(p) = <<p>> /\ Item(p) = <<p>>
      BY <1>3, <2>2 DEF BlocksOf, Item
    <3>2. p \in Seen /\ p \in BlockType
      BY <1>3 DEF Seen, BlockType
    <3> QED
      BY <1>1, <1>3, <3>1, <3>2
  <2> QED
    BY <2>1, <2>2
<1>4. CASE p.type = "image_url" /\ p.url \in URLs
  <2>1. Item(p) = Shown(p.url)
    BY <1>4 DEF Item
  <2>2. KnownItems(Item(p)) = Item(p)
    BY <1>1, <1>4, <2>1, ShownForms
  <2> DEFINE q == SourcesOf(p.url)
  <2>3. BlocksOf(p) = [i \in DOMAIN q |-> [type |-> "image", source |-> q[i]]]
    BY <1>4 DEF BlocksOf
  <2>4. CASE q = <<>> /\ Shown(p.url) = <<>>
    <3>1. BlocksOf(p) = <<>>
      BY <2>3, <2>4
    <3> QED
      BY <2>1, <2>2, <2>4, <3>1
  <2>5. CASE \E s \in Sources : q = <<s>> /\ Shown(s) = Shown(p.url)
    <3>1. PICK s \in Sources : q = <<s>> /\ Shown(s) = Shown(p.url)
      BY <2>5
    <3> DEFINE b == [type |-> "image", source |-> s]
    <3>2. b \in BlockType /\ Item(b) = Shown(s)
      BY DEF BlockType, Item
    <3>3. BlocksOf(p) = <<b>>
      BY <2>3, <3>1
    <3> QED
      BY <2>1, <2>2, <3>1, <3>2, <3>3
  <2> QED
    BY <1>4, <2>4, <2>5, URLKept
<1> QED
  BY <1>2, <1>3, <1>4, PartForms

LEMMA BlocksForKept ==
  /\ BlocksFor \in [PartType -> Seq(BlockType)] /\ Collects(BlocksFor, PartType, BlockType)
  /\ Twice(BlocksFor, ItemOf(BlockType), ItemKnown, PartType, BlockType, Seen)
  /\ Twice(ItemOf(PartType), Keep, ItemKnown, PartType, Seen, Seen)
<1>1. \A p \in PartType : BlocksOf(p) \in Seq(BlockType)
  BY PartKept, Single, EmptySeq
<1>2. BlocksFor \in [PartType -> Seq(BlockType)] /\ \A p \in PartType : BlocksFor[p] = BlocksOf(p)
  BY <1>1 DEF BlocksFor
<1>3. Collects(BlocksFor, PartType, BlockType)
  BY <1>2, CollectIs
<1>4. \A p \in PartType : Item(p) \in Seq(Seen)
  BY ItemForms, Single, EmptySeq
<1>5. ItemKnown \in [PartType -> Seq(Seen)] /\ \A p \in PartType : ItemKnown[p] = KnownItems(Item(p))
  BY <1>4, KnownCollect DEF ItemKnown
<1>6. /\ ItemOf(BlockType) \in [BlockType -> Seq(Seen)] /\ Collects(ItemOf(BlockType), BlockType, Seen)
      /\ ItemOf(PartType) \in [PartType -> Seq(Seen)]
  BY ItemTyped
<1>7. /\ \A b \in BlockType : ItemOf(BlockType)[b] = Item(b)
      /\ \A p \in PartType : ItemOf(PartType)[p] = Item(p)
  BY DEF ItemOf
<1>8. ASSUME NEW p \in PartType
      PROVE  ItemKnown[p] = Collect(ItemOf(BlockType), BlocksFor[p])
  <2>1. CASE BlocksOf(p) = <<>> /\ KnownItems(Item(p)) = <<>>
    BY <1>2, <1>5, <1>6, <2>1 DEF Collects
  <2>2. ASSUME NEW b \in BlockType, BlocksOf(p) = <<b>>, KnownItems(Item(p)) = Item(b)
        PROVE  ItemKnown[p] = Collect(ItemOf(BlockType), BlocksFor[p])
    BY <1>2, <1>5, <1>6, <1>7, <2>2 DEF Collects
  <2> QED
    BY <2>1, <2>2, PartKept
<1>9. \A p \in PartType : ItemKnown[p] = Collect(Keep, ItemOf(PartType)[p])
  BY <1>4, <1>5, <1>7, KnownCollect
<1> QED
  BY <1>2, <1>3, <1>5, <1>6, <1>8, <1>9, KeepTyped DEF Twice

\* The blocks an Anthropic provider gets (anthropicContent) are the texts and images
\* of the canonical content in order, without the parts it has no form for.
THEOREM AdaptedKeeps ==
  ASSUME NEW c \in ContentOf(PartType)
  PROVE  AnthropicContent(c) \in ContentOf(BlockType) /\ Items(AnthropicContent(c)) = KnownItems(Items(c))
<1>5. Str(<<>>) \in ContentOf(BlockType)
  BY WordTyped, EmptySeq DEF Str, ContentOf
<1>1. CASE c.is = "parts"
  <2> DEFINE parts  == c.parts
             blocks == Collect(BlocksFor, parts)
  <2>1. parts \in Seq(PartType) /\ c = Parts(parts)
    BY <1>1 DEF ContentOf, Null, Parts
  <2>2. FlattenSeq([i \in DOMAIN parts |-> BlocksOf(parts[i])]) = blocks
    <3>1. [i \in DOMAIN parts |-> BlocksOf(parts[i])] = Each(BlocksFor, parts)
      <4>1. \A i \in DOMAIN parts : parts[i] \in PartType
        BY <2>1
      <4> QED
        BY <4>1 DEF Each, BlocksFor
    <3> QED
      BY <3>1 DEF Collect
  <2>3. AnthropicContent(c) = IF blocks = <<>> THEN Str(<<>>) ELSE Parts(blocks)
    BY <1>1, <2>2 DEF AnthropicContent
  <2> HIDE DEF parts
  <2>4. blocks \in Seq(BlockType)
    BY <2>1, BlocksForKept DEF Collects
  <2>5. Collect(ItemOf(BlockType), blocks) = Collect(ItemKnown, parts)
    BY <2>1, BlocksForKept, CollectTwice
  <2>6. Collect(Keep, Collect(ItemOf(PartType), parts)) = Collect(ItemKnown, parts)
    BY <2>1, BlocksForKept, CollectTwice
  <2>7. KnownItems(Items(c)) = Collect(ItemKnown, parts)
    BY <2>1, <2>6, ItemsCollect, KnownCollect
  <2> HIDE DEF blocks
  <2>8. CASE blocks = <<>>
    <3>1. Items(Str(<<>>)) = <<>>
      BY DEF Items, Str
    <3>2. Collect(ItemOf(BlockType), <<>>) = <<>>
      BY ItemTyped DEF Collects
    <3> QED
      BY <1>5, <2>3, <2>5, <2>7, <2>8, <3>1, <3>2
  <2>9. CASE blocks # <<>>
    <3>1. Parts(blocks) \in ContentOf(BlockType)
      BY <2>4 DEF Parts, ContentOf
    <3> QED
      BY <2>3, <2>4, <2>5, <2>7, <2>9, <3>1, ItemsCollect
  <2> QED
    BY <2>8, <2>9
<1>2. CASE c.is = "null"
  <2>1. AnthropicContent(c) = Str(<<>>)
    <3>1. FlattenSeq([i \in DOMAIN <<>> |-> BlocksOf(<<>>[i])]) = <<>>
      <4>1. [i \in DOMAIN <<>> |-> BlocksOf(<<>>[i])] = <<>>
        OBVIOUS
      <4> QED
        BY <4>1, FlattenEmpty
    <3> QED
      BY <1>2, <3>1 DEF AnthropicContent
  <2>2. Items(Str(<<>>)) = <<>> /\ Items(c) = <<>>
    BY <1>2 DEF Items, Str
  <2>3. KnownItems(<<>>) = <<>>
    BY EmptySeq, KnownCollect, KeepTyped DEF Collects
  <2> QED
    BY <1>5, <2>1, <2>2, <2>3
<1>3. CASE c.is = "string"
  <2>1. AnthropicContent(c) = c /\ c.text \in Text /\ c \in ContentOf(BlockType)
    BY <1>3 DEF AnthropicContent, ContentOf, Null
  <2>2. CASE c.text = <<>>
    <3>1. Items(c) = <<>>
      BY <1>3, <2>2 DEF Items
    <3>2. KnownItems(<<>>) = <<>>
      BY EmptySeq, KnownCollect, KeepTyped DEF Collects
    <3> QED
      BY <2>1, <3>1, <3>2
  <2>3. CASE c.text # <<>>
    <3> DEFINE x == TextPart(c.text)
    <3>1. Items(c) = <<x>>
      BY <1>3, <2>3 DEF Items
    <3>2. x \in Seen /\ x.type = "text"
      BY <2>1 DEF TextPart, Seen, TextParts
    <3> HIDE DEF x
    <3>3. KnownItems(<<x>>) = <<x>>
      BY <3>2, Single, KnownCollect, KeepTyped DEF Collects, Keep
    <3> QED
      BY <2>1, <3>1, <3>3
  <2> QED
    BY <2>2, <2>3
<1>4. c.is \in {"parts", "string", "null"}
  BY DEF ContentOf, Null
<1> QED
  BY <1>1, <1>2, <1>3, <1>4

------------------------------------------------------------------------------
(* What a request says. *)

\* The messages with contents of P, what the system says in one, and its turn.
MessageWith(P) == [role : Role, content : ContentOf(P)]

Rule(P) == [m \in MessageWith(P) |-> IF m.role = "system" THEN Words(TextOf(m.content)) ELSE <<>>]

TurnType == [role : Role, items : Seq(Seen)]

TurnOf(m) == [role |-> m.role, items |-> Items(m.content)]

Turn(P) == [m \in MessageWith(P) |-> IF m.role # "system" THEN <<TurnOf(m)>> ELSE <<>>]

Ruler(P)   == {m \in MessageWith(P) : m.role = "system"}
Speaker(P) == {m \in MessageWith(P) : m.role # "system"}

LEMMA ItemsTyped ==
  ASSUME NEW P, P \subseteq BlockType \cup PartType, NEW c \in ContentOf(P)
  PROVE  Items(c) \in Seq(Seen)
<1>1. CASE c.is = "parts"
  <2>1. c.parts \in Seq(P) /\ c = Parts(c.parts)
    BY <1>1 DEF ContentOf, Null, Parts
  <2> QED
    BY <2>1, ItemsCollect
<1>2. CASE c.is = "null"
  BY <1>2, EmptySeq DEF Items
<1>3. CASE c.is = "string"
  <2>1. c.text \in Text
    BY <1>3 DEF ContentOf, Null
  <2>2. TextPart(c.text) \in Seen
    BY <2>1 DEF TextPart, Seen, TextParts
  <2>3. Items(c) = <<>> \/ Items(c) = <<TextPart(c.text)>>
    BY <1>3 DEF Items
  <2> QED
    BY <2>2, <2>3, EmptySeq, Single
<1>4. c.is \in {"parts", "string", "null"}
  BY DEF ContentOf, Null
<1> QED
  BY <1>1, <1>2, <1>3, <1>4

LEMMA MessageForms ==
  ASSUME NEW P, P \subseteq BlockType \cup PartType, NEW m \in MessageWith(P)
  PROVE  /\ m.role \in Role /\ m.content \in ContentOf(P)
         /\ TextOf(m.content) \in Text /\ Words(TextOf(m.content)) \in Text
         /\ Items(m.content) \in Seq(Seen) /\ TurnOf(m) \in TurnType
<1>1. m.role \in Role /\ m.content \in ContentOf(P)
  BY DEF MessageWith
<1>2. Legible(P)
  BY AllLegible DEF Legible
<1>3. Items(m.content) \in Seq(Seen)
  BY <1>1, ItemsTyped
<1> QED
  BY <1>1, <1>2, <1>3, WordsOfContent DEF TurnOf, TurnType

LEMMA RuleTyped ==
  ASSUME NEW P, P \subseteq BlockType \cup PartType
  PROVE  /\ Rule(P) \in [MessageWith(P) -> Seq(Piece)]
         /\ Collects(Rule(P), MessageWith(P), Piece) /\ Joins(Rule(P), MessageWith(P))
<1>1. \A m \in MessageWith(P) : Words(TextOf(m.content)) \in Seq(Piece)
  BY MessageForms, WordTyped
<1>2. Rule(P) \in [MessageWith(P) -> Seq(Piece)]
  BY <1>1, EmptySeq DEF Rule
<1> QED
  BY <1>2, CollectIs, CollectJoins

LEMMA TurnTyped ==
  ASSUME NEW P, P \subseteq BlockType \cup PartType
  PROVE  /\ Turn(P) \in [MessageWith(P) -> Seq(TurnType)]
         /\ Collects(Turn(P), MessageWith(P), TurnType) /\ Joins(Turn(P), MessageWith(P))
<1>1. \A m \in MessageWith(P) : <<TurnOf(m)>> \in Seq(TurnType)
  BY MessageForms, Single
<1>2. Turn(P) \in [MessageWith(P) -> Seq(TurnType)]
  BY <1>1, EmptySeq DEF Turn
<1> QED
  BY <1>2, CollectIs, CollectJoins

\* What the system says in its messages, in the order of all messages.
LEMMA RulesCollect ==
  ASSUME NEW P, P \subseteq BlockType \cup PartType, NEW messages \in Seq(MessageWith(P))
  PROVE  LET ruled == Ruled(messages)
             texts == [i \in DOMAIN ruled |-> TextOf(ruled[i].content)]
         IN /\ FlattenSeq([i \in DOMAIN ruled |-> Words(texts[i])]) = Collect(Rule(P), messages)
            /\ texts \in Seq(Text) /\ Collect(WordsOf, texts) = Collect(Rule(P), messages)
<1> DEFINE ruled == Ruled(messages)
           texts == [i \in DOMAIN ruled |-> TextOf(ruled[i].content)]
           V     == Ruler(P)
           I     == {i \in DOMAIN messages : messages[i].role = "system"}
           h     == [m \in V |-> TextOf(m.content)]
           g     == [m \in V |-> Words(TextOf(m.content))]
<1>1. V \subseteq MessageWith(P) /\ \A m \in MessageWith(P) : m \in V <=> m.role = "system"
  BY DEF Ruler
<1>2. \A m \in V : TextOf(m.content) \in Text /\ Words(TextOf(m.content)) \in Seq(Piece)
  BY <1>1, MessageForms, WordTyped
<1> HIDE DEF V
<1>3. /\ h \in [V -> Text] /\ \A m \in V : h[m] = TextOf(m.content)
      /\ g \in [V -> Seq(Piece)] /\ \A m \in V : g[m] = Words(TextOf(m.content))
  BY <1>2
<1> HIDE DEF h, g
<1>4. Guards(Rule(P), g, MessageWith(P), V, Piece)
  <2>1. \A m \in MessageWith(P) : Rule(P)[m] = IF m \in V THEN g[m] ELSE <<>>
    BY <1>1, <1>3 DEF Rule
  <2> QED
    BY <1>1, <1>3, <2>1, RuleTyped DEF Guards
<1>5. I \in SUBSET DOMAIN messages
  OBVIOUS
<1>6. \A i \in DOMAIN messages : i \in I <=> messages[i] \in V
  <2>1. \A i \in DOMAIN messages : messages[i] \in MessageWith(P)
    OBVIOUS
  <2> QED
    BY <1>1, <2>1
<1>7. ruled \in Seq(V) /\ Collect(g, ruled) = Collect(Rule(P), messages)
  <2>1. ruled = Kept(messages, I)
    BY DEF Ruled
  <2> HIDE DEF I, ruled
  <2> QED
    BY <1>4, <1>5, <1>6, <2>1, CollectKept
<1> HIDE DEF ruled
<1>8. \A i \in DOMAIN ruled : ruled[i] \in V
  BY <1>7
<1>9. texts = Each(h, ruled)
  BY <1>3, <1>8 DEF Each
<1>10. [i \in DOMAIN ruled |-> Words(texts[i])] = Each(g, ruled)
  <2>1. \A i \in DOMAIN ruled : Words(texts[i]) = g[ruled[i]]
    BY <1>3, <1>8
  <2> QED
    BY <2>1 DEF Each
<1>11. FlattenSeq([i \in DOMAIN ruled |-> Words(texts[i])]) = Collect(Rule(P), messages)
  BY <1>7, <1>10 DEF Collect
<1>12. texts \in Seq(Text)
  <2>1. Converts(h, V, Text)
    BY <1>3, EachIs
  <2> HIDE DEF texts
  <2> QED
    BY <1>7, <1>9, <2>1 DEF Converts
<1>13. Collect(WordsOf, texts) = Collect(Rule(P), messages)
  <2>1. Follow(h, WordsOf, g, V)
    BY <1>3 DEF Follow, WordsOf
  <2>2. \A s \in Seq(V) : Collect(WordsOf, Each(h, s)) = Collect(g, s)
    BY <2>1, CollectEach
  <2> HIDE DEF texts
  <2> QED
    BY <1>7, <1>9, <2>2
<1> QED
  BY <1>11, <1>12, <1>13 DEF ruled

\* The turns of the others, in order.
LEMMA TurnsCollect ==
  ASSUME NEW P, P \subseteq BlockType \cup PartType, NEW messages \in Seq(MessageWith(P))
  PROVE  LET spoken == Spoken(messages)
         IN /\ spoken \in Seq(Speaker(P))
            /\ [i \in DOMAIN spoken |-> [role |-> spoken[i].role, items |-> Items(spoken[i].content)]]
                 = Collect(Turn(P), messages)
            /\ \A k, R, g : Guards(k, g, MessageWith(P), Speaker(P), R) =>
                              Collect(g, spoken) = Collect(k, messages)
<1> DEFINE spoken == Spoken(messages)
           turns  == [i \in DOMAIN spoken |-> [role |-> spoken[i].role, items |-> Items(spoken[i].content)]]
           V      == Speaker(P)
           I      == {i \in DOMAIN messages : messages[i].role # "system"}
           h      == [m \in V |-> TurnOf(m)]
           g      == [m \in V |-> <<TurnOf(m)>>]
<1>1. V \subseteq MessageWith(P) /\ \A m \in MessageWith(P) : m \in V <=> m.role # "system"
  BY DEF Speaker
<1>2. \A m \in V : TurnOf(m) \in TurnType /\ <<TurnOf(m)>> \in Seq(TurnType)
  BY <1>1, MessageForms, Single
<1> HIDE DEF V
<1>3. /\ h \in [V -> TurnType] /\ \A m \in V : h[m] = TurnOf(m)
      /\ g \in [V -> Seq(TurnType)] /\ \A m \in V : g[m] = <<TurnOf(m)>>
  BY <1>2
<1> HIDE DEF h, g
<1>4. Guards(Turn(P), g, MessageWith(P), V, TurnType)
  <2>1. \A m \in MessageWith(P) : Turn(P)[m] = IF m \in V THEN g[m] ELSE <<>>
    BY <1>1, <1>3 DEF Turn
  <2> QED
    BY <1>1, <1>3, <2>1, TurnTyped DEF Guards
<1>5. I \in SUBSET DOMAIN messages
  OBVIOUS
<1>6. \A i \in DOMAIN messages : i \in I <=> messages[i] \in V
  <2>1. \A i \in DOMAIN messages : messages[i] \in MessageWith(P)
    OBVIOUS
  <2> QED
    BY <1>1, <2>1
<1>7. ASSUME NEW k, NEW R, NEW f, Guards(k, f, MessageWith(P), V, R)
      PROVE  spoken \in Seq(V) /\ Collect(f, spoken) = Collect(k, messages)
  <2>1. spoken = Kept(messages, I)
    BY DEF Spoken
  <2> HIDE DEF I, spoken
  <2> QED
    BY <1>5, <1>6, <1>7, <2>1, CollectKept
<1> HIDE DEF spoken
<1>8. spoken \in Seq(V) /\ Collect(g, spoken) = Collect(Turn(P), messages)
  BY <1>4, <1>7
<1>9. turns = Each(h, spoken)
  <2>1. \A i \in DOMAIN spoken : spoken[i] \in V
    BY <1>8
  <2> QED
    BY <1>3, <2>1 DEF Each, TurnOf
<1>10. Each(h, spoken) = Collect(g, spoken)
  <2>1. Wraps(g, h, V, TurnType)
    BY <1>3 DEF Wraps
  <2> QED
    BY <1>8, <2>1, EachCollects
<1>11. turns = Collect(Turn(P), messages)
  <2> HIDE DEF turns
  <2> QED
    BY <1>8, <1>9, <1>10
<1> QED
  BY <1>7, <1>8, <1>11 DEF V, spoken

\* What a request says, as two loops over its messages.
LEMMA DialogueIs ==
  ASSUME NEW P, P \subseteq BlockType \cup PartType, NEW request, request.messages \in MessagesOf(P),
         NEW protocol
  PROVE  Dialogue(request, protocol) =
           [system |-> (IF protocol = "anthropic" THEN Words(TextOf(request.system)) ELSE <<>>)
                         \o Collect(Rule(P), request.messages),
            turns  |-> Collect(Turn(P), request.messages)]
<1> DEFINE messages == request.messages
           ruled    == Ruled(messages)
           spoken   == Spoken(messages)
           texts    == [i \in DOMAIN ruled |-> TextOf(ruled[i].content)]
<1>1. messages \in Seq(MessageWith(P))
  BY DEF MessagesOf, MessageWith
<1>2. [i \in DOMAIN ruled |-> Words(TextOf(ruled[i].content))] = [i \in DOMAIN ruled |-> Words(texts[i])]
  OBVIOUS
<1>3. FlattenSeq([i \in DOMAIN ruled |-> Words(TextOf(ruled[i].content))]) = Collect(Rule(P), messages)
  <2>1. FlattenSeq([i \in DOMAIN ruled |-> Words(texts[i])]) = Collect(Rule(P), messages)
    <3> HIDE DEF messages
    <3> QED
      BY <1>1, RulesCollect
  <2> QED
    BY <1>2, <2>1
<1>4. [i \in DOMAIN spoken |-> [role |-> spoken[i].role, items |-> Items(spoken[i].content)]]
        = Collect(Turn(P), messages)
  <2> HIDE DEF messages
  <2> QED
    BY <1>1, TurnsCollect
<1> QED
  BY <1>3, <1>4 DEF Dialogue

------------------------------------------------------------------------------
(* Requests on their way. *)

CanonicalMessage == [m \in MessageWith(BlockType) |-> [m EXCEPT !.content = CanonicalContent(@)]]

LEMMA CanonicalMessageKept ==
  /\ Converts(CanonicalMessage, MessageWith(BlockType), MessageWith(PartType))
  /\ Follow(CanonicalMessage, Rule(PartType), Rule(BlockType), MessageWith(BlockType))
  /\ Follow(CanonicalMessage, Turn(PartType), Turn(BlockType), MessageWith(BlockType))
<1>1. ASSUME NEW m \in MessageWith(BlockType)
      PROVE  /\ CanonicalMessage[m] \in MessageWith(PartType)
             /\ Rule(BlockType)[m] = Rule(PartType)[CanonicalMessage[m]]
             /\ Turn(BlockType)[m] = Turn(PartType)[CanonicalMessage[m]]
  <2> DEFINE n == CanonicalMessage[m]
  <2>1. m.role \in Role /\ m.content \in ContentOf(BlockType)
    BY DEF MessageWith
  <2>2. n = [role |-> m.role, content |-> CanonicalContent(m.content)]
    BY DEF CanonicalMessage, MessageWith
  <2>3. n.role = m.role /\ n.content = CanonicalContent(m.content)
    BY <2>2
  <2>4. n \in MessageWith(PartType)
    BY <2>1, <2>2, CanonicalKeeps DEF MessageWith
  <2> HIDE DEF n
  <2>5. Items(n.content) = Items(m.content) /\ Words(TextOf(n.content)) = Words(TextOf(m.content))
    BY <2>1, <2>3, CanonicalKeeps
  <2>6. TurnOf(n) = TurnOf(m)
    BY <2>3, <2>5 DEF TurnOf
  <2>7. Rule(BlockType)[m] = Rule(PartType)[n]
    BY <2>3, <2>4, <2>5 DEF Rule
  <2>8. Turn(BlockType)[m] = Turn(PartType)[n]
    BY <2>3, <2>4, <2>6 DEF Turn
  <2> QED
    BY <2>4, <2>7, <2>8 DEF n
<1>2. Converts(CanonicalMessage, MessageWith(BlockType), MessageWith(PartType))
  BY <1>1, EachIs
<1> QED
  BY <1>1, <1>2 DEF Follow

\* The canonical request (parseAnthropicRequest) says what the Anthropic consumer's
\* does: the system's words, and every turn with its role and its content.
THEOREM CanonicalRequest ==
  ASSUME NEW r \in AnthropicRequest
  PROVE  /\ FromAnthropic(r) \in OpenAIRequest
         /\ Dialogue(FromAnthropic(r), "openai") = Dialogue(r, "anthropic")
<1> DEFINE system   == TextOf(r.system)
           head     == IF system = <<>> THEN <<>> ELSE <<[role |-> "system", content |-> Str(system)]>>
           made     == Each(CanonicalMessage, r.messages)
           messages == head \o made
<1>1. /\ r.system \in ContentOf(BlockType) /\ r.messages \in Seq(MessageWith(BlockType))
      /\ r.stop \in Seq(STRING) /\ r.max \in Int
  BY DEF AnthropicRequest, MessagesOf, MessageWith
<1>2. system \in Text /\ Words(system) \in Seq(Piece)
  BY <1>1, AllLegible, WordsOfContent, WordTyped
<1>3. FromAnthropic(r) = [messages |-> messages, stop |-> r.stop, max |-> r.max, maxCompletion |-> 0]
  <2>1. [i \in DOMAIN r.messages |-> [r.messages[i] EXCEPT !.content = CanonicalContent(@)]] = made
    <3>1. \A i \in DOMAIN r.messages : r.messages[i] \in MessageWith(BlockType)
      BY <1>1
    <3> QED
      BY <3>1 DEF Each, CanonicalMessage
  <2> QED
    BY <2>1 DEF FromAnthropic
<1> HIDE DEF system
<1>4. made \in Seq(MessageWith(PartType))
  BY <1>1, CanonicalMessageKept DEF Converts
<1>5. /\ head \in Seq(MessageWith(PartType)) /\ Collect(Turn(PartType), head) = <<>>
      /\ Collect(Rule(PartType), head) = Words(system)
  <2>1. CASE system = <<>>
    <3>1. head = <<>> /\ Words(system) = <<>>
      BY <2>1, WordsJoin
    <3> QED
      BY <3>1, EmptySeq, TurnTyped, RuleTyped DEF Collects
  <2>2. CASE system # <<>>
    <3> DEFINE m == [role |-> "system", content |-> Str(system)]
    <3>1. m.role = "system" /\ m.content = Str(system) /\ TextOf(Str(system)) = system
      BY DEF TextOf, Str
    <3>2. m \in MessageWith(PartType)
      BY <1>2 DEF MessageWith, Role, ContentOf, Str
    <3>3. head = <<m>>
      BY <2>2
    <3> HIDE DEF m, head
    <3>4. Rule(PartType)[m] = Words(system) /\ Turn(PartType)[m] = <<>>
      BY <3>1, <3>2 DEF Rule, Turn
    <3> QED
      BY <3>2, <3>3, <3>4, Single, TurnTyped, RuleTyped DEF Collects
  <2> QED
    BY <2>1, <2>2
<1> HIDE DEF head, made
<1>6. messages \in Seq(MessageWith(PartType))
  BY <1>4, <1>5, ConcatProperties
<1>7. FromAnthropic(r) \in OpenAIRequest
  BY <1>1, <1>3, <1>6 DEF OpenAIRequest, MessagesOf, MessageWith
<1>8. /\ Collect(Rule(PartType), made) = Collect(Rule(BlockType), r.messages)
      /\ Collect(Turn(PartType), made) = Collect(Turn(BlockType), r.messages)
  <2>1. \A s \in Seq(MessageWith(BlockType)) :
          /\ Collect(Rule(PartType), Each(CanonicalMessage, s)) = Collect(Rule(BlockType), s)
          /\ Collect(Turn(PartType), Each(CanonicalMessage, s)) = Collect(Turn(BlockType), s)
    BY CanonicalMessageKept, CollectEach
  <2> QED
    BY <1>1, <2>1 DEF made
<1>9. /\ Collect(Rule(PartType), messages) = Words(system) \o Collect(Rule(BlockType), r.messages)
      /\ Collect(Turn(PartType), messages) = <<>> \o Collect(Turn(BlockType), r.messages)
  <2>1. Joins(Rule(PartType), MessageWith(PartType)) /\ Joins(Turn(PartType), MessageWith(PartType))
    BY RuleTyped, TurnTyped
  <2>2. /\ Collect(Rule(PartType), messages) = Collect(Rule(PartType), head) \o Collect(Rule(PartType), made)
        /\ Collect(Turn(PartType), messages) = Collect(Turn(PartType), head) \o Collect(Turn(PartType), made)
    BY <1>4, <1>5, <2>1 DEF Joins
  <2> HIDE DEF messages
  <2> QED
    BY <1>5, <1>8, <2>2
<1>10. /\ Collect(Rule(PartType), messages) \in Seq(Piece)
       /\ Collect(Turn(BlockType), r.messages) \in Seq(TurnType)
  BY <1>1, <1>6, RuleTyped, TurnTyped DEF Collects
<1> HIDE DEF messages
<1>11. Dialogue(r, "anthropic") = [system |-> Words(system) \o Collect(Rule(BlockType), r.messages),
                                   turns  |-> Collect(Turn(BlockType), r.messages)]
  <2>1. r.messages \in MessagesOf(BlockType)
    BY DEF AnthropicRequest
  <2> QED
    BY <2>1, DialogueIs DEF system
<1>12. Dialogue(FromAnthropic(r), "openai") = [system |-> <<>> \o Collect(Rule(PartType), messages),
                                               turns  |-> Collect(Turn(PartType), messages)]
  <2>1. FromAnthropic(r).messages = messages /\ messages \in MessagesOf(PartType)
    BY <1>3, <1>6 DEF MessagesOf, MessageWith
  <2> QED
    BY <2>1, DialogueIs
<1>13. /\ <<>> \o Collect(Rule(PartType), messages) = Collect(Rule(PartType), messages)
       /\ <<>> \o Collect(Turn(BlockType), r.messages) = Collect(Turn(BlockType), r.messages)
  BY <1>10, ConcatEmptySeq
<1> QED
  BY <1>7, <1>9, <1>11, <1>12, <1>13

AdaptedMessage == [m \in Speaker(PartType) |-> [m EXCEPT !.content = AnthropicContent(@)]]

KnownTurn == [t \in TurnType |-> [role |-> t.role, items |-> KnownItems(t.items)]]

KnownWrapped == [t \in TurnType |-> <<KnownTurn[t]>>]

\* What an Anthropic provider can be told of a message.
TurnKnown == [m \in MessageWith(PartType) |-> IF m.role # "system" THEN <<KnownTurn[TurnOf(m)]>> ELSE <<>>]

LEMMA KnownTurnTyped ==
  /\ Wraps(KnownWrapped, KnownTurn, TurnType, TurnType)
  /\ Twice(Turn(PartType), KnownWrapped, TurnKnown, MessageWith(PartType), TurnType, TurnType)
<1>1. KnownTurn \in [TurnType -> TurnType]
  <2>1. \A t \in TurnType : t.role \in Role /\ KnownItems(t.items) \in Seq(Seen)
    BY KnownCollect DEF TurnType
  <2> QED
    BY <2>1 DEF KnownTurn, TurnType
<1>2. /\ KnownWrapped \in [TurnType -> Seq(TurnType)]
      /\ \A t \in TurnType : KnownWrapped[t] = <<KnownTurn[t]>>
  <2>1. \A t \in TurnType : <<KnownTurn[t]>> \in Seq(TurnType)
    BY <1>1, Single
  <2> QED
    BY <2>1 DEF KnownWrapped
<1>3. \A m \in MessageWith(PartType) : TurnOf(m) \in TurnType
  BY MessageForms
<1>4. TurnKnown \in [MessageWith(PartType) -> Seq(TurnType)]
  <2>1. \A m \in MessageWith(PartType) : <<KnownTurn[TurnOf(m)]>> \in Seq(TurnType)
    BY <1>1, <1>3, Single
  <2> QED
    BY <2>1, EmptySeq DEF TurnKnown
<1>5. Collects(KnownWrapped, TurnType, TurnType)
  BY <1>2, CollectIs
<1>6. ASSUME NEW m \in MessageWith(PartType)
      PROVE  TurnKnown[m] = Collect(KnownWrapped, Turn(PartType)[m])
  <2>1. CASE m.role = "system"
    <3>1. TurnKnown[m] = <<>> /\ Turn(PartType)[m] = <<>>
      BY <2>1 DEF TurnKnown, Turn
    <3> QED
      BY <1>5, <3>1 DEF Collects
  <2>2. CASE m.role # "system"
    <3>1. TurnKnown[m] = <<KnownTurn[TurnOf(m)]>> /\ Turn(PartType)[m] = <<TurnOf(m)>>
      BY <2>2 DEF TurnKnown, Turn
    <3> QED
      BY <1>2, <1>3, <1>5, <3>1 DEF Collects
  <2> QED
    BY <2>1, <2>2
<1> QED
  BY <1>1, <1>2, <1>4, <1>6, TurnTyped DEF Wraps, Twice

\* A message of anyone but the system becomes one that says what is known of it.
LEMMA AdaptedMessageKept ==
  ASSUME NEW m \in Speaker(PartType)
  PROVE  /\ AdaptedMessage[m] \in MessageWith(BlockType)
         /\ Rule(BlockType)[AdaptedMessage[m]] = <<>>
         /\ Turn(BlockType)[AdaptedMessage[m]] = <<KnownTurn[TurnOf(m)]>>
<1> DEFINE n == AdaptedMessage[m]
<1>1. m \in MessageWith(PartType) /\ m.role \in Role /\ m.role # "system" /\ m.content \in ContentOf(PartType)
  BY DEF Speaker, MessageWith
<1>2. n = [role |-> m.role, content |-> AnthropicContent(m.content)]
  BY <1>1 DEF AdaptedMessage, MessageWith
<1>3. n.role = m.role /\ n.content = AnthropicContent(m.content)
  BY <1>2
<1>4. n \in MessageWith(BlockType)
  BY <1>1, <1>2, AdaptedKeeps DEF MessageWith
<1> HIDE DEF n
<1>5. Items(n.content) = KnownItems(Items(m.content))
  BY <1>1, <1>3, AdaptedKeeps
<1>6. TurnOf(m) \in TurnType /\ TurnOf(m).role = m.role /\ TurnOf(m).items = Items(m.content)
  BY <1>1, MessageForms DEF TurnOf
<1>7. TurnOf(n) = KnownTurn[TurnOf(m)]
  BY <1>3, <1>5, <1>6 DEF TurnOf, KnownTurn
<1>8. Rule(BlockType)[n] = <<>> /\ Turn(BlockType)[n] = <<TurnOf(n)>>
  BY <1>1, <1>3, <1>4 DEF Rule, Turn
<1> QED
  BY <1>4, <1>7, <1>8 DEF n

\* The adapted request (openAIToAnthropicRequest) says what the canonical one does,
\* wherever the system speaks in it, but for parts that have no form there.
THEOREM AdaptedRequest ==
  ASSUME NEW r \in OpenAIRequest
  PROVE  Dialogue(ToAnthropic(r), "anthropic") = Known(Dialogue(r, "openai"))
<1> DEFINE sent    == r.messages
           spoken  == Spoken(sent)
           made    == Each(AdaptedMessage, spoken)
           hoisted == Hoisted(sent)
           known   == [m \in Speaker(PartType) |-> <<KnownTurn[TurnOf(m)]>>]
           turns   == Collect(Turn(PartType), sent)
<1>1. sent \in Seq(MessageWith(PartType)) /\ sent \in MessagesOf(PartType)
  BY DEF OpenAIRequest, MessagesOf, MessageWith
<1> HIDE DEF sent
<1>2. spoken \in Seq(Speaker(PartType))
  BY <1>1, TurnsCollect
<1>3. ToAnthropic(r).messages = made /\ ToAnthropic(r).system = Str(hoisted)
  <2>1. [i \in DOMAIN spoken |-> [spoken[i] EXCEPT !.content = AnthropicContent(@)]] = made
    <3>1. \A i \in DOMAIN spoken : spoken[i] \in Speaker(PartType)
      BY <1>2
    <3> HIDE DEF spoken
    <3> QED
      BY <3>1 DEF Each, AdaptedMessage
  <2> QED
    BY <2>1 DEF ToAnthropic, sent
<1>4. made \in Seq(MessageWith(BlockType))
  <2>1. Converts(AdaptedMessage, Speaker(PartType), MessageWith(BlockType))
    BY AdaptedMessageKept, EachIs
  <2> QED
    BY <1>2, <2>1 DEF Converts
<1>5. TextOf(Str(hoisted)) = hoisted /\ Words(hoisted) = Collect(Rule(PartType), sent)
  <2> DEFINE ruled == Ruled(sent)
             texts == [i \in DOMAIN ruled |-> TextOf(ruled[i].content)]
             gap   == <<LineBreak, LineBreak>>
  <2>1. texts \in Seq(Text) /\ Collect(WordsOf, texts) = Collect(Rule(PartType), sent)
    BY <1>1, RulesCollect
  <2>2. gap \in Text /\ Words(gap) = <<>>
    <3>1. LineBreak \in Piece /\ Word[LineBreak] = <<>>
      BY DEF Piece, Word
    <3>2. <<LineBreak>> \in Seq(Piece) /\ gap = Append(<<LineBreak>>, LineBreak)
      BY <3>1, Single
    <3>3. gap \in Seq(Piece)
      BY <3>1, <3>2, AppendProperties
    <3>4. Collect(Word, gap) = Collect(Word, <<LineBreak>>) \o Word[LineBreak]
      BY <3>1, <3>2, WordTyped DEF Collects
    <3>5. Collect(Word, <<LineBreak>>) = <<>> /\ <<>> \o <<>> = <<>>
      BY <3>1, WordTyped DEF Collects
    <3> QED
      BY <3>1, <3>3, <3>4, <3>5, WordsCollect, WordTyped
  <2>3. hoisted = Separated(texts, gap)
    BY DEF Hoisted
  <2> HIDE DEF texts, gap
  <2>4. Words(hoisted) = Collect(WordsOf, texts)
    BY <2>1, <2>2, <2>3, WordsSeparated
  <2> QED
    BY <2>1, <2>4 DEF TextOf, Str
<1>6. \A m \in Speaker(PartType) : TurnOf(m) \in TurnType /\ <<KnownTurn[TurnOf(m)]>> \in Seq(TurnType)
  <2>1. \A m \in Speaker(PartType) : TurnOf(m) \in TurnType
    BY MessageForms DEF Speaker
  <2>2. KnownTurn \in [TurnType -> TurnType]
    BY KnownTurnTyped DEF Wraps
  <2> QED
    BY <2>1, <2>2, Single
<1>7. known \in [Speaker(PartType) -> Seq(TurnType)] /\ \A m \in Speaker(PartType) : known[m] = <<KnownTurn[TurnOf(m)]>>
  BY <1>6
<1> HIDE DEF known
<1>8. Collect(known, spoken) = Collect(TurnKnown, sent)
  <2>1. \A m \in MessageWith(PartType) : TurnKnown[m] = IF m \in Speaker(PartType) THEN known[m] ELSE <<>>
    BY <1>7 DEF TurnKnown, Speaker
  <2>2. TurnKnown \in [MessageWith(PartType) -> Seq(TurnType)]
    BY KnownTurnTyped DEF Twice
  <2>3. Speaker(PartType) \subseteq MessageWith(PartType)
    BY DEF Speaker
  <2>4. Guards(TurnKnown, known, MessageWith(PartType), Speaker(PartType), TurnType)
    BY <1>7, <2>1, <2>2, <2>3 DEF Guards
  <2> HIDE DEF spoken
  <2> QED
    BY <1>1, <2>4, TurnsCollect DEF spoken
<1>9. Collect(Turn(BlockType), made) = Collect(known, spoken)
  <2>1. Follow(AdaptedMessage, Turn(BlockType), known, Speaker(PartType))
    BY <1>7, AdaptedMessageKept DEF Follow
  <2>2. \A s \in Seq(Speaker(PartType)) : Collect(Turn(BlockType), Each(AdaptedMessage, s)) = Collect(known, s)
    BY <2>1, CollectEach
  <2> HIDE DEF spoken
  <2> QED
    BY <1>2, <2>2
<1>10. Collect(Rule(BlockType), made) = <<>>
  <2> DEFINE none == [m \in Speaker(PartType) |-> <<>>]
  <2>1. \A m \in Speaker(PartType) : none[m] = <<>>
    OBVIOUS
  <2> HIDE DEF none, spoken
  <2>2. Follow(AdaptedMessage, Rule(BlockType), none, Speaker(PartType))
    BY <2>1, AdaptedMessageKept DEF Follow
  <2>3. \A s \in Seq(Speaker(PartType)) : Collect(Rule(BlockType), Each(AdaptedMessage, s)) = Collect(none, s)
    BY <2>2, CollectEach
  <2>4. Collect(none, spoken) = <<>>
    BY <1>2, <2>1, CollectNothing
  <2> QED
    BY <1>2, <2>3, <2>4
<1> HIDE DEF made, spoken, hoisted
<1>11. turns \in Seq(TurnType) /\ Collect(Rule(PartType), sent) \in Seq(Piece)
  BY <1>1, TurnTyped, RuleTyped DEF Collects
<1>12. Dialogue(ToAnthropic(r), "anthropic") =
         [system |-> Words(hoisted) \o <<>>, turns |-> Collect(TurnKnown, sent)]
  <2>1. ToAnthropic(r).messages \in MessagesOf(BlockType)
    BY <1>3, <1>4 DEF MessagesOf, MessageWith
  <2> QED
    BY <1>3, <1>5, <1>8, <1>9, <1>10, <2>1, DialogueIs
<1>13. Dialogue(r, "openai") = [system |-> <<>> \o Collect(Rule(PartType), sent), turns |-> turns]
  <2>1. r.messages = sent
    BY DEF sent
  <2> QED
    BY <1>1, <2>1, DialogueIs
<1> HIDE DEF turns
<1>14. [i \in DOMAIN turns |-> [role |-> turns[i].role, items |-> KnownItems(turns[i].items)]]
         = Collect(TurnKnown, sent)
  <2>1. Each(KnownTurn, turns) = Collect(KnownWrapped, turns)
    BY <1>11, KnownTurnTyped, EachCollects
  <2>2. Collect(KnownWrapped, Collect(Turn(PartType), sent)) = Collect(TurnKnown, sent)
    BY <1>1, KnownTurnTyped, CollectTwice
  <2>3. [i \in DOMAIN turns |-> [role |-> turns[i].role, items |-> KnownItems(turns[i].items)]]
          = Each(KnownTurn, turns)
    <3>1. \A i \in DOMAIN turns : turns[i] \in TurnType
      BY <1>11
    <3> QED
      BY <3>1 DEF Each, KnownTurn
  <2> QED
    BY <2>1, <2>2, <2>3 DEF turns
<1>15. <<>> \o Collect(Rule(PartType), sent) = Words(hoisted) \o <<>>
  BY <1>5, <1>11, ConcatEmptySeq
<1> QED
  BY <1>12, <1>13, <1>14, <1>15 DEF Known

------------------------------------------------------------------------------
(* Answers on their way back. *)

\* The texts of the parts of a message, one after the other.
LEMMA JoinedTyped ==
  ASSUME NEW a \in Message, NEW type \in {"text", "thinking"}
  PROVE  Joined(a, type) \in Text
<1> DEFINE P      == {Other} \cup [type : {"text", "thinking"}, text : Text]
           of     == OfType(a.content, type)
           texts  == [i \in DOMAIN of |-> of[i].text]
           speech == [p \in P |-> IF p.type = type THEN Words(p.text) ELSE <<>>]
<1>1. a.content \in Seq(P)
  BY DEF Message
<1>2. \A p \in P : p.type = type => p.text \in Text
  BY DEF Other
<1> HIDE DEF P
<1>3. /\ speech \in [P -> Text]
      /\ \A p \in P : speech[p] = IF p.type = type THEN Words(p.text) ELSE <<>>
  <2>1. <<>> \in Text
    BY WordTyped, EmptySeq
  <2> QED
    BY <1>2, <2>1, WordsCollect
<1> HIDE DEF speech
<1>4. texts \in Seq(Text)
  <2>1. Utters(speech, P, type)
    BY <1>2, <1>3 DEF Utters
  <2> QED
    BY <1>1, <2>1, TextsOfParts
<1>5. Joined(a, type) = FlattenSeq(texts)
  BY DEF Joined
<1> HIDE DEF texts
<1> QED
  BY <1>4, <1>5, WordsFlatten

\* One text in one block.
LEMMA JoinedOne ==
  ASSUME NEW t \in Text, NEW a, a.content = <<TextPart(t)>>
  PROVE  Joined(a, "text") = t
<1> DEFINE x     == TextPart(t)
           parts == <<x>>
           of    == OfType(parts, "text")
           k     == [p \in {x} |-> <<p>>]
           I     == {i \in DOMAIN parts : parts[i].type = "text"}
<1>1. x.type = "text" /\ x.text = t
  BY DEF TextPart
<1> HIDE DEF x
<1>2. parts \in Seq({x}) /\ DOMAIN parts = {1} /\ parts[1] = x
  BY Single
<1> HIDE DEF parts
<1>3. k \in [{x} -> Seq({x})] /\ \A p \in {x} : k[p] = <<p>>
  BY Single
<1>4. I \in SUBSET DOMAIN parts /\ \A i \in DOMAIN parts : i \in I <=> k[parts[i]] # <<>>
  BY <1>1, <1>2
<1> HIDE DEF k
<1>5. of = <<x>>
  <2>1. of = Kept(parts, I)
    BY DEF OfType
  <2>2. Kept(parts, I) = Collect(k, parts)
    <3> HIDE DEF I
    <3> QED
      BY <1>2, <1>3, <1>4, KeptCollects
  <2>3. Collect(k, parts) = <<x>>
    BY <1>3, CollectIs DEF Collects, parts
  <2> HIDE DEF of, I
  <2> QED
    BY <2>1, <2>2, <2>3
<1>6. [i \in DOMAIN of |-> of[i].text] = <<t>>
  <2> HIDE DEF of
  <2> QED
    BY <1>1, <1>5
<1>7. Joined(a, "text") = FlattenSeq([i \in DOMAIN of |-> of[i].text])
  BY DEF Joined, x, parts
<1>8. FlattenSeq(<<t>>) = t
  BY WordTyped, FlattenOne
<1> QED
  BY <1>6, <1>7, <1>8

\* A message made a completion says the same.
LEMMA CompletionSays ==
  ASSUME NEW a \in Message
  PROVE  /\ CompletionOf(a).is = "completion" /\ CompletionOf(a).choices # <<>>
         /\ TextOf(CompletionOf(a).choices[1].content) \in Text
         /\ Said(CompletionOf(a)) = Said(a)
<1> DEFINE c      == CompletionOf(a)
           joined == Joined(a, "text")
<1>1. a.is = "message"
  BY DEF Message
<1>2. joined \in Text
  BY JoinedTyped
<1>3. /\ c.is = "completion" /\ c.choices = <<[content |-> Str(joined), finish |-> FinishOf(a.stop)]>>
      /\ c.usage = a.usage
  BY DEF CompletionOf
<1> HIDE DEF c, joined
<1>4. /\ c.choices # <<>> /\ c.choices[1].content = Str(joined) /\ c.choices[1].finish = FinishOf(a.stop)
  BY <1>3
<1>5. TextOf(Str(joined)) = joined
  BY DEF TextOf, Str
<1>6. (CASE FinishOf(a.stop) = "length" -> "length"
         [] FinishOf(a.stop) \in {"tool_calls", "function_call"} -> "tools"
         [] OTHER -> "end")
        = CASE a.stop = "max_tokens" -> "length" [] a.stop = "tool_use" -> "tools" [] OTHER -> "end"
  BY DEF FinishOf
<1>7. Said(c) = Said(a)
  BY <1>1, <1>3, <1>4, <1>5, <1>6 DEF Said, joined
<1> QED
  BY <1>2, <1>3, <1>4, <1>5, <1>7 DEF c

\* A completion made a message says the same.
LEMMA MessageSays ==
  ASSUME NEW c, c.is = "completion", c.choices # <<>> => TextOf(c.choices[1].content) \in Text
  PROVE  MessageOf(c).is = "message" /\ Said(MessageOf(c)) = Said(c)
<1> DEFINE m    == MessageOf(c)
           text == IF c.choices = <<>> THEN <<>> ELSE TextOf(c.choices[1].content)
<1>1. /\ m.is = "message" /\ m.content = <<TextPart(text)>> /\ m.usage = c.usage
      /\ m.stop = IF c.choices = <<>> THEN "end_turn" ELSE StopOf(c.choices[1].finish)
  BY DEF MessageOf
<1>2. text \in Text
  BY WordTyped, EmptySeq
<1> HIDE DEF m, text
<1>3. Joined(m, "text") = text
  BY <1>1, <1>2, JoinedOne
<1>4. CASE c.choices = <<>>
  <2>1. text = <<>> /\ m.stop = "end_turn" /\ Words(<<>>) = <<>>
    BY <1>1, <1>4, WordsJoin DEF text
  <2>2. Said(m) = [words |-> <<>>, end |-> "end", usage |-> c.usage]
    BY <1>1, <1>3, <2>1 DEF Said
  <2>3. Said(c) = [words |-> <<>>, end |-> "end", usage |-> c.usage]
    BY <1>4 DEF Said
  <2> QED
    BY <1>1, <2>2, <2>3 DEF m
<1>5. CASE c.choices # <<>>
  <2> DEFINE finish == c.choices[1].finish
             end    == CASE finish = "length" -> "length"
                         [] finish \in {"tool_calls", "function_call"} -> "tools"
                         [] OTHER -> "end"
  <2>1. text = TextOf(c.choices[1].content) /\ m.stop = StopOf(finish)
    BY <1>1, <1>5 DEF text
  <2>2. end = CASE m.stop = "max_tokens" -> "length" [] m.stop = "tool_use" -> "tools" [] OTHER -> "end"
    BY <2>1 DEF StopOf
  <2>3. Said(c) = [words |-> Words(text), end |-> end, usage |-> c.usage]
    BY <1>5, <2>1 DEF Said
  <2> HIDE DEF end
  <2>4. Said(m) = [words |-> Words(text), end |-> end, usage |-> c.usage]
    BY <1>1, <1>3, <2>2 DEF Said
  <2> QED
    BY <1>1, <2>3, <2>4 DEF m
<1> QED
  BY <1>4, <1>5

------------------------------------------------------------------------------
(* The specification. *)

LEMMA CallForms ==
  ASSUME NEW c \in Calls
  PROVE  /\ c.consumer \in {"anthropic", "openai"} /\ c.provider \in {"anthropic", "openai"}
         /\ c.strategy \in {"proxy", "fusion"}
         /\ c.consumer = "anthropic" => c.request \in AnthropicRequest
         /\ c.consumer = "openai" => c.request \in OpenAIRequest
BY TranslationAssumption DEF CallType

\* The canonical form of a call's request, and what of it says what the request says.
Canonical(c) == IF c.consumer = "anthropic" THEN FromAnthropic(c.request) ELSE c.request

LEMMA CanonicalSays ==
  ASSUME NEW c \in Calls
  PROVE  /\ Canonical(c) \in OpenAIRequest /\ Canonical(c).stop = c.request.stop
         /\ Dialogue(Canonical(c), "openai") = Dialogue(c.request, c.consumer)
         /\ Limit(Canonical(c), "openai") = Limit(c.request, c.consumer)
         /\ Limit(c.request, c.consumer) \in Int
<1>1. CASE c.consumer = "anthropic"
  <2>1. c.request \in AnthropicRequest
    BY <1>1, CallForms
  <2> DEFINE r == c.request
             f == FromAnthropic(r)
  <2>2. f.stop = r.stop /\ f.max = r.max /\ f.maxCompletion = 0
    BY DEF FromAnthropic
  <2>3. r.max \in Int
    BY <2>1 DEF AnthropicRequest
  <2>4. f \in OpenAIRequest /\ Dialogue(f, "openai") = Dialogue(r, "anthropic")
    BY <2>1, CanonicalRequest
  <2> HIDE DEF f
  <2>5. Limit(f, "openai") = r.max /\ Limit(r, "anthropic") = r.max
    BY <2>2 DEF Limit
  <2>6. Canonical(c) = f
    BY <1>1 DEF Canonical, f
  <2> QED
    BY <1>1, <2>2, <2>3, <2>4, <2>5, <2>6
<1>2. CASE c.consumer = "openai"
  <2>1. c.request \in OpenAIRequest /\ Canonical(c) = c.request
    BY <1>2, CallForms DEF Canonical
  <2>2. Limit(c.request, "openai") \in Int
    BY <2>1 DEF OpenAIRequest, Limit
  <2> QED
    BY <1>2, <2>1, <2>2
<1> QED
  BY <1>1, <1>2, CallForms

\* The body of a fusion panelist, or of a proxy's upstream.
LEMMA BodySays ==
  ASSUME call \in Calls, canonical = Canonical(call)
  PROVE  /\ Body \in OpenAIRequest
         /\ Dialogue(Body, "openai") = Dialogue(call.request, call.consumer)
         /\ call.strategy = "proxy" =>
              Body.stop = call.request.stop /\ Limit(Body, "openai") = Limit(call.request, call.consumer)
<1>1. /\ canonical \in OpenAIRequest /\ canonical.stop = call.request.stop
      /\ Dialogue(canonical, "openai") = Dialogue(call.request, call.consumer)
      /\ Limit(canonical, "openai") = Limit(call.request, call.consumer)
  BY CanonicalSays
<1>2. CASE call.strategy = "proxy"
  BY <1>1, <1>2 DEF Body
<1>3. CASE call.strategy # "proxy"
  <2> DEFINE limit == IF FusionMaxTokens > 0 THEN FusionMaxTokens ELSE 0
  <2>1. Body = [canonical EXCEPT !.stop = <<>>, !.maxCompletion = 0, !.max = limit]
    BY <1>3 DEF Body
  <2>2. Body \in OpenAIRequest /\ Body.messages = canonical.messages
    <3>1. <<>> \in Seq(STRING) /\ limit \in Int
      BY EmptySeq, TranslationAssumption
    <3>2. /\ canonical.messages \in MessagesOf(PartType)
          /\ canonical = [messages |-> canonical.messages, stop |-> canonical.stop, max |-> canonical.max,
                          maxCompletion |-> canonical.maxCompletion]
      BY <1>1 DEF OpenAIRequest
    <3>3. Body = [messages |-> canonical.messages, stop |-> <<>>, max |-> limit, maxCompletion |-> 0]
      BY <2>1, <3>2
    <3> HIDE DEF limit
    <3> QED
      BY <3>1, <3>2, <3>3 DEF OpenAIRequest
  <2>3. Dialogue(Body, "openai") = Dialogue(canonical, "openai")
    <3>1. canonical.messages \in MessagesOf(PartType)
      BY <1>1 DEF OpenAIRequest
    <3>2. Body.messages \in MessagesOf(PartType)
      BY <2>2, <3>1
    <3> QED
      BY <2>2, <3>1, <3>2, DialogueIs
  <2> QED
    BY <1>1, <1>3, <2>2, <2>3
<1> QED
  BY <1>2, <1>3

\* What an adapted request asks for.
LEMMA AdaptedAsks ==
  ASSUME NEW r \in OpenAIRequest
  PROVE  /\ ToAnthropic(r).stop = r.stop /\ ToAnthropic(r).max > 0
         /\ \/ Limit(ToAnthropic(r), "anthropic") = Limit(r, "openai")
            \/ Limit(r, "openai") <= 0
<1>1. Limit(r, "openai") \in Int
  BY DEF OpenAIRequest, Limit
<1>2. /\ ToAnthropic(r).stop = r.stop
      /\ ToAnthropic(r).max = IF Limit(r, "openai") <= 0 THEN 4096 ELSE Limit(r, "openai")
  BY DEF ToAnthropic, Limit
<1> QED
  BY <1>1, <1>2 DEF Limit

\* The strengthening: what every stage knows.
Carried ==
  /\ call \in Calls
  /\ stage \in {"sent", "canonical", "forwarded", "answered", "replied"}
  /\ stage = "canonical" => canonical = Canonical(call)
  /\ stage \in {"answered", "replied"} =>
       answer \in IF call.provider = "openai" THEN OpenAIAnswers ELSE AnthropicAnswers

IInv == Carried /\ RequestFaithful /\ ReplyFaithful

LEMMA InitIInv == Init => IInv
BY DEF Init, IInv, Carried, RequestFaithful, ReplyFaithful

LEMMA ForwardFaithful ==
  ASSUME Carried, Forward
  PROVE  RequestFaithful'
<1>1. /\ call \in Calls /\ canonical = Canonical(call) /\ stage' = "forwarded"
      /\ call' = call
      /\ outbound' = CASE Native -> call.request [] call.provider = "openai" -> Body
                       [] OTHER -> ToAnthropic(Body)
  BY DEF Carried, Forward
<1> DEFINE sent    == Dialogue(call.request, call.consumer)
           adapted == call.provider = "anthropic" /\ ~Native
           limit   == Limit(call.request, call.consumer)
<1>2. SUFFICES
        /\ Dialogue(outbound', call.provider) = IF adapted THEN Known(sent) ELSE sent
        /\ call.strategy = "proxy" =>
             /\ outbound'.stop = call.request.stop
             /\ Limit(outbound', call.provider) = limit \/ (adapted /\ limit <= 0)
        /\ adapted => outbound'.max > 0
  BY <1>1 DEF RequestFaithful, Native
<1>3. /\ Body \in OpenAIRequest /\ Dialogue(Body, "openai") = sent
      /\ call.strategy = "proxy" => Body.stop = call.request.stop /\ Limit(Body, "openai") = limit
  BY <1>1, BodySays
<1> HIDE DEF sent, limit
<1>4. CASE Native
  <2>1. outbound' = call.request /\ call.provider = "anthropic" /\ call.consumer = "anthropic"
    BY <1>1, <1>4 DEF Native
  <2> QED
    BY <1>4, <2>1 DEF sent, limit
<1>5. CASE ~Native /\ call.provider = "openai"
  <2>1. outbound' = Body
    BY <1>1, <1>5
  <2> QED
    BY <1>3, <1>5, <2>1
<1>6. CASE adapted
  <2>1. outbound' = ToAnthropic(Body)
    BY <1>1, <1>6
  <2>2. Dialogue(ToAnthropic(Body), "anthropic") = Known(sent)
    BY <1>3, AdaptedRequest
  <2>3. /\ ToAnthropic(Body).stop = Body.stop /\ ToAnthropic(Body).max > 0
        /\ Limit(ToAnthropic(Body), "anthropic") = Limit(Body, "openai") \/ Limit(Body, "openai") <= 0
    BY <1>3, AdaptedAsks
  <2> QED
    BY <1>3, <1>6, <2>1, <2>2, <2>3
<1> QED
  BY <1>1, <1>4, <1>5, <1>6, CallForms

\* What an upstream answers is an answer in its protocol.
LEMMA AnswerForms ==
  ASSUME call \in Calls, answer \in IF call.provider = "openai" THEN OpenAIAnswers ELSE AnthropicAnswers
  PROVE  \/ answer.is = "error"
         \/ answer \in Message /\ answer.is = "message" /\ call.provider = "anthropic"
         \/ /\ answer.is = "completion" /\ call.provider = "openai"
            /\ answer.choices # <<>> => TextOf(answer.choices[1].content) \in Text
<1>1. CASE call.provider = "openai"
  <2>1. answer \in Completion \/ answer \in Failure("openai")
    BY <1>1, TranslationAssumption
  <2>2. ASSUME answer \in Completion, answer.choices # <<>>
        PROVE  TextOf(answer.choices[1].content) \in Text
    <3> DEFINE choice == [content : ContentOf(PartType), finish : STRING]
    <3>1. answer.choices \in Seq(choice)
      BY <2>2 DEF Completion
    <3>2. answer.choices[1] \in choice
      <4> HIDE DEF choice
      <4> QED
        BY <2>2, <3>1
    <3>3. answer.choices[1].content \in ContentOf(PartType)
      BY <3>2
    <3> QED
      BY <3>3, AllLegible, WordsOfContent
  <2> QED
    BY <1>1, <2>1, <2>2 DEF Completion, Failure
<1>2. CASE call.provider = "anthropic"
  <2>1. answer \in Message \/ answer \in Failure("anthropic")
    BY <1>2, TranslationAssumption
  <2> QED
    BY <1>2, <2>1 DEF Message, Failure
<1> QED
  BY <1>1, <1>2, CallForms

LEMMA ReplySays ==
  ASSUME Carried, Reply
  PROVE  ReplyFaithful'
<1> DEFINE received == IF answer.is = "message" THEN CompletionOf(answer) ELSE answer
<1>1. /\ call \in Calls /\ answer \in IF call.provider = "openai" THEN OpenAIAnswers ELSE AnthropicAnswers
      /\ stage' = "replied" /\ call' = call /\ answer' = answer
      /\ reply' = CASE Native -> answer
                    [] call.consumer = "openai" -> received
                    [] call.consumer = "anthropic" /\ ~Native ->
                         IF received.is = "error" THEN ErrorOf(received) ELSE MessageOf(received)
  BY DEF Carried, Reply
<1>2. call.consumer \in {"anthropic", "openai"} /\ (Native => call.consumer = "anthropic" /\ call.provider = "anthropic")
  BY <1>1, CallForms DEF Native
<1>3. CASE answer.is = "error"
  <2>1. received = answer
    BY <1>3
  <2>2. reply' = answer \/ reply' = ErrorOf(answer)
    BY <1>1, <1>2, <1>3, <2>1
  <2>3. /\ ErrorOf(answer).is = "error"
        /\ ErrorOf(answer).message = IF answer.message = "" THEN "request failed" ELSE answer.message
    <3>1. answer \in Failure("openai") \/ answer \in Failure("anthropic")
      BY <1>1, <1>3, TranslationAssumption DEF Completion, Message
    <3> QED
      BY <3>1 DEF ErrorOf, Failure
  <2> QED
    BY <1>1, <1>3, <2>2, <2>3 DEF ReplyFaithful
<1>4. CASE answer \in Message /\ answer.is = "message" /\ call.provider = "anthropic"
  <2>1. /\ received = CompletionOf(answer) /\ received.is = "completion" /\ Said(received) = Said(answer)
        /\ received.choices # <<>> => TextOf(received.choices[1].content) \in Text
    BY <1>4, CompletionSays
  <2> HIDE DEF received
  <2>2. MessageOf(received).is = "message" /\ Said(MessageOf(received)) = Said(answer)
    BY <2>1, MessageSays
  <2>3. CASE Native
    BY <1>1, <1>2, <1>4, <2>3 DEF ReplyFaithful
  <2>4. CASE call.consumer = "openai"
    BY <1>1, <1>2, <1>4, <2>1, <2>4 DEF ReplyFaithful
  <2>5. CASE call.consumer = "anthropic" /\ ~Native
    BY <1>1, <1>4, <2>1, <2>2, <2>5 DEF ReplyFaithful
  <2> QED
    BY <1>2, <2>3, <2>4, <2>5
<1>5. CASE /\ answer.is = "completion" /\ call.provider = "openai"
           /\ answer.choices # <<>> => TextOf(answer.choices[1].content) \in Text
  <2>1. received = answer /\ ~Native
    BY <1>2, <1>5
  <2>2. MessageOf(answer).is = "message" /\ Said(MessageOf(answer)) = Said(answer)
    BY <1>5, MessageSays
  <2> HIDE DEF received
  <2>3. CASE call.consumer = "openai"
    BY <1>1, <1>5, <2>1, <2>3 DEF ReplyFaithful
  <2>4. CASE call.consumer = "anthropic"
    BY <1>1, <1>5, <2>1, <2>2, <2>4 DEF ReplyFaithful
  <2> QED
    BY <1>2, <2>3, <2>4
<1> QED
  BY <1>1, <1>3, <1>4, <1>5, AnswerForms

LEMMA NextIInv == IInv /\ [Next]_vars => IInv'
<1> SUFFICES ASSUME IInv, [Next]_vars
             PROVE  IInv'
  OBVIOUS
<1>1. CASE Decode
  <2>1. Carried'
    BY <1>1 DEF IInv, Carried, Decode, Canonical
  <2> QED
    BY <1>1, <2>1 DEF IInv, Decode, RequestFaithful, ReplyFaithful
<1>2. CASE Forward
  <2>1. Carried'
    BY <1>2 DEF IInv, Carried, Forward
  <2>2. RequestFaithful'
    BY <1>2, ForwardFaithful DEF IInv
  <2>3. ReplyFaithful'
    BY <1>2 DEF Forward, ReplyFaithful
  <2> QED
    BY <2>1, <2>2, <2>3 DEF IInv
<1>3. CASE Answer
  <2>1. Carried'
    BY <1>3 DEF IInv, Carried, Answer
  <2>2. RequestFaithful'
    BY <1>3 DEF IInv, Answer, RequestFaithful, Native
  <2>3. ReplyFaithful'
    BY <1>3 DEF Answer, ReplyFaithful
  <2> QED
    BY <2>1, <2>2, <2>3 DEF IInv
<1>4. CASE Reply
  <2>1. Carried'
    BY <1>4 DEF IInv, Carried, Reply
  <2>2. RequestFaithful'
    BY <1>4 DEF IInv, Reply, RequestFaithful, Native
  <2>3. ReplyFaithful'
    BY <1>4, ReplySays DEF IInv
  <2> QED
    BY <2>1, <2>2, <2>3 DEF IInv
<1>5. CASE UNCHANGED vars
  BY <1>5 DEF IInv, Carried, RequestFaithful, ReplyFaithful, Native, vars
<1> QED
  BY <1>1, <1>2, <1>3, <1>4, <1>5 DEF Next

\* Whatever the system, the messages and the limits of a request, its upstream is
\* sent all of it that the upstream's protocol can say (openAIToAnthropicRequest,
\* parseAnthropicRequest, buildFusionBody).
THEOREM RequestKept == Spec => []RequestFaithful
<1>1. IInv => RequestFaithful
  BY DEF IInv
<1> QED
  BY InitIInv, NextIInv, <1>1, PTL DEF Spec

\* Whatever an upstream answers, its consumer is told that, in its own protocol
\* (anthropicToOpenAIResponse, translateCompletionToAnthropic, anthropicErrorBody).
THEOREM ReplyKept == Spec => []ReplyFaithful
<1>1. IInv => ReplyFaithful
  BY DEF IInv
<1> QED
  BY InitIInv, NextIInv, <1>1, PTL DEF Spec
==============================================================================
