---------------------------- MODULE Monitor_proofs ----------------------------
(***************************************************************************)
(* Proofs about the health loop, for every fleet, every buffer and every   *)
(* latency window.                                                         *)
(***************************************************************************)
EXTENDS Monitor, FiniteSetTheorems, TLAPS

------------------------------------------------------------------------------
(* The median. *)

\* The samples that come before sample i in the sorted copy.
Before(h, i) == {j \in DOMAIN h : h[j] < h[i] \/ (h[j] = h[i] /\ j < i)}

\* A sequence has as many positions as its length says.
LEMMA IntervalSize ==
  ASSUME NEW n \in Nat
  PROVE  /\ IsFiniteSet(1..n) /\ Cardinality(1..n) = n
         /\ IsFiniteSet(0..(n - 1)) /\ Cardinality(0..(n - 1)) = n
<1>1. 1 \in Int /\ 0 \in Int /\ n \in Int /\ n - 1 \in Int
  OBVIOUS
<1>2. IsFiniteSet(1..n) /\ Cardinality(1..n) = IF 1 > n THEN 0 ELSE n - 1 + 1
  BY <1>1, FS_Interval
<1>3. IsFiniteSet(0..(n - 1)) /\ Cardinality(0..(n - 1)) = IF 0 > n - 1 THEN 0 ELSE (n - 1) - 0 + 1
  BY <1>1, FS_Interval
<1> QED
  BY <1>2, <1>3

\* Any set of positions is finite and no larger than the sequence is long.
LEMMA BeforeFinite ==
  ASSUME NEW h \in Seq(Nat), NEW T \in SUBSET DOMAIN h
  PROVE  /\ IsFiniteSet(T)
         /\ Cardinality(T) \in Nat
         /\ Cardinality(T) <= Len(h)
<1>1. DOMAIN h = 1..Len(h) /\ Len(h) \in Nat
  OBVIOUS
<1>2. IsFiniteSet(1..Len(h)) /\ Cardinality(1..Len(h)) = Len(h)
  BY <1>1, IntervalSize
<1> QED
  BY <1>1, <1>2, FS_Subset, FS_CardinalityType

\* Two samples never have the same rank.
LEMMA RankOrders ==
  ASSUME NEW h \in Seq(Nat), NEW i \in DOMAIN h, NEW k \in DOMAIN h,
         h[i] < h[k] \/ (h[i] = h[k] /\ i < k)
  PROVE  Rank(h, i) < Rank(h, k)
<1>1. \A j \in DOMAIN h : h[j] \in Nat /\ j \in Nat
  OBVIOUS
<1>2. Before(h, i) \cup {i} \subseteq Before(h, k) /\ i \notin Before(h, i)
  BY <1>1 DEF Before
<1>3. /\ IsFiniteSet(Before(h, i)) /\ Cardinality(Before(h, i)) \in Nat
      /\ IsFiniteSet(Before(h, k)) /\ Cardinality(Before(h, k)) \in Nat
  BY BeforeFinite DEF Before
<1>4. Cardinality(Before(h, i) \cup {i}) = Cardinality(Before(h, i)) + 1
  BY <1>2, <1>3, FS_AddElement
<1>5. Cardinality(Before(h, i) \cup {i}) <= Cardinality(Before(h, k))
  BY <1>2, <1>3, FS_Subset
<1> QED
  BY <1>3, <1>4, <1>5 DEF Rank, Before

\* Every place in the sorted copy is taken.
LEMMA RankOnto ==
  ASSUME NEW h \in Seq(Nat), NEW m \in 0..(Len(h) - 1)
  PROVE  \E i \in DOMAIN h : Rank(h, i) = m
<1> DEFINE S == DOMAIN h
           T == 0..(Len(h) - 1)
           f == [i \in S |-> Rank(h, i)]
<1>1. S = 1..Len(h) /\ Len(h) \in Nat /\ \A j \in S : h[j] \in Nat /\ j \in Nat
  OBVIOUS
<1>2. /\ IsFiniteSet(S) /\ Cardinality(S) = Len(h)
      /\ IsFiniteSet(T) /\ Cardinality(T) = Len(h)
  BY <1>1, IntervalSize
<1>3. ASSUME NEW i \in S
      PROVE  Rank(h, i) \in T
  <2>1. Before(h, i) \subseteq S \ {i}
    BY <1>1 DEF Before
  <2>2. IsFiniteSet(S \ {i}) /\ Cardinality(S \ {i}) = Len(h) - 1
    BY <1>2, FS_RemoveElement
  <2>3. Cardinality(Before(h, i)) \in Nat /\ Cardinality(Before(h, i)) <= Len(h) - 1
    BY <2>1, <2>2, FS_Subset, FS_CardinalityType
  <2> QED
    BY <1>1, <2>3 DEF Rank, Before
<1>4. ASSUME NEW i \in S, NEW k \in S, i # k
      PROVE  Rank(h, i) # Rank(h, k)
  <2>1. \/ h[i] < h[k] \/ (h[i] = h[k] /\ i < k)
        \/ h[k] < h[i] \/ (h[k] = h[i] /\ k < i)
    BY <1>1, <1>4
  <2>2. Rank(h, i) < Rank(h, k) \/ Rank(h, k) < Rank(h, i)
    BY <2>1, RankOrders
  <2> QED
    BY <1>1, <1>3, <2>2
<1>5. f \in Injection(S, T)
  BY <1>3, <1>4 DEF Injection, IsInjective
<1>6. f \in Surjection(S, T)
  BY <1>2, <1>5, FS_Injection
<1> QED
  BY <1>6 DEF Surjection

\* What Median returns, whatever the samples.
LEMMA MedianIs ==
  ASSUME NEW h \in Seq(Nat)
  PROVE  /\ h = <<>> => Median(h) = 0
         /\ h # <<>> => \E i \in DOMAIN h : Rank(h, i) = Len(h) \div 2 /\ Median(h) = h[i]
         /\ Median(h) \in Nat
<1>1. CASE h = <<>>
  BY <1>1 DEF Median
<1>2. CASE h # <<>>
  <2>1. Len(h) \in Nat /\ Len(h) # 0
    BY <1>2
  <2>2. Len(h) \div 2 \in 0..(Len(h) - 1)
    BY <2>1
  <2>3. \E i \in DOMAIN h : Rank(h, i) = Len(h) \div 2
    BY <2>2, RankOnto
  <2> DEFINE i == CHOOSE j \in DOMAIN h : Rank(h, j) = Len(h) \div 2
  <2>4. i \in DOMAIN h /\ Rank(h, i) = Len(h) \div 2 /\ Median(h) = h[i]
    BY <1>2, <2>3 DEF Median
  <2> HIDE DEF i
  <2> QED
    BY <1>2, <2>4
<1> QED
  BY <1>1, <1>2

\* More than half of the samples are no larger than the median, and at least
\* half are no smaller.
LEMMA MedianSplits ==
  ASSUME NEW h \in Seq(Nat), h # <<>>
  PROVE  /\ \E i \in DOMAIN h : h[i] = Median(h)
         /\ 2 * Cardinality({i \in DOMAIN h : h[i] <= Median(h)}) > Len(h)
         /\ 2 * Cardinality({i \in DOMAIN h : h[i] >= Median(h)}) >= Len(h)
<1>1. PICK i \in DOMAIN h : Rank(h, i) = Len(h) \div 2 /\ Median(h) = h[i]
  BY MedianIs
<1> DEFINE low  == {j \in DOMAIN h : h[j] <= Median(h)}
           high == {j \in DOMAIN h : h[j] >= Median(h)}
           rest == DOMAIN h \ Before(h, i)
<1>2. /\ DOMAIN h = 1..Len(h) /\ Len(h) \in Nat
      /\ \A j \in DOMAIN h : h[j] \in Nat /\ j \in Nat
  OBVIOUS
<1>3. /\ IsFiniteSet(DOMAIN h) /\ Cardinality(DOMAIN h) = Len(h)
      /\ IsFiniteSet(Before(h, i)) /\ Cardinality(Before(h, i)) = Len(h) \div 2
      /\ IsFiniteSet(low) /\ Cardinality(low) \in Nat
      /\ IsFiniteSet(high) /\ Cardinality(high) \in Nat
      /\ IsFiniteSet(rest) /\ Cardinality(rest) \in Nat
  <2>1. IsFiniteSet(DOMAIN h) /\ Cardinality(DOMAIN h) = Len(h)
    BY <1>2, IntervalSize
  <2>2. IsFiniteSet(Before(h, i)) /\ Cardinality(Before(h, i)) = Len(h) \div 2
    BY <1>1, BeforeFinite DEF Rank, Before
  <2>3. /\ IsFiniteSet(low) /\ Cardinality(low) \in Nat
        /\ IsFiniteSet(high) /\ Cardinality(high) \in Nat
        /\ IsFiniteSet(rest) /\ Cardinality(rest) \in Nat
    BY BeforeFinite
  <2> QED
    BY <2>1, <2>2, <2>3
<1>4. Cardinality(low) >= Len(h) \div 2 + 1
  <2>1. Before(h, i) \cup {i} \subseteq low /\ i \notin Before(h, i)
    BY <1>1, <1>2 DEF Before
  <2>2. Cardinality(Before(h, i) \cup {i}) = Len(h) \div 2 + 1
    BY <1>2, <1>3, <2>1, FS_AddElement
  <2> QED
    BY <1>3, <2>1, <2>2, FS_Subset
<1>5. Cardinality(high) >= Len(h) - Len(h) \div 2
  <2>1. rest \subseteq high
    BY <1>1, <1>2 DEF Before
  <2>2. DOMAIN h = Before(h, i) \cup rest /\ Before(h, i) \cap rest = {}
    BY DEF Before
  <2>3. Cardinality(DOMAIN h) = Cardinality(Before(h, i)) + Cardinality(rest)
    <3>1. Cardinality(Before(h, i) \cup rest) =
            Cardinality(Before(h, i)) + Cardinality(rest) - Cardinality(Before(h, i) \cap rest)
      BY <1>3, FS_Union
    <3>2. Cardinality(Before(h, i) \cap rest) = 0
      BY <2>2, FS_EmptySet
    <3>3. Cardinality(Before(h, i)) \in Nat
      BY <1>3, FS_CardinalityType
    <3> HIDE DEF rest
    <3> QED
      BY <1>3, <2>2, <3>1, <3>2, <3>3
  <2>4. Cardinality(rest) <= Cardinality(high)
    BY <1>3, <2>1, FS_Subset
  <2> HIDE DEF rest, high
  <2> QED
    BY <1>2, <1>3, <2>3, <2>4
<1>6. \E j \in DOMAIN h : h[j] = Median(h)
  BY <1>1
<1> HIDE DEF low, high
<1>7. 2 * Cardinality(low) > Len(h) /\ 2 * Cardinality(high) >= Len(h)
  BY <1>2, <1>3, <1>4, <1>5
<1> QED
  BY <1>6, <1>7 DEF low, high

------------------------------------------------------------------------------
(* The invariant of the loop. *)

\* The published latency signal is that of the remembered samples, and nothing
\* is in rotation without one.
Measured ==
  \A b \in Backends :
    /\ snap[b].p50 = Median(history[b])
    /\ history[b] = <<>> => ~snap[b].healthy

IInv == TypeOK /\ Measured

\* The window keeps its bound, and a sample that joined it stays for a while.
LEMMA RecentIs ==
  ASSUME NEW h \in Seq(Nat), Len(h) <= LatencyWindow, NEW l \in Nat
  PROVE  /\ Recent(h, l) \in Seq(Nat)
         /\ Len(Recent(h, l)) <= LatencyWindow
         /\ Recent(h, l) # <<>>
<1> DEFINE longer == Append(h, l)
<1>1. LatencyWindow \in Nat /\ LatencyWindow >= 1
  BY MonitorAssumption
<1>2. longer \in Seq(Nat) /\ Len(longer) = Len(h) + 1 /\ Len(h) \in Nat
  OBVIOUS
<1>3. Recent(h, l) = IF Len(longer) > LatencyWindow THEN Tail(longer) ELSE longer
  BY DEF Recent
<1> HIDE DEF longer
<1>4. CASE Len(longer) > LatencyWindow
  <2>1. longer # <<>>
    BY <1>2
  <2>2. Tail(longer) \in Seq(Nat) /\ Len(Tail(longer)) = Len(h)
    BY <1>2, <2>1
  <2>3. Len(Tail(longer)) >= 1
    BY <1>1, <1>2, <1>4, <2>2
  <2>4. \A t \in Seq(Nat) : Len(t) >= 1 => t # <<>>
    OBVIOUS
  <2> QED
    BY <1>3, <1>4, <2>2, <2>3, <2>4, h \in Seq(Nat), Len(h) <= LatencyWindow
<1>5. CASE ~(Len(longer) > LatencyWindow)
  BY <1>1, <1>2, <1>3, <1>5
<1> QED
  BY <1>4, <1>5

\* What one probe's result makes of a backend: a well-formed state whose latency
\* signal is the window's, a catalog that only a successful probe replaces.
LEMMA FoldIs ==
  ASSUME NEW old \in BackendState, NEW h \in Seq(Nat), Len(h) <= LatencyWindow,
         NEW res \in ProbeResult
  PROVE  /\ Fold(old, h, res) \in BackendState
         /\ FoldHistory(h, res) \in Seq(Nat)
         /\ Len(FoldHistory(h, res)) <= LatencyWindow
         /\ Fold(old, h, res).p50 = Median(FoldHistory(h, res))
         /\ FoldHistory(h, res) = <<>> => ~Fold(old, h, res).healthy
         /\ Fold(old, h, res).models # old.models => Fold(old, h, res).healthy
<1>1. /\ res.healthy \in BOOLEAN /\ res.models \in SUBSET Models
      /\ res.latency \in Nat /\ res.inFlight \in Nat
  BY DEF ProbeResult
<1>2. /\ FoldHistory(h, res) \in Seq(Nat)
      /\ Len(FoldHistory(h, res)) <= LatencyWindow
      /\ res.healthy => FoldHistory(h, res) # <<>>
  BY <1>1, RecentIs DEF FoldHistory
<1>3. Median(FoldHistory(h, res)) \in Nat
  BY <1>2, MedianIs
<1> DEFINE p == Median(FoldHistory(h, res))
           ms == IF res.healthy THEN res.models ELSE old.models
<1>4. ms \in SUBSET Models
  BY <1>1 DEF BackendState
<1>5. Fold(old, h, res) = [healthy |-> res.healthy, models |-> ms, p50 |-> p,
                           inFlight |-> res.inFlight]
  BY DEF Fold
<1>6. p \in Nat
  BY <1>3
<1> HIDE DEF p, ms
<1>7. /\ Fold(old, h, res) \in BackendState
      /\ Fold(old, h, res).p50 = p
      /\ Fold(old, h, res).healthy = res.healthy
      /\ Fold(old, h, res).models = ms
  BY <1>1, <1>4, <1>5, <1>6 DEF BackendState
<1> USE DEF p, ms
<1> QED
  BY <1>1, <1>2, <1>7

\* The invariant holds before the first probe.
LEMMA InitIInv == Init => IInv
<1> SUFFICES ASSUME Init PROVE IInv
  OBVIOUS
<1>1. snap \in Snapshot
  BY DEF Init, EmptySnapshot, Unprobed, Snapshot, BackendState
<1>2. results \in [Backends -> ProbeResult]
  BY DEF Init, NoAnswer, ProbeResult
<1>3. \A b \in Backends : history[b] = <<>>
  BY DEF Init
<1>4. Median(<<>>) = 0
  BY DEF Median
<1>5. \A b \in Backends : snap[b].p50 = 0 /\ ~snap[b].healthy
  BY DEF Init, EmptySnapshot, Unprobed
<1>6. Measured
  BY <1>3, <1>4, <1>5 DEF Measured
<1>7. history \in [Backends -> Seq(Nat)] /\ \A b \in Backends : Len(history[b]) <= LatencyWindow
  BY MonitorAssumption, <1>3 DEF Init
<1>8. suspect \in Seq(Backends) /\ Len(suspect) <= SuspectBuffer
  BY MonitorAssumption DEF Init
<1> QED
  BY <1>1, <1>2, <1>6, <1>7, <1>8 DEF Init, IInv, TypeOK

\* A round that is published measures every backend it probed and leaves the
\* others as they were.
LEMMA PublishIInv ==
  ASSUME IInv, Publish
  PROVE  IInv' /\ \A b \in Backends : snap'[b].models # snap[b].models => snap'[b].healthy
<1>1. \A b \in Backends : /\ snap[b] \in BackendState /\ history[b] \in Seq(Nat)
                          /\ Len(history[b]) <= LatencyWindow /\ results[b] \in ProbeResult
                          /\ snap[b].p50 = Median(history[b])
                          /\ history[b] = <<>> => ~snap[b].healthy
  BY DEF IInv, TypeOK, Measured, Snapshot
<1>2. ASSUME NEW b \in Backends
      PROVE  /\ snap'[b] \in BackendState /\ history'[b] \in Seq(Nat)
             /\ Len(history'[b]) <= LatencyWindow
             /\ snap'[b].p50 = Median(history'[b])
             /\ history'[b] = <<>> => ~snap'[b].healthy
             /\ snap'[b].models # snap[b].models => snap'[b].healthy
  <2>1. CASE b \in targets
    <3>1. /\ snap'[b] = Fold(snap[b], history[b], results[b])
          /\ history'[b] = FoldHistory(history[b], results[b])
      BY <2>1 DEF Publish
    <3>2. PICK old \in BackendState, h \in Seq(Nat), res \in ProbeResult :
            old = snap[b] /\ h = history[b] /\ res = results[b] /\ Len(h) <= LatencyWindow
      BY <1>1
    <3> QED
      BY <3>1, <3>2, FoldIs
  <2>2. CASE b \notin targets
    <3>1. snap'[b] = snap[b] /\ history'[b] = history[b]
      BY <2>2 DEF Publish
    <3> QED
      BY <1>1, <3>1
  <2> QED
    BY <2>1, <2>2
<1>3. Measured'
  BY <1>2 DEF Measured
<1>4. snap' \in Snapshot
  BY <1>2 DEF Publish, Snapshot
<1>5. history' \in [Backends -> Seq(Nat)]
  BY <1>2 DEF Publish
<1>6. results' \in [Backends -> ProbeResult]
  BY DEF Publish, NoAnswer, ProbeResult
<1>7. TypeOK'
  BY <1>2, <1>4, <1>5, <1>6 DEF Publish, IInv, TypeOK
<1> QED
  BY <1>2, <1>3, <1>7 DEF IInv

\* Every step preserves the invariant, and none but a published round touches the
\* snapshot.
LEMMA StepIInv ==
  ASSUME IInv, [Next]_vars
  PROVE  IInv' /\ \A b \in Backends : snap'[b].models # snap[b].models => snap'[b].healthy
<1> USE DEF IInv
<1>1. ASSUME UNCHANGED <<snap, history>>, TypeOK'
      PROVE  IInv' /\ \A b \in Backends : snap'[b].models # snap[b].models => snap'[b].healthy
  BY <1>1 DEF Measured
<1>2. CASE TakeTick
  BY <1>1, <1>2 DEF TakeTick, StartRound, TypeOK
<1>3. CASE TakeSuspect
  <2>1. Head(suspect) \in Backends /\ Tail(suspect) \in Seq(Backends)
        /\ Len(Tail(suspect)) <= SuspectBuffer
    BY <1>3, MonitorAssumption DEF TakeSuspect, TypeOK
  <2>2. TypeOK'
    BY <1>3, <2>1 DEF TakeSuspect, StartRound, TypeOK
  <2> QED
    BY <1>1, <1>3, <2>2 DEF TakeSuspect, StartRound
<1>4. CASE Stop
  BY <1>1, <1>4 DEF Stop, TypeOK
<1>5. CASE Publish
  BY <1>5, PublishIInv
<1>6. ASSUME NEW b \in Backends, ProbeEnds(b)
      PROVE  IInv' /\ \A c \in Backends : snap'[c].models # snap[c].models => snap'[c].healthy
  <2>1. ASSUME NEW res \in ProbeOutcomes(b)
        PROVE  res \in ProbeResult
    <3>1. \/ \E ms \in SUBSET Models, l \in Latencies, n \in Loads :
              res = [healthy |-> TRUE, models |-> ms, latency |-> l, inFlight |-> n]
          \/ \E n \in Loads : res = [NoAnswer EXCEPT !.inFlight = n]
      BY <2>1 DEF ProbeOutcomes
    <3>2. Latencies \subseteq Nat /\ Loads \subseteq Nat
      BY MonitorAssumption
    <3>3. CASE \E ms \in SUBSET Models, l \in Latencies, n \in Loads :
                 res = [healthy |-> TRUE, models |-> ms, latency |-> l, inFlight |-> n]
      BY <3>2, <3>3 DEF ProbeResult
    <3>4. ASSUME NEW n \in Loads, res = [NoAnswer EXCEPT !.inFlight = n]
          PROVE  res \in ProbeResult
      <4>1. res = [healthy |-> FALSE, models |-> {}, latency |-> 0, inFlight |-> n]
        BY <3>4 DEF NoAnswer
      <4> QED
        BY <3>2, <4>1 DEF ProbeResult
    <3> QED
      BY <3>1, <3>3, <3>4
  <2>2. results' \in [Backends -> ProbeResult]
    BY <1>6, <2>1 DEF ProbeEnds, TypeOK
  <2>3. TypeOK'
    BY <1>6, <2>2 DEF ProbeEnds, TypeOK
  <2> QED
    BY <1>1, <1>6, <2>3 DEF ProbeEnds
<1>7. CASE Tick
  BY <1>1, <1>7 DEF Tick, loopVars, TypeOK
<1>8. CASE Shutdown
  BY <1>1, <1>8 DEF Shutdown, loopVars, TypeOK
<1>9. ASSUME NEW b \in Backends, Suspect(b)
      PROVE  IInv' /\ \A c \in Backends : snap'[c].models # snap[c].models => snap'[c].healthy
  <2>1. suspect' \in Seq(Backends) /\ Len(suspect') <= SuspectBuffer
    <3>1. suspect \in Seq(Backends) /\ Len(suspect) <= SuspectBuffer /\ SuspectBuffer \in Nat
      BY MonitorAssumption DEF TypeOK
    <3>2. suspect' = suspect \/ (Len(suspect) < SuspectBuffer /\ suspect' = Append(suspect, b))
      BY <1>9 DEF Suspect
    <3> QED
      BY <3>1, <3>2
  <2>2. lost' \subseteq Backends
    BY <1>9 DEF Suspect, TypeOK
  <2>3. TypeOK'
    BY <1>9, <2>1, <2>2 DEF Suspect, loopVars, TypeOK
  <2> QED
    BY <1>1, <1>9, <2>3 DEF Suspect, loopVars
<1>10. ASSUME NEW b \in Backends, Change(b)
       PROVE  IInv' /\ \A c \in Backends : snap'[c].models # snap[c].models => snap'[c].healthy
  BY <1>1, <1>10 DEF Change, loopVars, TypeOK
<1>11. CASE UNCHANGED vars
  BY <1>1, <1>11 DEF vars, loopVars, TypeOK
<1> QED
  BY <1>2, <1>3, <1>4, <1>5, <1>6, <1>7, <1>8, <1>9, <1>10, <1>11 DEF Next, Loop

------------------------------------------------------------------------------
\* The invariant holds in every reachable state, whatever the backends, the
\* buffer of suspects and the window.
THEOREM Invariance == Spec => []IInv
<1>1. Init => IInv
  BY InitIInv
<1>2. IInv /\ [Next]_vars => IInv'
  BY StepIInv
<1> QED
  BY <1>1, <1>2, PTL DEF Spec

\* The suspect channel and the latency windows keep their bounds, and every
\* snapshot that is published is well formed.
THEOREM TypeCorrect == Spec => []TypeOK
<1>1. IInv => TypeOK
  BY DEF IInv
<1> QED
  BY <1>1, Invariance, PTL

\* probeAll and fold: the latency signal of a backend is the upper median of its
\* remembered probes, and a backend in rotation has at least one.
THEOREM SignalIsMedian == Spec => []MedianOfWindow
<1>1. ASSUME IInv PROVE MedianOfWindow
  <2> SUFFICES ASSUME NEW b \in Backends
               PROVE  LET h == history[b]
                      IN IF h = <<>> THEN snap[b].p50 = 0 /\ ~snap[b].healthy
                         ELSE /\ \E i \in DOMAIN h : h[i] = snap[b].p50
                              /\ 2 * Cardinality({i \in DOMAIN h : h[i] <= snap[b].p50}) > Len(h)
                              /\ 2 * Cardinality({i \in DOMAIN h : h[i] >= snap[b].p50}) >= Len(h)
    BY DEF MedianOfWindow
  <2>1. /\ snap[b].p50 = Median(history[b])
        /\ history[b] = <<>> => ~snap[b].healthy
        /\ history[b] \in Seq(Nat)
    BY <1>1 DEF IInv, TypeOK, Measured
  <2>2. PICK h \in Seq(Nat) : h = history[b]
    BY <2>1
  <2>3. h = <<>> => Median(h) = 0
    BY MedianIs
  <2>4. h # <<>> => /\ \E i \in DOMAIN h : h[i] = Median(h)
                    /\ 2 * Cardinality({i \in DOMAIN h : h[i] <= Median(h)}) > Len(h)
                    /\ 2 * Cardinality({i \in DOMAIN h : h[i] >= Median(h)}) >= Len(h)
    BY MedianSplits
  <2>5. snap[b].p50 = Median(h) /\ (h = <<>> => ~snap[b].healthy)
    BY <2>1, <2>2
  <2>6. CASE h = <<>>
    BY <2>2, <2>3, <2>5, <2>6
  <2>7. CASE h # <<>>
    BY <2>2, <2>4, <2>5, <2>7
  <2> QED
    BY <2>6, <2>7
<1> QED
  BY <1>1, Invariance, PTL

\* fold: only a successful probe replaces what is known of a backend's models.
THEOREM CatalogKept == Spec => CatalogSurvives
<1>1. IInv /\ [Next]_vars =>
        [\A b \in Backends : snap'[b].models # snap[b].models => snap'[b].healthy]_vars
  BY StepIInv
<1> QED
  BY <1>1, Invariance, PTL DEF Spec, CatalogSurvives

------------------------------------------------------------------------------
\* The first round is over every backend.
BootAll == phase = "boot" => targets = Backends

RInv == IInv /\ BootAll

LEMMA StepRInv == RInv /\ [Next]_vars => RInv'
<1> SUFFICES ASSUME RInv, [Next]_vars PROVE RInv'
  OBVIOUS
<1>1. IInv'
  BY StepIInv DEF RInv
<1>2. BootAll'
  BY DEF RInv, BootAll, Next, Loop, TakeTick, TakeSuspect, Stop, Publish, ProbeEnds, Tick, Shutdown,
         Suspect, Change, StartRound, vars, loopVars
<1> QED
  BY <1>1, <1>2 DEF RInv

\* A round that begins is one of the promise's.
LEMMA RoundBegins ==
  ASSUME RInv, phase = "select", NEW S \in HL!Rounds, StartRound(S)
  PROVE  HL!Begin(S)
<1>1. targets = {} /\ waiting = {}
  BY DEF RInv, IInv, TypeOK
<1> QED
  BY <1>1 DEF StartRound, HL!Begin

\* What is published of a round decides about its backends by their answers.
LEMMA RoundEnds ==
  ASSUME RInv, Publish
  PROVE  HL!Decide \/ UNCHANGED HL!healthVars
<1>1. \A b \in Backends : snap'[b].healthy = IF b \in targets THEN results[b].healthy ELSE snap[b].healthy
  BY DEF Publish, Fold
<1>2. targets \subseteq Backends
  BY DEF RInv, IInv, TypeOK
<1>3. phase' = "select" /\ targets' = {} /\ waiting = {} /\ waiting' = waiting /\ running' = running
      /\ phase \in {"boot", "probing"}
  BY DEF Publish
<1>4. phase = "boot" => targets = Backends
  BY DEF RInv, BootAll
<1>5. CASE targets = {}
  <2>1. {b \in Backends : snap'[b].healthy} = {b \in Backends : snap[b].healthy}
    BY <1>1, <1>5
  <2> QED
    BY <1>3, <1>4, <1>5, <2>1 DEF HL!healthVars, HL!roundVars
<1>6. CASE targets # {}
  <2>1. {b \in Backends : snap'[b].healthy}
          = ({b \in Backends : snap[b].healthy} \ targets) \cup {b \in targets \ waiting : results[b].healthy}
    BY <1>1, <1>2, <1>3
  <2>2. {b \in targets' \ waiting' : results'[b].healthy} = {}
    BY <1>3
  <2>3. Backends = (IF phase = "boot" THEN {} ELSE Backends) \cup targets
    BY <1>2, <1>4
  <2> QED
    BY <1>3, <1>6, <2>1, <2>2, <2>3 DEF HL!Decide
<1> QED
  BY <1>5, <1>6

\* Each step of the loop, of the request path and of the world is a step of the
\* promise or leaves what it is about alone.
LEMMA RoundStep ==
  ASSUME RInv, [Next]_vars
  PROVE  [HL!LoopNext \/ HL!CancelRoot]_HL!healthVars
<1>1. CASE TakeTick
  <2>1. Backends \in HL!Rounds
    BY DEF HL!Rounds
  <2> QED
    BY <1>1, <2>1, RoundBegins DEF TakeTick, HL!LoopNext
<1>2. CASE TakeSuspect
  <2>1. Head(suspect) \in Backends
    BY <1>2 DEF TakeSuspect, RInv, IInv, TypeOK
  <2>2. {Head(suspect)} \in HL!Rounds
    BY <2>1 DEF HL!Rounds
  <2> QED
    BY <1>2, <2>2, RoundBegins DEF TakeSuspect, HL!LoopNext
<1>3. CASE Stop
  <2>1. targets = {}
    BY <1>3 DEF Stop, RInv, IInv, TypeOK
  <2>2. HL!StopLoop
    BY <1>3, <2>1 DEF Stop, HL!StopLoop, HL!roundVars
  <2> QED
    BY <2>2 DEF HL!LoopNext
<1>4. CASE Publish
  BY <1>4, RoundEnds DEF HL!LoopNext
<1>5. ASSUME NEW b \in Backends, ProbeEnds(b)
      PROVE  HL!ProbeEnds(b)
  <2>1. PICK res : results' = [results EXCEPT ![b] = res]
    BY <1>5 DEF ProbeEnds
  <2>2. waiting \subseteq targets /\ targets \subseteq Backends /\ results \in [Backends -> ProbeResult]
    BY DEF RInv, IInv, TypeOK
  <2>3. results'[b] = res /\ \A c \in Backends \ {b} : results'[c] = results[c]
    BY <2>1, <2>2
  <2>4. /\ b \in waiting /\ waiting' = waiting \ {b} /\ targets' = targets
        /\ phase' = phase /\ running' = running /\ snap' = snap
    BY <1>5 DEF ProbeEnds
  <2> DEFINE heard == {c \in targets \ waiting : results[c].healthy}
  <2>5. {c \in targets' \ waiting' : results'[c].healthy} \in {heard, heard \cup {b}}
    <3>1. CASE res.healthy
      BY <2>2, <2>3, <2>4, <3>1
    <3>2. CASE ~res.healthy
      BY <2>2, <2>3, <2>4, <3>2
    <3> QED
      BY <3>1, <3>2
  <2> QED
    BY <2>4, <2>5 DEF HL!ProbeEnds
<1>6. CASE Shutdown
  BY <1>6 DEF Shutdown, loopVars, HL!CancelRoot, HL!roundVars
<1>7. CASE UNCHANGED <<loopVars, running>>
  BY <1>7 DEF loopVars, HL!healthVars, HL!roundVars
<1>8. Tick \/ (\E b \in Backends : Suspect(b) \/ Change(b)) \/ UNCHANGED vars
        => UNCHANGED <<loopVars, running>>
  BY DEF Tick, Suspect, Change, vars
<1> QED
  BY <1>1, <1>2, <1>3, <1>4, <1>5, <1>6, <1>7, <1>8 DEF Next, Loop, HL!LoopNext

\* The health loop implements HealthLoop for every fleet, suspect buffer and window:
\* a round changes the health of the backends it asked, by what they answered, and
\* of no other.  What Service relies on is what the loop does.
THEOREM KeepsPromise == Spec => RoundsDecide
<1>1. Init => HL!HealthInit
  BY DEF Init, EmptySnapshot, Unprobed, HL!HealthInit
<1>2. Init => RInv
  BY InitIInv DEF Init, RInv, BootAll
<1>3. RInv /\ [Next]_vars => [HL!LoopNext \/ HL!CancelRoot]_HL!healthVars
  BY RoundStep
<1> QED
  BY <1>1, <1>2, <1>3, StepRInv, PTL DEF Spec, RoundsDecide, HL!HealthSpec
==============================================================================
