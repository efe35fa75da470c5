----------------------------- MODULE Stream_proofs -----------------------------
(***************************************************************************)
(* Proofs about one streaming call, for every set of paths and every bound *)
(* on the records an upstream sends.                                       *)
(*                                                                         *)
(* IInv is the inductive invariant.  Its core is ReceivedAsSent(kinds): as long   *)
(* as the client is there, what it received of the records of those kinds  *)
(* is what the upstream sent of them, but for the one that is queued.  The *)
(* rest says what the queue, the sink's memory and the wire can hold at    *)
(* each point of the relay loop.                                           *)
(***************************************************************************)
EXTENDS Stream, Ascending_proofs

Carriers == {"raw", "chunk", "content_block_delta"}

\* The positions of the events that carry a record of the given kinds, and
\* those of the records themselves.
Carrying(kinds) == {k \in DOMAIN wire : wire[k].name \in Carriers /\ sent[wire[k].n].kind \in kinds}
Saying(kinds)   == {i \in DOMAIN sent : sent[i].kind \in kinds}

Got(kinds) == Numbers(wire, Carrying(kinds))

Queued(kinds) == queue # <<>> /\ Head(queue).kind \in kinds

\* The kinds of records that pass through the call unharmed.
Followed(kinds) ==
  \/ Raw /\ kinds = AllKinds
  \/ ~Raw /\ kinds = {"text"}
  \/ path.consumer = "openai" /\ path.provider = "openai" /\ kinds = Spoken

ReceivedAsSent(kinds) ==
  /\ IsPrefixOf(Got(kinds), Due(kinds))
  /\ client = "here" =>
       Due(kinds) = IF Queued(kinds) THEN Append(Got(kinds), Head(queue).n) ELSE Got(kinds)

\* The records are numbered, and at most the last one is queued, or the [DONE] of
\* the router's own reader.
Reading ==
  /\ \A i \in DOMAIN sent : sent[i].n = i
  /\ tail = "open" => Len(sent) <= MaxRecords
  /\ pc = "reading" => tail = "open" /\ queue = <<>>
  /\ queue # <<>> => \/ Translated /\ Head(queue) = Rec("done", 0)
                     \/ sent # <<>> /\ Head(queue) = sent[Len(sent)]
  /\ pc = "ended" /\ client = "here" => queue = <<>>

\* An error answer is not streamed; another one is not buffered.
Split ==
  /\ ~path.ok => /\ pc \in {"answered", "buffering", "ended"}
                 /\ wire = <<>> /\ sent = <<>> /\ queue = <<>> /\ ~started
  /\ path.ok => pc # "buffering"
  /\ pc = "answered" => wire = <<>> /\ ~started

\* Which events reach which consumer, and what they carry.
Written ==
  \A k \in DOMAIN wire :
    /\ wire[k].name = "raw" <=> Raw
    /\ path.consumer = "openai" => wire[k].name \in {"chunk", "[DONE]"}
    /\ path.consumer = "anthropic" => wire[k].name # "chunk"
    /\ wire[k].name \in Carriers =>
         /\ wire[k].n \in DOMAIN sent
         /\ wire[k].name # "raw" => sent[wire[k].n].kind \in Spoken

\* The sink knows whether it opened the message.
Opened ==
  path.consumer = "anthropic" /\ ~Raw /\ client = "here" /\ pc # "ended" =>
    (started <=> wire # <<>>)

\* n is the last finish reason the upstream gave, 0 for none.
IsLastStop(n) ==
  \/ n = 0 /\ Saying({"stop"}) = {}
  \/ n \in Saying({"stop"}) /\ \A i \in Saying({"stop"}) : i <= n

\* The sink remembers the last finish reason that it was handed, and tells it at
\* the end.
Remembers ==
  path.consumer = "anthropic" /\ ~Raw =>
    /\ pc # "ended" /\ ~Queued({"stop"}) => IsLastStop(stop)
    /\ \A k \in DOMAIN wire :
         wire[k].name = "message_delta" => pc = "ended" /\ IsLastStop(wire[k].n)

IInv ==
  /\ TypeOK /\ Reading /\ Split /\ Written /\ Opened /\ Remembers
  /\ \A kinds \in {AllKinds, Spoken, {"text"}} : Followed(kinds) => ReceivedAsSent(kinds)

------------------------------------------------------------------------------
\* Places of a sequence are finitely many naturals.
LEMMA PlacesFinite ==
  ASSUME NEW n \in Nat, NEW P \in SUBSET (1..n)
  PROVE  P \in SUBSET Nat /\ IsFiniteSet(P) /\ Cardinality(P) \in Nat
<1>1. 1 \in Int /\ n \in Int
  OBVIOUS
<1>2. IsFiniteSet(1..n)
  BY <1>1, FS_Interval
<1>3. IsFiniteSet(P) /\ Cardinality(P) \in Nat
  BY <1>2, FS_Subset, FS_CardinalityType
<1> QED
  BY <1>3

\* What more of a sequence does to the numbers at places before it, ...
LEMMA NumbersKept ==
  ASSUME NEW S, NEW s \in Seq(S), NEW t \in Seq(S), NEW P \in SUBSET (1..Len(s))
  PROVE  Numbers(s \o t, P) = Numbers(s, P)
<1>1. Len(s) \in Nat
  OBVIOUS
<1>2. P \in SUBSET Nat /\ IsFiniteSet(P)
  BY <1>1, PlacesFinite
<1> DEFINE A == Ascending(P)
<1>3. /\ DOMAIN A = 1..Cardinality(P)
      /\ \A k \in DOMAIN A : A[k] \in P
  BY <1>2, AscendingLists, AscendingAt
<1> HIDE DEF A
<1>4. \A k \in DOMAIN A : (s \o t)[A[k]] = s[A[k]]
  <2>1. \A i \in 1..Len(s) : (s \o t)[i] = s[i]
    BY <1>1
  <2>2. \A k \in DOMAIN A : A[k] \in 1..Len(s)
    BY <1>3
  <2> QED
    BY <2>1, <2>2
<1> QED
  BY <1>4 DEF Numbers, A

\* ... and to those at its new end as well.
LEMMA NumbersGrow ==
  ASSUME NEW S, NEW s \in Seq(S), NEW t \in Seq(S), t # <<>>, NEW P \in SUBSET (1..Len(s))
  PROVE  Numbers(s \o t, P \cup {Len(s) + Len(t)}) = Append(Numbers(s, P), t[Len(t)].n)
<1> DEFINE T == {e.n : e \in S}
           m == Len(s) + Len(t)
           A == Ascending(P)
           B == Ascending(P \cup {m})
           c == Cardinality(P)
           w == s \o t
           last == t[Len(t)].n
           N == Numbers(s, P)
           G == Numbers(w, P \cup {m})
<1>1. Len(s) \in Nat /\ Len(t) \in Nat /\ Len(t) # 0 /\ m \in Nat /\ m > Len(s)
  OBVIOUS
<1>2. P \in SUBSET Nat /\ IsFiniteSet(P) /\ c \in Nat /\ \A i \in P : i < m
  <2>1. P \in SUBSET Nat /\ IsFiniteSet(P)
    BY <1>1, PlacesFinite
  <2>2. \A i \in P : i <= Len(s) /\ i \in Nat
    BY <1>1
  <2> HIDE DEF m
  <2> QED
    BY <1>1, <2>1, <2>2, FS_CardinalityType
<1>3. /\ A \in Seq(P) /\ Len(A) = c /\ DOMAIN A = 1..c
      /\ \A k \in 1..c : A[k] \in P
  BY <1>2, AscendingLists, AscendingAt
<1>4. B = Append(A, m)
  BY <1>1, <1>2, AscendingAppends
<1>5. DOMAIN B = 1..(c + 1) /\ B[c + 1] = m /\ \A k \in 1..c : B[k] = A[k]
  <2> HIDE DEF A, B, c, m
  <2> QED
    BY <1>2, <1>3, <1>4
<1>6. \A k \in 1..c : s[A[k]].n \in T /\ w[A[k]].n = s[A[k]].n
  <2>1. \A k \in 1..c : A[k] \in 1..Len(s)
    BY <1>3
  <2> HIDE DEF A, c
  <2> QED
    BY <1>1, <2>1
<1>7. w[m].n = last /\ last \in T
  BY <1>1
<1>8. N = [k \in 1..c |-> s[A[k]].n]
  BY <1>3 DEF Numbers
<1>9. G = [k \in 1..(c + 1) |-> w[B[k]].n]
  BY <1>5 DEF Numbers
<1> HIDE DEF A, B, c, m, N, G, last, w, T
<1>10. N \in Seq(T) /\ Len(N) = c
  BY <1>2, <1>6, <1>8
<1>11. /\ G \in [1..(c + 1) -> T] /\ G[c + 1] = last
       /\ \A k \in 1..c : G[k] = N[k]
  <2>1. \A k \in 1..c : k \in 1..(c + 1) /\ G[k] = w[B[k]].n /\ w[B[k]].n = s[A[k]].n
    BY <1>2, <1>5, <1>6, <1>9
  <2>2. \A k \in 1..c : N[k] = s[A[k]].n /\ N[k] \in T
    BY <1>6, <1>8
  <2>3. \A k \in 1..c : G[k] = N[k] /\ G[k] \in T
    BY <2>1, <2>2
  <2>4. c + 1 \in 1..(c + 1) /\ G[c + 1] = last /\ last \in T
    BY <1>2, <1>5, <1>7, <1>9
  <2>5. \A k \in 1..(c + 1) : k \in 1..c \/ k = c + 1
    BY <1>2
  <2> QED
    BY <1>9, <2>3, <2>4, <2>5
<1>12. G \in Seq(T) /\ Len(G) = c + 1
  BY <1>2, <1>11
<1>13. G = Append(N, last)
  <2>1. last \in T
    BY <1>7
  <2>2. /\ Append(N, last) \in Seq(T) /\ Len(Append(N, last)) = c + 1
        /\ \A k \in 1..c : Append(N, last)[k] = N[k]
        /\ Append(N, last)[c + 1] = last
    BY <1>10, <2>1, AppendProperties
  <2>3. \A k \in 1..Len(G) : G[k] = Append(N, last)[k]
    BY <1>2, <1>11, <1>12, <2>2
  <2> QED
    BY <1>12, <2>2, <2>3, SeqEqual
<1> QED
  BY <1>10, <1>13 DEF N, G, last, m, w

\* The numbers at any places are naturals.
Numbered(S) == \A e \in S : e.n \in Nat

LEMMA NumbersTyped ==
  ASSUME NEW S, NEW s \in Seq(S), NEW P \in SUBSET (1..Len(s)), Numbered(S)
  PROVE  Numbers(s, P) \in Seq(Nat) /\ Len(Numbers(s, P)) = Cardinality(P)
<1> DEFINE A == Ascending(P)
           c == Cardinality(P)
<1>1. Len(s) \in Nat
  OBVIOUS
<1>2. P \in SUBSET Nat /\ IsFiniteSet(P) /\ c \in Nat
  BY <1>1, PlacesFinite
<1>3. DOMAIN A = 1..c /\ \A k \in 1..c : A[k] \in P
  BY <1>2, AscendingLists, AscendingAt
<1>4. Numbers(s, P) = [k \in 1..c |-> s[A[k]].n]
  BY <1>3 DEF Numbers
<1>5. \A k \in 1..c : s[A[k]].n \in Nat
  <2>1. \A k \in 1..c : A[k] \in 1..Len(s)
    BY <1>3
  <2> HIDE DEF A, c
  <2> QED
    BY <1>1, <2>1 DEF Numbered
<1> HIDE DEF A, c
<1>6. Numbers(s, P) \in [1..c -> Nat]
  BY <1>4, <1>5
<1>7. Numbers(s, P) \in Seq(Nat) /\ Len(Numbers(s, P)) = c
  BY <1>2, <1>6
<1> QED
  BY <1>7 DEF c

\* A sequence is a prefix of itself, and stays one of what grows out of it.
LEMMA PrefixKept ==
  ASSUME NEW s \in Seq(Nat), NEW t \in Seq(Nat), NEW n \in Nat
  PROVE  /\ IsPrefixOf(s, s)
         /\ IsPrefixOf(s, t) => IsPrefixOf(s, Append(t, n))
<1>1. /\ Append(t, n) \in Seq(Nat) /\ Len(Append(t, n)) = Len(t) + 1
      /\ \A k \in 1..Len(t) : Append(t, n)[k] = t[k]
      /\ Len(s) \in Nat /\ Len(t) \in Nat
  BY AppendProperties
<1>2. SubSeq(s, 1, Len(s)) = s
  BY SubSeqFull
<1>3. ASSUME IsPrefixOf(s, t)
      PROVE  IsPrefixOf(s, Append(t, n))
  <2>1. Len(s) <= Len(t) /\ s = SubSeq(t, 1, Len(s))
    BY <1>3 DEF IsPrefixOf
  <2> DEFINE u == Append(t, n)
             v == SubSeq(u, 1, Len(s))
  <2>2. \A k \in 1..Len(s) : s[k] = t[k] /\ u[k] = t[k] /\ u[k] \in Nat
    <3>1. \A k \in 1..Len(s) : k \in 1..Len(t)
      BY <1>1, <2>1
    <3>2. \A k \in 1..Len(s) : SubSeq(t, 1, Len(s))[k] = t[k]
      BY <1>1, <2>1
    <3> QED
      BY <1>1, <2>1, <3>1, <3>2
  <2> HIDE DEF u
  <2>3. v \in Seq(Nat) /\ Len(v) = Len(s) /\ \A k \in 1..Len(s) : v[k] = u[k]
    BY <1>1, <2>2
  <2> HIDE DEF v
  <2>4. s = v
    BY <2>2, <2>3, SeqEqual
  <2>5. Len(s) <= Len(u)
    BY <1>1, <2>1 DEF u
  <2> QED
    BY <2>4, <2>5 DEF IsPrefixOf, u, v
<1> QED
  BY <1>1, <1>2, <1>3 DEF IsPrefixOf

------------------------------------------------------------------------------
EventRecords == [name : EventNames, n : Nat]

\* Sequences of at most one member.
LEMMA Short ==
  ASSUME NEW S
  PROVE  /\ <<>> \in Seq(S) /\ Len(<<>>) = 0
         /\ \A x \in S : <<x>> \in Seq(S) /\ Len(<<x>>) = 1
         /\ \A s \in Seq(S) : Len(s) <= 1 /\ s # <<>> =>
              Head(s) \in S /\ Tail(s) = <<>> /\ s = <<Head(s)>> /\ Len(s) = 1
<1>1. <<>> \in Seq(S) /\ Len(<<>>) = 0
  OBVIOUS
<1>2. \A x \in S : <<x>> \in Seq(S) /\ Len(<<x>>) = 1
  OBVIOUS
<1>3. ASSUME NEW s \in Seq(S), Len(s) <= 1, s # <<>>
      PROVE  Head(s) \in S /\ Tail(s) = <<>> /\ s = <<Head(s)>> /\ Len(s) = 1
  <2>1. Len(s) = 1
    <3>1. Len(s) \in Nat \ {0}
      BY <1>3, EmptySeq
    <3> QED
      BY <1>3, <3>1
  <2>2. Head(s) = s[1] /\ s[1] \in S
    BY <1>3, <2>1
  <2>3. Tail(s) \in Seq(S) /\ Len(Tail(s)) = 0
    BY <1>3, <2>1, HeadTailProperties
  <2>4. Tail(s) = <<>>
    BY <2>3, EmptySeq
  <2>5. <<Head(s)>> \in Seq(S) /\ Len(<<Head(s)>>) = 1 /\ <<Head(s)>>[1] = s[1]
    BY <2>2
  <2>6. \A i \in 1..Len(s) : s[i] = <<Head(s)>>[i]
    BY <2>1, <2>5
  <2>7. s = <<Head(s)>>
    BY <1>3, <2>1, <2>5, <2>6, SeqEqual
  <2> QED
    BY <2>1, <2>2, <2>4, <2>7
<1> QED
  BY <1>1, <1>2, <1>3

LEMMA ShortRecords ==
  ASSUME NEW q, q = <<>> \/ \E x \in Records : q = <<x>>
  PROVE  q \in Seq(Records) /\ Len(q) <= 1 /\ Len(q) \in Nat
<1>1. CASE q = <<>>
  <2>1. q \in Seq(Records) /\ Len(q) = 0
    BY <1>1, Short, Zenon
  <2> QED
    BY <2>1
<1>2. CASE \E x \in Records : q = <<x>>
  <2>1. q \in Seq(Records) /\ Len(q) = 1
    BY <1>2, Short, Zenon
  <2> QED
    BY <2>1
<1> QED
  BY <1>1, <1>2

\* At most one record is queued: the last one sent, unless it is a [DONE].
LEMMA HeadIs ==
  ASSUME TypeOK, Reading, queue # <<>>
  PROVE  /\ Head(queue) \in Records /\ Tail(queue) = <<>>
         /\ queue = <<Head(queue)>>
         /\ (Raw \/ Head(queue).kind # "done") =>
              /\ sent # <<>> /\ Len(sent) \in DOMAIN sent /\ Len(sent) \in Nat \ {0}
              /\ Head(queue) = sent[Len(sent)] /\ Head(queue).n = Len(sent)
<1>1. queue \in Seq(Records) /\ Len(queue) <= 1
  BY DEF TypeOK
<1>3. Head(queue) \in Records /\ Tail(queue) = <<>> /\ queue = <<Head(queue)>>
  BY <1>1, Short
<1>4. ASSUME Raw \/ Head(queue).kind # "done"
      PROVE  sent # <<>> /\ Head(queue) = sent[Len(sent)]
  <2>1. Head(queue) = Rec("done", 0) => Head(queue).kind = "done"
    BY DEF Rec
  <2>2. Raw => ~Translated
    BY DEF Raw, Translated
  <2> QED
    BY <1>4, <2>1, <2>2 DEF Reading
<1>5. sent \in Seq(Records)
  BY DEF TypeOK
<1>6. sent # <<>> => Len(sent) \in DOMAIN sent /\ Len(sent) \in Nat \ {0}
  BY <1>5
<1>7. \A i \in DOMAIN sent : sent[i].n = i
  BY DEF Reading
<1> QED
  BY <1>3, <1>4, <1>6, <1>7

\* A sink writes events.
LEMMA EventsTyped ==
  ASSUME stop \in Nat
  PROVE  /\ \A rec \in Records : Events(rec) \in Seq(EventRecords)
         /\ Terminators \in Seq(EventRecords)
         /\ \A n \in Nat : <<Event("raw", n)>> \in Seq(EventRecords)
<1>1. \A name \in EventNames : \A n \in Nat : Event(name, n) \in EventRecords
  BY DEF Event, EventRecords
<1>2. \A rec \in Records : rec.n \in Nat
  BY DEF Records
<1>3. EmitStart \in Seq(EventRecords)
  BY <1>1 DEF EmitStart, EventNames
<1>4. ASSUME NEW rec \in Records
      PROVE  Events(rec) \in Seq(EventRecords)
  <2>1. <<Event("chunk", rec.n)>> \in Seq(EventRecords)
    BY <1>1, <1>2 DEF EventNames
  <2>2. <<Event("content_block_delta", rec.n)>> \in Seq(EventRecords)
    BY <1>1, <1>2 DEF EventNames
  <2>3. <<>> \in Seq(EventRecords)
    OBVIOUS
  <2>4. (IF rec.kind = "text" THEN <<Event("content_block_delta", rec.n)>> ELSE <<>>)
          \in Seq(EventRecords)
    BY <2>2, <2>3
  <2>5. EmitStart \o (IF rec.kind = "text" THEN <<Event("content_block_delta", rec.n)>> ELSE <<>>)
          \in Seq(EventRecords)
    BY <1>3, <2>4, ConcatProperties
  <2> QED
    BY <2>1, <2>3, <2>5 DEF Events
<1>5. Terminators \in Seq(EventRecords)
  <2>1. <<Event("[DONE]", 0)>> \in Seq(EventRecords)
    BY <1>1 DEF EventNames
  <2>2. <<Event("content_block_stop", 0), Event("message_delta", stop), Event("message_stop", 0)>>
          \in Seq(EventRecords)
    <3>1. /\ Event("content_block_stop", 0) \in EventRecords
          /\ Event("message_delta", stop) \in EventRecords
          /\ Event("message_stop", 0) \in EventRecords
      BY <1>1 DEF EventNames
    <3> QED
      BY <3>1
  <2> QED
    BY <1>3, <2>1, <2>2, ConcatProperties DEF Terminators
<1>6. \A n \in Nat : <<Event("raw", n)>> \in Seq(EventRecords)
  BY <1>1 DEF EventNames
<1> QED
  BY <1>4, <1>5, <1>6

\* What is received is what was written, to a client that is there.
LEMMA ReceivedTyped ==
  ASSUME TypeOK, NEW es \in Seq(EventRecords)
  PROVE  Received(es) \in Seq(EventRecords)
<1>1. wire \in Seq(EventRecords)
  BY DEF TypeOK, EventRecords
<1> QED
  BY <1>1, ConcatProperties DEF Received

\* Every step keeps the shape of the state.
LEMMA TypeStep == IInv /\ [Next]_vars => TypeOK'
<1> SUFFICES ASSUME IInv, [Next]_vars
             PROVE  TypeOK'
  OBVIOUS
<1> USE DEF IInv
<1>1. CASE Start \/ Read \/ IdleFires \/ HangUp \/ Notice \/ UNCHANGED vars
  BY <1>1 DEF TypeOK, Start, Read, IdleFires, HangUp, Notice, vars
<1>2. CASE Receive
  <2>1. PICK k \in Kinds :
          /\ sent' = Append(sent, Rec(k, Len(sent) + 1))
          /\ queue' = Returned(Rec(k, Len(sent) + 1))
    BY <1>2 DEF Receive
  <2> DEFINE rec == Rec(k, Len(sent) + 1)
  <2>2. sent \in Seq(Records) /\ Len(sent) \in Nat /\ Len(sent) < MaxRecords /\ MaxRecords \in Nat
    BY <1>2, StreamAssumption DEF TypeOK, Receive
  <2>3. rec \in Records
    BY <2>2 DEF Rec, Records
  <2> HIDE DEF rec
  <2>4. queue' = <<>> \/ queue' = <<rec>>
    BY <2>1 DEF Returned, Translate, rec
  <2>5. queue' \in Seq(Records) /\ Len(queue') <= 1
    BY <2>3, <2>4, ShortRecords
  <2>6. sent' \in Seq(Records) /\ Len(sent') = Len(sent) + 1
    BY <2>1, <2>2, <2>3 DEF rec
  <2> QED
    BY <1>2, <2>2, <2>5, <2>6 DEF TypeOK, Receive
<1>3. CASE BodyEnds
  <2>1. PICK part \in {<<>>, <<Rec("cut", Len(sent) + 1)>>} :
          sent' = sent \o part /\ queue' = Remainder(part)
    BY <1>3 DEF BodyEnds
  <2>2. /\ sent \in Seq(Records) /\ Len(sent) \in Nat
        /\ Len(sent) <= MaxRecords /\ MaxRecords \in Nat
    BY <1>3, StreamAssumption DEF TypeOK, Reading, BodyEnds
  <2>3. Rec("cut", Len(sent) + 1) \in Records /\ Rec("done", 0) \in Records
    BY <2>2 DEF Rec, Records, Kinds
  <2> DEFINE cut  == Rec("cut", Len(sent) + 1)
             done == Rec("done", 0)
  <2>7. part = <<>> \/ part = <<cut>>
    OBVIOUS
  <2>8. queue' = part \/ queue' = <<done>>
    BY <2>1 DEF Remainder
  <2> HIDE DEF cut, done
  <2>9. cut \in Records /\ done \in Records
    BY <2>3 DEF cut, done
  <2>4. part \in Seq(Records) /\ Len(part) <= 1 /\ Len(part) \in Nat
    BY <2>7, <2>9, ShortRecords
  <2>5. queue' \in Seq(Records) /\ Len(queue') <= 1
    BY <2>7, <2>8, <2>9, ShortRecords
  <2>6. sent' \in Seq(Records) /\ Len(sent') <= MaxRecords + 1
    BY <2>1, <2>2, <2>4, ConcatProperties
  <2> QED
    BY <1>3, <2>5, <2>6 DEF TypeOK, BodyEnds
<1>4. CASE RelayError \/ FinishRaw
  BY <1>4 DEF TypeOK, RelayError, FinishRaw, Return, WriteResults
<1>5. CASE Skip
  BY <1>5, HeadIs DEF TypeOK, Skip
<1>6. CASE Relay
  <2>1. queue # <<>> /\ Head(queue) \in Records /\ Tail(queue) = <<>>
    BY <1>6, HeadIs DEF Relay
  <2>2. wire' \in Seq(EventRecords)
    BY <1>6, <2>1, EventsTyped, ReceivedTyped DEF Relay, TypeOK
  <2>3. stop' \in Nat /\ started' \in BOOLEAN
    BY <1>6, <2>1 DEF Relay, StopOf, TypeOK, Records
  <2>4. pc' \in {"relaying", "ended"} /\ result' \in {"none", "ok", "error"}
    BY <1>6 DEF Relay, TypeOK, Return, WriteResults
  <2>5. queue' \in Seq(Records) /\ Len(queue') <= 1
    BY <1>6, <2>1, ShortRecords DEF Relay
  <2> QED
    BY <1>6, <2>2, <2>3, <2>4, <2>5 DEF TypeOK, Relay, EventRecords
<1>7. CASE Finish
  <2>1. wire' \in Seq(EventRecords)
    BY <1>7, EventsTyped, ReceivedTyped DEF Finish, TypeOK
  <2>2. pc' = "ended" /\ result' \in {"ok", "error"}
    BY <1>7 DEF Finish, Return, WriteResults
  <2> QED
    BY <1>7, <2>1, <2>2 DEF TypeOK, Finish, EventRecords
<1>8. CASE RelayRaw
  <2>1. queue # <<>> /\ Head(queue) \in Records /\ Tail(queue) = <<>>
    BY <1>8, HeadIs DEF RelayRaw
  <2>2. wire' \in Seq(EventRecords)
    BY <1>8, <2>1, EventsTyped, ReceivedTyped DEF RelayRaw, TypeOK, Records
  <2>3. pc' \in {"relaying", "ended"} /\ result' \in {"none", "ok", "error"}
    BY <1>8 DEF RelayRaw, TypeOK, Return, WriteResults
  <2>4. queue' \in Seq(Records) /\ Len(queue') <= 1
    BY <1>8, <2>1, ShortRecords DEF RelayRaw
  <2> QED
    BY <1>8, <2>2, <2>3, <2>4 DEF TypeOK, RelayRaw, EventRecords
<1> QED
  BY <1>1, <1>2, <1>3, <1>4, <1>5, <1>6, <1>7, <1>8 DEF Next, Own

\* Every step keeps the queue in step with the upstream.
LEMMA ReadingStep == IInv /\ [Next]_vars => Reading'
<1> SUFFICES ASSUME IInv, [Next]_vars
             PROVE  Reading'
  OBVIOUS
<1> USE DEF IInv
<1>1. CASE Start \/ Read \/ IdleFires \/ HangUp \/ Notice \/ UNCHANGED vars
  BY <1>1 DEF Reading, Start, Read, IdleFires, HangUp, Notice, vars, Translated
<1>2. CASE Receive
  <2>1. PICK k \in Kinds :
          /\ sent' = Append(sent, Rec(k, Len(sent) + 1))
          /\ queue' = Returned(Rec(k, Len(sent) + 1))
    BY <1>2 DEF Receive
  <2> DEFINE rec == Rec(k, Len(sent) + 1)
  <2>2. sent \in Seq(Records) /\ Len(sent) \in Nat /\ Len(sent) < MaxRecords /\ MaxRecords \in Nat
    BY <1>2, StreamAssumption DEF TypeOK, Receive
  <2>3. rec.n = Len(sent) + 1
    BY DEF Rec
  <2> HIDE DEF rec
  <2>4. queue' = <<>> \/ queue' = <<rec>>
    BY <2>1 DEF Returned, Translate, rec
  <2>5. /\ Len(sent') = Len(sent) + 1 /\ DOMAIN sent' = 1..(Len(sent) + 1)
        /\ \A i \in DOMAIN sent : sent'[i] = sent[i]
        /\ sent'[Len(sent) + 1] = rec
    BY <2>1, <2>2 DEF rec
  <2>6. \A i \in DOMAIN sent' : sent'[i].n = i
    BY <2>2, <2>3, <2>5 DEF Reading
  <2>7. sent' # <<>> /\ sent'[Len(sent')] = rec
    BY <2>2, <2>5
  <2> QED
    BY <1>2, <2>2, <2>4, <2>5, <2>6, <2>7 DEF Reading, Receive
<1>3. CASE BodyEnds
  <2>1. PICK part \in {<<>>, <<Rec("cut", Len(sent) + 1)>>} :
          sent' = sent \o part /\ queue' = Remainder(part)
    BY <1>3 DEF BodyEnds
  <2>2. sent \in Seq(Records) /\ Len(sent) \in Nat
    BY DEF TypeOK
  <2>3. pc' = "relaying" /\ tail' # "open" /\ path' = path
    BY <1>3 DEF BodyEnds
  <2> DEFINE rec == Rec("cut", Len(sent) + 1)
  <2>4. rec.n = Len(sent) + 1
    BY DEF Rec
  <2> HIDE DEF rec
  <2>5. CASE part = <<>>
    <3>1. sent' = sent /\ (queue' = <<>> \/ (Translated /\ queue' = <<Rec("done", 0)>>))
      BY <2>1, <2>2, <2>5 DEF Remainder
    <3> QED
      BY <2>3, <3>1 DEF Reading, Translated
  <2>6. CASE part = <<rec>>
    <3>1. queue' = <<rec>> \/ (Translated /\ queue' = <<Rec("done", 0)>>)
      BY <2>1, <2>6 DEF Remainder
    <3>2. /\ Len(sent') = Len(sent) + 1 /\ DOMAIN sent' = 1..(Len(sent) + 1)
          /\ \A i \in DOMAIN sent : sent'[i] = sent[i]
          /\ sent'[Len(sent) + 1] = rec
      BY <2>1, <2>2, <2>6
    <3>3. \A i \in DOMAIN sent' : sent'[i].n = i
      BY <2>2, <2>4, <3>2 DEF Reading
    <3>4. sent' # <<>> /\ sent'[Len(sent')] = rec
      BY <2>2, <3>2
    <3> QED
      BY <2>3, <3>1, <3>3, <3>4 DEF Reading, Translated
  <2> QED
    BY <2>5, <2>6 DEF rec
<1>4. CASE RelayError
  <2>1. queue = <<>>
    BY <1>4 DEF RelayError, Split
  <2> QED
    BY <1>4, <2>1 DEF Reading, RelayError, Return, Translated
<1>5. CASE FinishRaw
  BY <1>5 DEF Reading, FinishRaw, Return, Translated
<1>6. CASE Skip
  <2>1. queue' = <<>>
    BY <1>6, HeadIs DEF Skip
  <2> QED
    BY <1>6, <2>1 DEF Reading, Skip
<1>7. CASE Relay
  <2>1. queue' = <<>>
    BY <1>7, HeadIs DEF Relay
  <2>2. pc' # "reading"
    BY <1>7 DEF Relay, Return
  <2> QED
    BY <1>7, <2>1, <2>2 DEF Reading, Relay
<1>8. CASE Finish
  BY <1>8 DEF Reading, Finish, Return
<1>9. CASE RelayRaw
  <2>1. queue' = <<>>
    BY <1>9, HeadIs DEF RelayRaw
  <2>2. pc' # "reading"
    BY <1>9 DEF RelayRaw, Return
  <2> QED
    BY <1>9, <2>1, <2>2 DEF Reading, RelayRaw
<1> QED
  BY <1>1, <1>2, <1>3, <1>4, <1>5, <1>6, <1>7, <1>8, <1>9 DEF Next, Own

\* An error answer stays unstreamed, and an answer unbuffered.
LEMMA SplitStep == IInv /\ [Next]_vars => Split'
<1> SUFFICES ASSUME IInv, [Next]_vars
             PROVE  Split'
  OBVIOUS
<1> USE DEF IInv, Split
<1>1. CASE Start \/ Read \/ IdleFires \/ HangUp \/ Notice \/ UNCHANGED vars
  BY <1>1 DEF Start, Read, IdleFires, HangUp, Notice, vars
<1>2. CASE Receive \/ BodyEnds
  BY <1>2 DEF Receive, BodyEnds
<1>3. CASE RelayError
  BY <1>3 DEF RelayError, Return
<1>4. CASE Skip \/ Relay \/ Finish \/ RelayRaw \/ FinishRaw
  BY <1>4 DEF Skip, Relay, Finish, RelayRaw, FinishRaw, Return
<1> QED
  BY <1>1, <1>2, <1>3, <1>4 DEF Next, Own

------------------------------------------------------------------------------
\* A message that is opened late is one sequence of events.
LEMMA Opening ==
  ASSUME NEW S, NEW a \in S, NEW b \in S, NEW c \in S
  PROVE  <<a, b>> \o <<c>> = <<a, b, c>>
<1> DEFINE w == <<a, b>> \o <<c>>
           v == <<a, b, c>>
<1>1. w \in Seq(S) /\ Len(w) = 3 /\ w[1] = a /\ w[2] = b /\ w[3] = c
  OBVIOUS
<1>2. v \in Seq(S) /\ Len(v) = 3 /\ v[1] = a /\ v[2] = b /\ v[3] = c
  OBVIOUS
<1> HIDE DEF w, v
<1>3. \A i \in 1..3 : i = 1 \/ i = 2 \/ i = 3
  OBVIOUS
<1>4. \A i \in 1..Len(w) : w[i] = v[i]
  BY <1>1, <1>2, <1>3
<1> QED
  BY <1>1, <1>2, <1>4, SeqEqual DEF w, v

\* What a sink makes of a record: the event that carries it, if any, is the last
\* one, and only an OpenAI consumer is given anything but text.
Fits(e) ==
  /\ e.name # "raw"
  /\ path.consumer = "openai" => e.name \in {"chunk", "[DONE]"}
  /\ path.consumer = "anthropic" => e.name # "chunk"

Carries(rec) == path.consumer = "openai" \/ rec.kind = "text"

LEMMA EventsSay ==
  ASSUME TypeOK, NEW rec \in Records
  PROVE  LET es == Events(rec)
         IN /\ es \in Seq(EventRecords)
            /\ \A k \in DOMAIN es : /\ Fits(es[k]) /\ es[k].name # "message_delta"
                                    /\ es[k].name \in Carriers =>
                                         k = Len(es) /\ es[k].n = rec.n /\ Carries(rec)
            /\ Carries(rec) => /\ es # <<>> /\ Len(es) \in DOMAIN es
                               /\ es[Len(es)].name \in Carriers /\ es[Len(es)].n = rec.n
            /\ path.consumer = "anthropic" /\ ~started /\ rec.kind # "cut" => es # <<>>
<1>1. path.consumer \in {"openai", "anthropic"} /\ started \in BOOLEAN /\ stop \in Nat
  BY StreamAssumption DEF TypeOK, Path
<1> DEFINE es == Events(rec)
           delta == Event("content_block_delta", rec.n)
<1>2. es \in Seq(EventRecords)
  BY <1>1, EventsTyped
<1>3. CASE path.consumer = "openai"
  <2>1. es = <<Event("chunk", rec.n)>>
    BY <1>3 DEF Events
  <2>2. Len(es) = 1 /\ DOMAIN es = {1} /\ es[1] = Event("chunk", rec.n) /\ es # <<>>
    BY <2>1
  <2> HIDE DEF es
  <2> QED
    BY <1>2, <1>3, <2>2 DEF Event, Fits, Carries, Carriers, es
<1>4. CASE path.consumer = "anthropic" /\ rec.kind = "text" /\ started
  <2>1. es = <<delta>>
    BY <1>4 DEF Events, EmitStart
  <2>2. Len(es) = 1 /\ DOMAIN es = {1} /\ es[1] = delta /\ es # <<>>
    BY <2>1
  <2> HIDE DEF es
  <2> QED
    BY <1>2, <1>4, <2>2 DEF Event, Fits, Carries, Carriers, es
<1>5. CASE path.consumer = "anthropic" /\ rec.kind = "text" /\ ~started
  <2>1. es = <<Event("message_start", 0), Event("content_block_start", 0), delta>>
    <3>1. es = <<Event("message_start", 0), Event("content_block_start", 0)>> \o <<delta>>
      BY <1>5 DEF Events, EmitStart
    <3>2. /\ Event("message_start", 0) \in EventRecords
          /\ Event("content_block_start", 0) \in EventRecords /\ delta \in EventRecords
      BY DEF Event, EventRecords, EventNames, Records
    <3> HIDE DEF delta
    <3>3. <<Event("message_start", 0), Event("content_block_start", 0)>> \o <<delta>>
            = <<Event("message_start", 0), Event("content_block_start", 0), delta>>
      BY <3>2, Opening
    <3> QED
      BY <3>1, <3>3
  <2>2. /\ Len(es) = 3 /\ DOMAIN es = {1, 2, 3} /\ es # <<>>
        /\ es[1] = Event("message_start", 0) /\ es[2] = Event("content_block_start", 0)
        /\ es[3] = delta
    BY <2>1
  <2> HIDE DEF es
  <2> QED
    BY <1>2, <1>5, <2>2 DEF Event, Fits, Carries, Carriers, es
<1>6. CASE path.consumer = "anthropic" /\ rec.kind # "text" /\ (started \/ rec.kind = "cut")
  <2>1. es = <<>>
    BY <1>6 DEF Events, EmitStart
  <2>2. DOMAIN es = {}
    BY <2>1
  <2> HIDE DEF es
  <2> QED
    BY <1>2, <1>6, <2>2 DEF Carries, es
<1>7. CASE path.consumer = "anthropic" /\ rec.kind # "text" /\ ~started /\ rec.kind # "cut"
  <2>1. es = <<Event("message_start", 0), Event("content_block_start", 0)>>
    BY <1>7 DEF Events, EmitStart
  <2>2. /\ Len(es) = 2 /\ DOMAIN es = {1, 2} /\ es # <<>>
        /\ es[1] = Event("message_start", 0) /\ es[2] = Event("content_block_start", 0)
    BY <2>1
  <2> HIDE DEF es
  <2> QED
    BY <1>2, <1>7, <2>2 DEF Event, Fits, Carries, Carriers, es
<1> QED
  BY <1>1, <1>3, <1>4, <1>5, <1>6, <1>7

\* What a sink ends a stream with carries nothing but the remembered finish reason.
LEMMA TerminatorsSay ==
  ASSUME TypeOK
  PROVE  LET es == Terminators
         IN /\ es \in Seq(EventRecords)
            /\ \A k \in DOMAIN es : /\ Fits(es[k]) /\ es[k].name \notin Carriers
                                    /\ es[k].name = "message_delta" => es[k].n = stop
<1>1. path.consumer \in {"openai", "anthropic"} /\ started \in BOOLEAN /\ stop \in Nat
  BY StreamAssumption DEF TypeOK, Path
<1> DEFINE es == Terminators
           last == <<Event("content_block_stop", 0), Event("message_delta", stop),
                     Event("message_stop", 0)>>
<1>2. es \in Seq(EventRecords)
  BY <1>1, EventsTyped
<1>3. CASE path.consumer = "openai"
  <2>1. es = <<Event("[DONE]", 0)>>
    BY <1>3 DEF Terminators
  <2>2. DOMAIN es = {1} /\ es[1] = Event("[DONE]", 0)
    BY <2>1
  <2> HIDE DEF es
  <2> QED
    BY <1>2, <1>3, <2>2 DEF Event, Fits, Carriers, es
<1>4. CASE path.consumer = "anthropic" /\ started
  <2>1. es = last
    BY <1>4 DEF Terminators, EmitStart
  <2>2. /\ DOMAIN es = {1, 2, 3} /\ es[1] = Event("content_block_stop", 0)
        /\ es[2] = Event("message_delta", stop) /\ es[3] = Event("message_stop", 0)
    BY <2>1
  <2> HIDE DEF es
  <2> QED
    BY <1>2, <1>4, <2>2 DEF Event, Fits, Carriers, es
<1>5. CASE path.consumer = "anthropic" /\ ~started
  <2> DEFINE first == <<Event("message_start", 0), Event("content_block_start", 0)>>
  <2>3. es = first \o last
    BY <1>5 DEF Terminators, EmitStart
  <2>4. /\ first \in Seq(EventRecords) /\ Len(first) = 2
        /\ first[1] = Event("message_start", 0) /\ first[2] = Event("content_block_start", 0)
    BY DEF Event, EventRecords, EventNames
  <2>5. /\ last \in Seq(EventRecords) /\ Len(last) = 3
        /\ last[1] = Event("content_block_stop", 0) /\ last[2] = Event("message_delta", stop)
        /\ last[3] = Event("message_stop", 0)
    BY <1>1 DEF Event, EventRecords, EventNames
  <2> HIDE DEF first, last, es
  <2>2. /\ DOMAIN es = {1, 2, 3, 4, 5}
        /\ es[1] = Event("message_start", 0) /\ es[2] = Event("content_block_start", 0)
        /\ es[3] = Event("content_block_stop", 0)
        /\ es[4] = Event("message_delta", stop) /\ es[5] = Event("message_stop", 0)
    <3>1. /\ es \in Seq(EventRecords) /\ Len(es) = 5
          /\ \A i \in 1..Len(es) :
               es[i] = IF i <= Len(first) THEN first[i] ELSE last[i - Len(first)]
      <4>1. first \in Seq(EventRecords) /\ last \in Seq(EventRecords)
        BY <2>4, <2>5
      <4>2. /\ first \o last \in Seq(EventRecords)
            /\ Len(first \o last) = Len(first) + Len(last)
            /\ \A i \in 1..(Len(first) + Len(last)) :
                 (first \o last)[i] = IF i <= Len(first) THEN first[i] ELSE last[i - Len(first)]
        BY <4>1, ConcatProperties
      <4> QED
        BY <2>3, <2>4, <2>5, <4>2
    <3>2. es[1] = first[1] /\ es[2] = first[2] /\ es[3] = last[1] /\ es[4] = last[2]
          /\ es[5] = last[3]
      BY <2>4, <3>1
    <3>3. 1..5 = {1, 2, 3, 4, 5}
      OBVIOUS
    <3>4. DOMAIN es = 1..5
      BY <3>1
    <3> QED
      BY <2>4, <2>5, <3>2, <3>3, <3>4
  <2> QED
    BY <1>2, <1>5, <2>2 DEF Event, Fits, Carriers, es
<1> QED
  BY <1>1, <1>3, <1>4, <1>5

\* The events that a client has after a write are those it had and those that were
\* written while it was there.
LEMMA ReceivedSays ==
  ASSUME TypeOK, NEW es \in Seq(EventRecords), NEW w, w = Received(es)
  PROVE  /\ \A k \in DOMAIN wire : k \in DOMAIN w /\ w[k] = wire[k]
         /\ \A k \in DOMAIN w :
              \/ k \in DOMAIN wire /\ w[k] = wire[k]
              \/ /\ client = "here" /\ k \notin DOMAIN wire
                 /\ \E j \in DOMAIN es : k = Len(wire) + j /\ w[k] = es[j]
<1>1. wire \in Seq(EventRecords)
  BY DEF TypeOK, EventRecords
<1>2. CASE client = "here"
  <2>1. w = wire \o es
    BY <1>2 DEF Received
  <2>2. /\ Len(wire) \in Nat /\ Len(es) \in Nat
        /\ DOMAIN wire = 1..Len(wire) /\ DOMAIN es = 1..Len(es)
        /\ DOMAIN w = 1..(Len(wire) + Len(es))
    BY <1>1, <2>1
  <2>3. \A k \in 1..(Len(wire) + Len(es)) :
          w[k] = IF k <= Len(wire) THEN wire[k] ELSE es[k - Len(wire)]
    BY <1>1, <2>1
  <2>4. \A k \in 1..(Len(wire) + Len(es)) : k > Len(wire) =>
          k - Len(wire) \in 1..Len(es) /\ k = Len(wire) + (k - Len(wire))
    BY <2>2
  <2> QED
    BY <1>2, <2>2, <2>3, <2>4
<1>3. CASE client # "here"
  BY <1>3 DEF Received
<1> QED
  BY <1>2, <1>3

\* More of the upstream leaves what was read of it as it was.
LEMMA SentGrows ==
  ASSUME TypeOK, Receive \/ BodyEnds
  PROVE  /\ DOMAIN sent \subseteq DOMAIN sent'
         /\ \A i \in DOMAIN sent : sent'[i] = sent[i]
         /\ UNCHANGED <<path, client, started, stop, wire, result>>
         /\ pc = "reading" /\ pc' = "relaying"
<1>1. sent \in Seq(Records) /\ Len(sent) \in Nat
  BY DEF TypeOK
<1>2. PICK t \in Seq(Records) : sent' = sent \o t
  <2>1. ASSUME NEW k \in Kinds
        PROVE  /\ <<Rec(k, Len(sent) + 1)>> \in Seq(Records)
               /\ Append(sent, Rec(k, Len(sent) + 1)) = sent \o <<Rec(k, Len(sent) + 1)>>
    <3> DEFINE rec == Rec(k, Len(sent) + 1)
    <3>1. rec \in Records
      BY <1>1 DEF Rec, Records
    <3> HIDE DEF rec
    <3>2. <<rec>> \in Seq(Records) /\ Append(sent, rec) = sent \o <<rec>>
      BY <1>1, <3>1
    <3> QED
      BY <3>2 DEF rec
  <2>2. Rec("cut", Len(sent) + 1) \in Records
    BY <1>1 DEF Rec, Records
  <2>3. <<Rec("cut", Len(sent) + 1)>> \in Seq(Records) /\ <<>> \in Seq(Records)
    BY <2>2, Short
  <2>4. CASE Receive
    BY <2>1, <2>4 DEF Receive
  <2>5. CASE BodyEnds
    BY <2>3, <2>5 DEF BodyEnds
  <2> QED
    BY <2>4, <2>5
<1>3. /\ DOMAIN sent \subseteq DOMAIN sent'
      /\ \A i \in DOMAIN sent : sent'[i] = sent[i]
  BY <1>1, <1>2
<1> QED
  BY <1>3 DEF Receive, BodyEnds

\* Every step writes what the protocols of the path allow, and nothing that was not
\* read.
LEMMA WrittenStep == IInv /\ [Next]_vars => Written'
<1> SUFFICES ASSUME IInv, [Next]_vars
             PROVE  Written'
  OBVIOUS
<1> USE DEF IInv
<1>1. CASE Start \/ Read \/ IdleFires \/ HangUp \/ Notice \/ UNCHANGED vars
  BY <1>1 DEF Written, Start, Read, IdleFires, HangUp, Notice, vars, Raw
<1>2. CASE Receive \/ BodyEnds
  BY <1>2, SentGrows DEF Written, Raw
<1>3. CASE RelayError \/ FinishRaw \/ Skip
  BY <1>3 DEF Written, RelayError, FinishRaw, Skip, Return, Raw
<1>4. CASE Relay
  <2> DEFINE es == Events(Head(queue))
  <2>1. /\ Head(queue) \in Records
        /\ Len(sent) \in DOMAIN sent
        /\ Head(queue) = sent[Len(sent)] /\ Head(queue).n = Len(sent)
    BY <1>4, HeadIs DEF Relay
  <2>2. sent[Len(sent)].kind \in Spoken
    BY <1>4, <2>1 DEF Relay, Records, Spoken, AllKinds
  <2>3. /\ es \in Seq(EventRecords)
        /\ \A j \in DOMAIN es : Fits(es[j]) /\ (es[j].name \in Carriers => es[j].n = Len(sent))
    BY <2>1, EventsSay
  <2>4. wire' = Received(es) /\ ~Raw /\ UNCHANGED <<path, sent>>
    BY <1>4 DEF Relay
  <2> HIDE DEF es
  <2>5. \A k \in DOMAIN wire' : \/ k \in DOMAIN wire /\ wire'[k] = wire[k]
                                \/ \E j \in DOMAIN es : wire'[k] = es[j]
    BY <2>3, <2>4, ReceivedSays
  <2> QED
    BY <2>1, <2>2, <2>3, <2>4, <2>5 DEF Written, Fits, Raw
<1>5. CASE Finish
  <2> DEFINE es == Terminators
  <2>1. /\ es \in Seq(EventRecords)
        /\ \A j \in DOMAIN es : Fits(es[j]) /\ es[j].name \notin Carriers
    BY TerminatorsSay
  <2>2. wire' = Received(es) /\ ~Raw /\ UNCHANGED <<path, sent>>
    BY <1>5 DEF Finish
  <2> HIDE DEF es
  <2>3. \A k \in DOMAIN wire' : \/ k \in DOMAIN wire /\ wire'[k] = wire[k]
                                \/ \E j \in DOMAIN es : wire'[k] = es[j]
    BY <2>1, <2>2, ReceivedSays
  <2> QED
    BY <2>1, <2>2, <2>3 DEF Written, Fits, Raw
<1>6. CASE RelayRaw
  <2> DEFINE e == Event("raw", Head(queue).n)
             es == <<e>>
  <2>1. /\ Raw /\ Head(queue) \in Records
        /\ Len(sent) \in DOMAIN sent /\ Len(sent) \in Nat /\ Head(queue).n = Len(sent)
    BY <1>6, HeadIs DEF RelayRaw
  <2>2. e.name = "raw" /\ e.n = Len(sent) /\ e \in EventRecords
    BY <2>1 DEF Event, EventRecords, EventNames
  <2>3. wire' = Received(es) /\ UNCHANGED <<path, sent>>
    BY <1>6 DEF RelayRaw
  <2> HIDE DEF e
  <2>4. es \in Seq(EventRecords) /\ DOMAIN es = {1} /\ es[1] = e
    BY <2>2
  <2> HIDE DEF es
  <2>5. \A k \in DOMAIN wire' : (k \in DOMAIN wire /\ wire'[k] = wire[k]) \/ wire'[k] = e
    BY <2>3, <2>4, ReceivedSays
  <2>6. path.consumer = "anthropic" /\ path' = path
    BY <2>1, <2>3 DEF Raw
  <2> QED
    BY <2>1, <2>2, <2>3, <2>5, <2>6 DEF Written, Raw
<1> QED
  BY <1>1, <1>2, <1>3, <1>4, <1>5, <1>6 DEF Next, Own

\* Every step keeps the sink's knowledge of whether it opened the message.
LEMMA OpenedStep == IInv /\ [Next]_vars => Opened'
<1> SUFFICES ASSUME IInv, [Next]_vars
             PROVE  Opened'
  OBVIOUS
<1> USE DEF IInv
<1>1. CASE Start \/ Read \/ IdleFires \/ HangUp \/ Notice \/ UNCHANGED vars
  BY <1>1 DEF Opened, Start, Read, IdleFires, HangUp, Notice, vars, Raw
<1>2. CASE Receive \/ BodyEnds
  BY <1>2, SentGrows DEF Opened, Raw
<1>3. CASE RelayError \/ FinishRaw \/ Skip \/ Finish \/ RelayRaw
  BY <1>3 DEF Opened, RelayError, FinishRaw, Skip, Finish, RelayRaw, Return, Raw
<1>4. CASE Relay
  <2> DEFINE es == Events(Head(queue))
  <2>1. Head(queue) \in Records /\ UNCHANGED <<path, client>> /\ pc # "ended" /\ wire' = Received(es)
    BY <1>4, HeadIs DEF Relay
  <2>2. started' = (started \/ Head(queue).kind # "cut")
    BY <1>4 DEF Relay
  <2> SUFFICES ASSUME path.consumer = "anthropic", ~Raw, client = "here"
               PROVE  started' <=> wire' # <<>>
    BY <2>1 DEF Opened, Raw
  <2>3. started <=> wire # <<>>
    BY <2>1 DEF Opened
  <2>4. /\ es \in Seq(EventRecords)
        /\ ~started /\ Head(queue).kind # "cut" => es # <<>>
    BY <2>1, EventsSay
  <2>5. wire \in Seq(EventRecords)
    BY DEF TypeOK, EventRecords
  <2>6. wire' = wire \o es
    BY <2>1 DEF Received
  <2>7. Head(queue).kind = "cut" => es = <<>>
    BY DEF Events
  <2> HIDE DEF es
  <2>8. es = <<>> => wire' = wire
    BY <2>5, <2>6, ConcatEmptySeq
  <2>9. wire # <<>> \/ es # <<>> => wire' # <<>>
    BY <2>4, <2>5, <2>6
  <2> QED
    BY <2>2, <2>3, <2>4, <2>7, <2>8, <2>9
<1> QED
  BY <1>1, <1>2, <1>3, <1>4 DEF Next, Own

\* Every step keeps the remembered finish reason the last one that was handed on.
LEMMA RemembersStep == IInv /\ [Next]_vars => Remembers'
<1> SUFFICES ASSUME IInv, [Next]_vars, path'.consumer = "anthropic", ~Raw'
             PROVE  /\ (pc # "ended" /\ ~Queued({"stop"}))' => IsLastStop(stop)'
                    /\ \A k \in DOMAIN wire' :
                         wire'[k].name = "message_delta" => pc' = "ended" /\ IsLastStop(wire[k].n)'
  BY DEF Remembers
<1> USE DEF IInv
<1>0. path' = path /\ path.consumer = "anthropic" /\ ~Raw /\ ~Translated
  <2>1. path' = path
    BY DEF Next, Own, Start, Read, Skip, Relay, Finish, RelayRaw, FinishRaw, Receive, BodyEnds,
           RelayError, IdleFires, HangUp, Notice, vars
  <2> QED
    BY <2>1 DEF Raw, Translated
<1> DEFINE Told(w) == \A k \in DOMAIN w : w[k].name # "message_delta"
<1>1. /\ pc # "ended" /\ ~Queued({"stop"}) => IsLastStop(stop)
      /\ pc # "ended" => Told(wire)
  BY <1>0 DEF Remembers
<1>2. CASE Start \/ Read \/ IdleFires \/ HangUp \/ Notice \/ UNCHANGED vars
  <2>1. UNCHANGED <<sent, queue, stop, wire>> /\ (pc = "ended" => UNCHANGED vars)
    BY <1>2 DEF Start, Read, IdleFires, HangUp, Notice, vars
  <2>2. CASE pc = "ended"
    BY <1>0, <2>1, <2>2 DEF Remembers, IsLastStop, Saying, Queued, vars
  <2>3. CASE pc # "ended"
    BY <1>1, <2>1, <2>3 DEF IsLastStop, Saying, Queued
  <2> QED
    BY <2>2, <2>3
<1>3. CASE Receive \/ BodyEnds
  <2>1. /\ DOMAIN sent \subseteq DOMAIN sent' /\ \A i \in DOMAIN sent : sent'[i] = sent[i]
        /\ UNCHANGED <<stop, wire>> /\ pc = "reading"
    BY <1>3, SentGrows
  <2>2. IsLastStop(stop) /\ Told(wire)
    BY <1>1, <2>1 DEF Queued, Reading
  <2>3. ASSUME ~Queued({"stop"})'
        PROVE  Saying({"stop"})' = Saying({"stop"})
    <3>1. sent \in Seq(Records) /\ Len(sent) \in Nat
      BY DEF TypeOK
    <3> DEFINE Last(rec) == /\ DOMAIN sent' = DOMAIN sent \cup {Len(sent) + 1}
                            /\ sent'[Len(sent) + 1] = rec
                            /\ rec.kind # "stop"
    <3>2. sent' = sent \/ \E k \in Kinds \cup {"cut"} : Last(Rec(k, Len(sent) + 1))
      <4>1. CASE Receive
        <5>1. PICK k \in Kinds : /\ sent' = Append(sent, Rec(k, Len(sent) + 1))
                                 /\ queue' = <<Rec(k, Len(sent) + 1)>>
          BY <1>0, <4>1 DEF Receive, Returned
        <5>2. Rec(k, Len(sent) + 1).kind # "stop"
          BY <2>3, <5>1 DEF Queued
        <5> QED
          BY <3>1, <5>1, <5>2
      <4>2. CASE BodyEnds
        <5>1. sent' = sent \/ sent' = sent \o <<Rec("cut", Len(sent) + 1)>>
          BY <3>1, <4>2 DEF BodyEnds
        <5> DEFINE rec == Rec("cut", Len(sent) + 1)
        <5>2. rec.kind # "stop"
          BY DEF Rec
        <5>3. sent' = sent \o <<rec>> => Last(rec)
          <6> HIDE DEF rec
          <6> QED
            BY <3>1, <5>2
        <5> HIDE DEF Last
        <5> QED
          BY <5>1, <5>3
      <4> QED
        BY <1>3, <4>1, <4>2
    <3>3. \A i \in DOMAIN sent' : sent'[i].kind = "stop" => i \in DOMAIN sent
      BY <3>2
    <3> QED
      BY <2>1, <3>3 DEF Saying
  <2> QED
    BY <2>1, <2>2, <2>3 DEF IsLastStop
<1>4. CASE RelayError
  BY <1>1, <1>4 DEF RelayError, Return, IsLastStop, Saying
<1>5. CASE Skip
  <2>1. UNCHANGED <<pc, sent, stop, wire>> /\ pc # "ended" /\ ~Queued({"stop"})
    BY <1>5 DEF Skip, Queued
  <2> QED
    BY <1>1, <2>1 DEF IsLastStop, Saying
<1>6. CASE Relay
  <2> DEFINE es == Events(Head(queue))
  <2>1. /\ Head(queue) \in Records /\ sent \in Seq(Records) /\ Len(sent) \in Nat
        /\ Len(sent) \in DOMAIN sent /\ queue # <<>>
        /\ Head(queue) = sent[Len(sent)] /\ Head(queue).n = Len(sent)
    BY <1>6, HeadIs DEF Relay, TypeOK
  <2>2. wire' = Received(es) /\ sent' = sent /\ pc # "ended" /\ stop' = StopOf(Head(queue))
    BY <1>6 DEF Relay
  <2>3. IsLastStop(stop')
    <3>1. CASE Head(queue).kind = "stop"
      <4>1. stop' = Len(sent) /\ Len(sent) \in Saying({"stop"})
        BY <2>1, <2>2, <3>1 DEF StopOf, Saying
      <4>2. \A i \in Saying({"stop"}) : i <= Len(sent)
        BY <2>1 DEF Saying
      <4> QED
        BY <4>1, <4>2 DEF IsLastStop
    <3>2. CASE Head(queue).kind # "stop"
      BY <1>1, <2>2, <3>2 DEF StopOf, Queued
    <3> QED
      BY <3>1, <3>2
  <2>4. es \in Seq(EventRecords) /\ \A j \in DOMAIN es : es[j].name # "message_delta"
    BY <2>1, EventsSay
  <2> HIDE DEF es
  <2>5. \A k \in DOMAIN wire' : \/ k \in DOMAIN wire /\ wire'[k] = wire[k]
                                \/ \E j \in DOMAIN es : wire'[k] = es[j]
    BY <2>2, <2>4, ReceivedSays
  <2> QED
    BY <1>1, <2>2, <2>3, <2>4, <2>5 DEF IsLastStop, Saying
<1>7. CASE Finish
  <2> DEFINE es == Terminators
  <2>1. wire' = Received(es) /\ sent' = sent /\ pc # "ended" /\ pc' = "ended"
    BY <1>7 DEF Finish, Return
  <2>2. client = "here" => ~Queued({"stop"})
    BY <1>7 DEF Finish, Queued
  <2>3. /\ es \in Seq(EventRecords)
        /\ \A j \in DOMAIN es : es[j].name = "message_delta" => es[j].n = stop
    BY TerminatorsSay
  <2> HIDE DEF es
  <2>4. \A k \in DOMAIN wire' : \/ k \in DOMAIN wire /\ wire'[k] = wire[k]
                                \/ client = "here" /\ \E j \in DOMAIN es : wire'[k] = es[j]
    BY <2>1, <2>3, ReceivedSays
  <2> QED
    BY <1>1, <2>1, <2>2, <2>3, <2>4 DEF IsLastStop, Saying
<1>8. CASE RelayRaw \/ FinishRaw
  BY <1>0, <1>8 DEF RelayRaw, FinishRaw
<1> QED
  BY <1>2, <1>3, <1>4, <1>5, <1>6, <1>7, <1>8 DEF Next, Own

------------------------------------------------------------------------------
LEMMA Places ==
  ASSUME TypeOK, NEW kinds
  PROVE  /\ wire \in Seq(EventRecords) /\ sent \in Seq(Records)
         /\ Len(wire) \in Nat /\ Len(sent) \in Nat
         /\ Carrying(kinds) \in SUBSET (1..Len(wire)) /\ Saying(kinds) \in SUBSET (1..Len(sent))
         /\ Got(kinds) \in Seq(Nat) /\ Due(kinds) \in Seq(Nat)
         /\ Due(kinds) = Numbers(sent, Saying(kinds))
<1>1. wire \in Seq(EventRecords) /\ sent \in Seq(Records)
  BY DEF TypeOK, EventRecords
<1>2. /\ Len(wire) \in Nat /\ Len(sent) \in Nat
      /\ DOMAIN wire = 1..Len(wire) /\ DOMAIN sent = 1..Len(sent)
  BY <1>1
<1>3. /\ Carrying(kinds) \in SUBSET (1..Len(wire)) /\ Saying(kinds) \in SUBSET (1..Len(sent))
  BY <1>2 DEF Carrying, Saying
<1>4. Numbered(EventRecords) /\ Numbered(Records)
  BY DEF Numbered, EventRecords, Records
<1>5. Got(kinds) \in Seq(Nat)
  BY <1>1, <1>3, <1>4, NumbersTyped DEF Got
<1>6. Numbers(sent, Saying(kinds)) \in Seq(Nat)
  BY <1>1, <1>3, <1>4, NumbersTyped
<1>7. Due(kinds) = Numbers(sent, Saying(kinds))
  BY DEF Due, Saying
<1> QED
  BY <1>1, <1>2, <1>3, <1>5, <1>6, <1>7

\* What a client has of the records of some kinds grows by a write whose last event
\* carries one more, and stays what it is by a write that carries none.
LEMMA Consumes ==
  ASSUME TypeOK, NEW kinds, NEW es \in Seq(EventRecords), wire' = wire \o es, sent' = sent
  PROVE  LET Tells(e) == e.name \in Carriers /\ sent[e.n].kind \in kinds
         IN /\ (\A j \in DOMAIN es : ~Tells(es[j])) => Got(kinds)' = Got(kinds)
            /\ es # <<>> /\ (\A j \in DOMAIN es : Tells(es[j]) <=> j = Len(es)) =>
                 Got(kinds)' = Append(Got(kinds), es[Len(es)].n)
<1> DEFINE Tells(e) == e.name \in Carriers /\ sent[e.n].kind \in kinds
           m == Len(wire) + Len(es)
<1>1. /\ wire \in Seq(EventRecords) /\ Len(wire) \in Nat /\ Len(es) \in Nat
      /\ Carrying(kinds) \in SUBSET (1..Len(wire))
  BY Places
<1>2. /\ DOMAIN wire = 1..Len(wire) /\ DOMAIN es = 1..Len(es) /\ DOMAIN wire' = 1..m
      /\ \A k \in 1..Len(wire) : k \in 1..m /\ wire'[k] = wire[k]
      /\ \A k \in 1..m : k > Len(wire) => k - Len(wire) \in 1..Len(es) /\ wire'[k] = es[k - Len(wire)]
  BY <1>1
<1>3. Carrying(kinds) = {k \in 1..Len(wire) : Tells(wire[k])}
  BY <1>2 DEF Carrying
<1>4. Carrying(kinds)' = {k \in 1..m : Tells(wire'[k])}
  BY <1>2 DEF Carrying
<1> HIDE DEF Tells
<1>5. ASSUME \A j \in DOMAIN es : ~Tells(es[j])
      PROVE  Got(kinds)' = Got(kinds)
  <2>1. \A k \in 1..m : Tells(wire'[k]) <=> k \in 1..Len(wire) /\ Tells(wire[k])
    <3> TAKE k \in 1..m
    <3>1. CASE k <= Len(wire)
      BY <1>1, <1>2, <3>1
    <3>2. CASE k > Len(wire)
      BY <1>1, <1>2, <1>5, <3>2
    <3> QED
      BY <1>1, <3>1, <3>2
  <2>2. Carrying(kinds)' = Carrying(kinds)
    BY <1>2, <1>3, <1>4, <2>1
  <2>3. Numbers(wire \o es, Carrying(kinds)) = Numbers(wire, Carrying(kinds))
    BY <1>1, NumbersKept
  <2> QED
    BY <2>2, <2>3 DEF Got
<1>6. ASSUME es # <<>>, \A j \in DOMAIN es : Tells(es[j]) <=> j = Len(es)
      PROVE  Got(kinds)' = Append(Got(kinds), es[Len(es)].n)
  <2>1. Len(es) # 0 /\ Len(es) \in 1..Len(es)
    BY <1>1, <1>6, EmptySeq
  <2>2. m \in 1..m /\ m > Len(wire) /\ m - Len(wire) = Len(es)
    BY <1>1, <2>1
  <2>3. Tells(wire'[m])
    BY <1>2, <1>6, <2>1, <2>2
  <2>4. \A k \in 1..m : Tells(wire'[k]) <=> (k \in 1..Len(wire) /\ Tells(wire[k])) \/ k = m
    <3> TAKE k \in 1..m
    <3>1. CASE k <= Len(wire)
      BY <1>1, <1>2, <2>2, <3>1
    <3>2. CASE k > Len(wire)
      <4>1. k - Len(wire) \in DOMAIN es /\ wire'[k] = es[k - Len(wire)]
        BY <1>2, <3>2
      <4>2. k - Len(wire) = Len(es) <=> k = m
        BY <1>1
      <4>3. k \notin 1..Len(wire)
        BY <1>1, <3>2
      <4> QED
        BY <1>6, <4>1, <4>2, <4>3
    <3> QED
      BY <1>1, <3>1, <3>2
  <2>5. Carrying(kinds)' = Carrying(kinds) \cup {m}
    BY <1>2, <1>3, <1>4, <2>2, <2>4
  <2>7. Numbers(wire \o es, Carrying(kinds) \cup {m})
          = Append(Numbers(wire, Carrying(kinds)), es[Len(es)].n)
    <3> DEFINE P == Carrying(kinds)
    <3>1. P \in SUBSET (1..Len(wire))
      BY <1>1
    <3> HIDE DEF P
    <3>2. Numbers(wire \o es, P \cup {Len(wire) + Len(es)}) = Append(Numbers(wire, P), es[Len(es)].n)
      BY <1>1, <1>6, <3>1, NumbersGrow
    <3> QED
      BY <3>2 DEF P
  <2> QED
    BY <2>5, <2>7 DEF Got
<1> QED
  BY <1>5, <1>6 DEF Tells

\* What the client is due grows by the record that was read, if it is of the kinds in
\* question.
LEMMA Arrives ==
  ASSUME TypeOK, NEW kinds, NEW rec \in Records, sent' = sent \o <<rec>>
  PROVE  Due(kinds)' = IF rec.kind \in kinds THEN Append(Due(kinds), rec.n) ELSE Due(kinds)
<1> DEFINE t == <<rec>>
           m == Len(sent) + 1
<1>1. /\ sent \in Seq(Records) /\ Len(sent) \in Nat /\ Saying(kinds) \in SUBSET (1..Len(sent))
      /\ Due(kinds) = Numbers(sent, Saying(kinds))
  BY Places
<1>2. t \in Seq(Records) /\ Len(t) = 1 /\ t # <<>> /\ t[Len(t)] = rec
  BY Short
<1> HIDE DEF t
<1>3. /\ DOMAIN sent = 1..Len(sent) /\ DOMAIN sent' = 1..m /\ sent'[m] = rec
      /\ \A i \in 1..Len(sent) : sent'[i] = sent[i]
      /\ \A i \in 1..m : i \in 1..Len(sent) \/ i = m
      /\ m \in 1..m /\ \A i \in 1..Len(sent) : i \in 1..m
  <2>1. sent' = sent \o t
    BY DEF t
  <2> QED
    BY <1>1, <1>2, <2>1
<1>4. Saying(kinds) = {i \in 1..Len(sent) : sent[i].kind \in kinds}
  BY <1>3 DEF Saying
<1>5. Saying(kinds)' = {i \in 1..m : sent'[i].kind \in kinds}
  BY <1>3 DEF Saying
<1>6. Due(kinds)' = Numbers(sent \o t, Saying(kinds)')
  BY DEF Due, Saying, t
<1> HIDE DEF m
<1>7. CASE rec.kind \in kinds
  <2>1. Saying(kinds)' = Saying(kinds) \cup {m}
    BY <1>3, <1>4, <1>5, <1>7
  <2>3. Numbers(sent \o t, Saying(kinds) \cup {m}) = Append(Due(kinds), rec.n)
    <3> DEFINE P == Saying(kinds)
    <3>1. P \in SUBSET (1..Len(sent)) /\ Due(kinds) = Numbers(sent, P)
      BY <1>1
    <3> HIDE DEF P
    <3>2. Numbers(sent \o t, P \cup {Len(sent) + Len(t)}) = Append(Numbers(sent, P), t[Len(t)].n)
      BY <1>1, <1>2, <3>1, NumbersGrow
    <3>3. Len(sent) + Len(t) = m
      BY <1>2 DEF m
    <3> QED
      BY <1>2, <3>1, <3>2, <3>3 DEF P
  <2> QED
    BY <1>6, <1>7, <2>1, <2>3
<1>8. CASE rec.kind \notin kinds
  <2>1. Saying(kinds)' = Saying(kinds)
    BY <1>3, <1>4, <1>5, <1>8
  <2>2. Numbers(sent \o t, Saying(kinds)) = Due(kinds)
    BY <1>1, <1>2, NumbersKept
  <2> QED
    BY <1>6, <1>8, <2>1, <2>2
<1> QED
  BY <1>7, <1>8

\* The kinds that are followed are relayed: a router's own terminator, a comment and a
\* record that is too long are not among them, unless every byte is passed on.
LEMMA Passes ==
  ASSUME TypeOK, NEW kinds \in {AllKinds, Spoken, {"text"}}, Followed(kinds)
  PROVE  /\ Raw => kinds = AllKinds
         /\ ~Raw => "ping" \notin kinds /\ "done" \notin kinds /\ "huge" \notin kinds
         /\ ~Raw => \A rec \in Records : rec.kind \in kinds => Carries(rec)
         /\ Translated => ~Raw /\ kinds = {"text"}
<1>1. /\ AllKinds = {"open", "text", "think", "stop", "done", "error", "ping", "huge", "cut"}
      /\ Spoken = {"open", "text", "think", "stop", "error", "cut"}
  BY DEF AllKinds, Spoken, Kinds
<1>2. AllKinds # Spoken /\ AllKinds # {"text"} /\ Spoken # {"text"}
  <2>1. "done" \in AllKinds /\ "done" \notin Spoken /\ "open" \in Spoken /\ "open" \in AllKinds
    BY <1>1
  <2> QED
    BY <2>1
<1>3. Raw => kinds = AllKinds
  BY DEF Followed, Raw
<1>4. ~Raw => kinds = {"text"} \/ (kinds = Spoken /\ path.consumer = "openai" /\ ~Translated)
  BY DEF Followed, Translated
<1>5. Translated => ~Raw
  BY DEF Raw, Translated
<1> QED
  BY <1>1, <1>3, <1>4, <1>5 DEF Carries

\* A record that is read is followed into the queue.
LEMMA FollowsRead ==
  ASSUME IInv, Receive \/ BodyEnds, NEW kinds \in {AllKinds, Spoken, {"text"}},
         Followed(kinds), ReceivedAsSent(kinds)
  PROVE  ReceivedAsSent(kinds)'
<1> USE DEF IInv
<1>1. /\ \A i \in DOMAIN sent : sent'[i] = sent[i] /\ i \in DOMAIN sent'
      /\ UNCHANGED <<path, client, wire>> /\ pc = "reading"
  BY SentGrows
<1>2. /\ sent \in Seq(Records) /\ Len(sent) \in Nat
      /\ Got(kinds) \in Seq(Nat) /\ Due(kinds) \in Seq(Nat)
  BY Places
<1>3. Got(kinds)' = Got(kinds)
  <2>1. \A k \in DOMAIN wire : wire[k].name \in Carriers => sent'[wire[k].n] = sent[wire[k].n]
    BY <1>1 DEF Written
  <2>2. Carrying(kinds)' = Carrying(kinds)
    BY <1>1, <2>1 DEF Carrying
  <2> QED
    BY <1>1, <2>2 DEF Got
<1>4. /\ IsPrefixOf(Got(kinds), Due(kinds))
      /\ client = "here" => Due(kinds) = Got(kinds)
  BY <1>1 DEF ReceivedAsSent, Queued, Reading
<1>5. Translated => kinds = {"text"}
  BY Passes
<1>6. CASE sent' = sent /\ (queue' = <<>> \/ (Translated /\ queue' = <<Rec("done", 0)>>))
  <2>1. Due(kinds)' = Due(kinds)
    BY <1>6 DEF Due
  <2>2. ~Queued(kinds)'
    BY <1>5, <1>6 DEF Queued, Rec
  <2> QED
    BY <1>1, <1>3, <1>4, <2>1, <2>2 DEF ReceivedAsSent
<1>7. ASSUME NEW rec \in Records, sent' = sent \o <<rec>>,
             \/ queue' = <<rec>>
             \/ rec.kind \notin kinds /\ queue' = <<>>
             \/ rec.kind \notin kinds /\ Translated /\ queue' = <<Rec("done", 0)>>
      PROVE  ReceivedAsSent(kinds)'
  <2>1. Due(kinds)' = IF rec.kind \in kinds THEN Append(Due(kinds), rec.n) ELSE Due(kinds)
    BY <1>7, Arrives
  <2>2. CASE rec.kind \in kinds
    <3>1. Queued(kinds)' /\ Head(queue') = rec
      BY <1>7, <2>2 DEF Queued
    <3>2. rec.n \in Nat
      BY DEF Records
    <3>3. IsPrefixOf(Got(kinds), Append(Due(kinds), rec.n))
      BY <1>2, <1>4, <3>2, PrefixKept
    <3> QED
      BY <1>1, <1>3, <1>4, <2>1, <2>2, <3>1, <3>3 DEF ReceivedAsSent
  <2>3. CASE rec.kind \notin kinds
    <3>1. ~Queued(kinds)'
      BY <1>5, <1>7, <2>3 DEF Queued, Rec
    <3> QED
      BY <1>1, <1>3, <1>4, <2>1, <2>3, <3>1 DEF ReceivedAsSent
  <2> QED
    BY <2>2, <2>3
<1>8. CASE Receive
  <2>1. PICK k \in Kinds : /\ sent' = Append(sent, Rec(k, Len(sent) + 1))
                           /\ queue' = Returned(Rec(k, Len(sent) + 1))
    BY <1>8 DEF Receive
  <2> DEFINE rec == Rec(k, Len(sent) + 1)
  <2>2. rec \in Records
    BY <1>2 DEF Rec, Records
  <2>3. queue' = <<rec>> \/ (rec.kind \notin kinds /\ queue' = <<>>)
    BY <1>5, <2>1 DEF Returned, Translate
  <2> HIDE DEF rec
  <2>4. sent' = sent \o <<rec>>
    BY <1>2, <2>1, <2>2 DEF rec
  <2> QED
    BY <1>7, <2>2, <2>3, <2>4
<1>9. CASE BodyEnds
  <2> DEFINE rec == Rec("cut", Len(sent) + 1)
  <2>1. PICK part \in {<<>>, <<rec>>} : sent' = sent \o part /\ queue' = Remainder(part)
    BY <1>9 DEF BodyEnds
  <2>2. rec \in Records /\ rec.kind = "cut"
    BY <1>2 DEF Rec, Records
  <2> HIDE DEF rec
  <2>3. CASE part = <<>>
    <3>1. sent' = sent
      BY <1>2, <2>1, <2>3
    <3>2. queue' = <<>> \/ (Translated /\ queue' = <<Rec("done", 0)>>)
      BY <2>1, <2>3 DEF Remainder
    <3> QED
      BY <1>6, <3>1, <3>2
  <2>4. CASE part = <<rec>>
    <3>1. Translated => rec.kind \notin kinds
      BY <1>5, <2>2
    <3>2. queue' = <<rec>> \/ (Translated /\ queue' = <<Rec("done", 0)>>)
      BY <2>1, <2>4 DEF Remainder
    <3> QED
      BY <1>7, <2>1, <2>2, <2>4, <3>1, <3>2
  <2> QED
    BY <2>1, <2>3, <2>4
<1> QED
  BY <1>8, <1>9

\* What was queued reaches a client that is there.
LEMMA FollowsRelayed ==
  ASSUME IInv, Relay \/ RelayRaw, NEW kinds \in {AllKinds, Spoken, {"text"}},
         Followed(kinds), ReceivedAsSent(kinds)
  PROVE  ReceivedAsSent(kinds)'
<1> USE DEF IInv
<1> DEFINE rec == Head(queue)
           Tells(e) == e.name \in Carriers /\ sent[e.n].kind \in kinds
<1>1. UNCHANGED <<path, sent, client>> /\ queue' = Tail(queue) /\ queue # <<>>
  BY DEF Relay, RelayRaw
<1>2. /\ rec \in Records /\ queue' = <<>> /\ rec = sent[Len(sent)] /\ rec.n = Len(sent)
  BY <1>1, HeadIs DEF Relay, RelayRaw
<1>3. PICK es \in Seq(EventRecords) :
        /\ wire' = Received(es)
        /\ \A j \in DOMAIN es : Tells(es[j]) => rec.kind \in kinds /\ j = Len(es)
        /\ rec.kind \in kinds => es # <<>> /\ Len(es) \in DOMAIN es
                                 /\ Tells(es[Len(es)]) /\ es[Len(es)].n = rec.n
  <2>1. CASE Relay
    <3> DEFINE es == Events(rec)
    <3>1. wire' = Received(es) /\ ~Raw
      BY <2>1 DEF Relay
    <3>2. rec.kind \in kinds => Carries(rec)
      BY <1>2, <3>1, Passes
    <3>3. /\ es \in Seq(EventRecords)
          /\ \A j \in DOMAIN es : es[j].name \in Carriers => j = Len(es) /\ es[j].n = rec.n
          /\ Carries(rec) => es # <<>> /\ Len(es) \in DOMAIN es
                             /\ es[Len(es)].name \in Carriers /\ es[Len(es)].n = rec.n
      BY <1>2, EventsSay
    <3> HIDE DEF es
    <3>4. \A j \in DOMAIN es : Tells(es[j]) => rec.kind \in kinds /\ j = Len(es)
      BY <1>2, <3>3
    <3>5. rec.kind \in kinds => es # <<>> /\ Len(es) \in DOMAIN es
                                /\ Tells(es[Len(es)]) /\ es[Len(es)].n = rec.n
      BY <1>2, <3>2, <3>3
    <3> QED
      BY <3>1, <3>3, <3>4, <3>5
  <2>2. CASE RelayRaw
    <3> DEFINE e  == Event("raw", rec.n)
               es == <<e>>
    <3>1. wire' = Received(es) /\ Raw
      BY <2>2 DEF RelayRaw
    <3>2. e \in EventRecords /\ e.name \in Carriers /\ e.n = rec.n
      BY <1>2 DEF Event, EventRecords, EventNames, Carriers, Records
    <3>3. kinds = AllKinds /\ rec.kind \in kinds
      BY <1>2, <3>1, Passes DEF Records, AllKinds
    <3> HIDE DEF e
    <3>4. /\ es \in Seq(EventRecords) /\ DOMAIN es = {1} /\ Len(es) = 1 /\ es[1] = e
          /\ es # <<>>
      BY <3>2
    <3> HIDE DEF es
    <3>5. Tells(e)
      BY <1>2, <3>2, <3>3
    <3> QED
      BY <3>1, <3>2, <3>3, <3>4, <3>5
  <2> QED
    BY <2>1, <2>2
<1> HIDE DEF rec
<1>4. Due(kinds)' = Due(kinds) /\ ~Queued(kinds)'
  BY <1>1, <1>2 DEF Due, Queued
<1>5. /\ IsPrefixOf(Got(kinds), Due(kinds))
      /\ client = "here" => Due(kinds) = IF rec.kind \in kinds THEN Append(Got(kinds), rec.n)
                                         ELSE Got(kinds)
  BY <1>1 DEF ReceivedAsSent, Queued, rec
<1>6. CASE client # "here"
  <2>1. wire' = wire
    BY <1>3, <1>6 DEF Received
  <2>2. Got(kinds)' = Got(kinds)
    BY <1>1, <2>1 DEF Got, Carrying
  <2> QED
    BY <1>1, <1>4, <1>5, <1>6, <2>2 DEF ReceivedAsSent
<1>7. CASE client = "here"
  <2>1. wire' = wire \o es
    BY <1>3, <1>7 DEF Received
  <2>2. Got(kinds)' = Due(kinds)
    <3>1. CASE rec.kind \in kinds
      <4>1. \A j \in DOMAIN es : Tells(es[j]) <=> j = Len(es)
        BY <1>3, <3>1
      <4>2. Got(kinds)' = Append(Got(kinds), es[Len(es)].n)
        BY <1>1, <1>3, <2>1, <3>1, <4>1, Consumes
      <4> QED
        BY <1>3, <1>5, <1>7, <3>1, <4>2
    <3>2. CASE rec.kind \notin kinds
      <4>1. \A j \in DOMAIN es : ~Tells(es[j])
        BY <1>3, <3>2
      <4>2. Got(kinds)' = Got(kinds)
        BY <1>1, <2>1, <4>1, Consumes
      <4> QED
        BY <1>5, <1>7, <3>2, <4>2
    <3> QED
      BY <3>1, <3>2
  <2>3. IsPrefixOf(Due(kinds), Due(kinds))
    BY Places, PrefixKept
  <2> QED
    BY <1>1, <1>4, <2>2, <2>3 DEF ReceivedAsSent
<1> QED
  BY <1>6, <1>7

\* The end of a stream leaves nothing behind and adds nothing that carries a record.
LEMMA FollowsEnded ==
  ASSUME IInv, Finish \/ Skip, NEW kinds \in {AllKinds, Spoken, {"text"}},
         Followed(kinds), ReceivedAsSent(kinds)
  PROVE  ReceivedAsSent(kinds)'
<1> USE DEF IInv
<1>1. UNCHANGED <<path, sent, client>> /\ queue' = <<>> /\ ~Raw
  BY HeadIs DEF Finish, Skip
<1>2. client = "here" => ~Queued(kinds)
  <2>1. "ping" \notin kinds /\ "done" \notin kinds /\ "huge" \notin kinds
    BY <1>1, Passes
  <2> QED
    BY <2>1 DEF Finish, Skip, Queued
<1>3. Due(kinds)' = Due(kinds) /\ ~Queued(kinds)'
  BY <1>1 DEF Due, Queued
<1>4. Got(kinds)' = Got(kinds)
  <2>1. CASE wire' = wire
    BY <1>1, <2>1 DEF Got, Carrying
  <2>2. CASE wire' # wire
    <3> DEFINE es == Terminators
    <3>1. wire' = wire \o es
      BY <2>2 DEF Finish, Skip, Received
    <3>2. es \in Seq(EventRecords) /\ \A j \in DOMAIN es : es[j].name \notin Carriers
      BY TerminatorsSay
    <3> HIDE DEF es
    <3> QED
      BY <1>1, <3>1, <3>2, Consumes
  <2> QED
    BY <2>1, <2>2
<1> QED
  BY <1>1, <1>2, <1>3, <1>4 DEF ReceivedAsSent

\* Every step keeps what the client has in step with what it is due.
LEMMA FollowsStep ==
  ASSUME IInv, [Next]_vars, NEW kinds \in {AllKinds, Spoken, {"text"}}, Followed(kinds)'
  PROVE  ReceivedAsSent(kinds)'
<1>1. Followed(kinds) /\ ReceivedAsSent(kinds)
  <2>1. path' = path
    BY DEF Next, Own, Start, Read, Skip, Relay, Finish, RelayRaw, FinishRaw, Receive, BodyEnds,
           RelayError, IdleFires, HangUp, Notice, vars
  <2>2. Followed(kinds)
    BY <2>1 DEF Followed, Raw
  <2> QED
    BY <2>2 DEF IInv
<1>2. CASE Receive \/ BodyEnds
  BY <1>1, <1>2, FollowsRead
<1>3. CASE Relay \/ RelayRaw
  BY <1>1, <1>3, FollowsRelayed
<1>4. CASE Finish \/ Skip
  BY <1>1, <1>4, FollowsEnded
<1>5. CASE Start \/ Read \/ FinishRaw \/ RelayError \/ IdleFires \/ HangUp \/ Notice \/ UNCHANGED vars
  <2>1. UNCHANGED <<sent, queue, wire>> /\ (client' = "here" => client = "here")
    BY <1>5 DEF Start, Read, FinishRaw, RelayError, IdleFires, HangUp, Notice, vars
  <2>2. /\ Got(kinds)' = Got(kinds) /\ Due(kinds)' = Due(kinds)
        /\ Queued(kinds)' <=> Queued(kinds)
    BY <2>1 DEF Got, Carrying, Due, Queued
  <2> QED
    BY <1>1, <2>1, <2>2 DEF ReceivedAsSent
<1> QED
  BY <1>2, <1>3, <1>4, <1>5 DEF Next, Own

------------------------------------------------------------------------------
\* The invariant holds of a response header ...
LEMMA InitIInv == Init => IInv
<1> SUFFICES ASSUME Init
             PROVE  IInv
  OBVIOUS
<1> USE DEF Init
<1>1. TypeOK
  <2>1. /\ sent \in Seq(Records) /\ Len(sent) = 0
        /\ queue \in Seq(Records) /\ Len(queue) = 0
    BY ShortRecords
  <2>2. wire \in Seq([name : EventNames, n : Nat])
    OBVIOUS
  <2>3. MaxRecords \in Nat
    BY StreamAssumption
  <2>4. Len(sent) <= MaxRecords + 1 /\ Len(queue) <= 1
    BY <2>1, <2>3
  <2> QED
    BY <2>1, <2>2, <2>4 DEF TypeOK
<1>2. DOMAIN sent = {} /\ DOMAIN wire = {} /\ Len(sent) = 0
  OBVIOUS
<1>3. Reading
  BY <1>2, StreamAssumption DEF Reading
<1>4. Split /\ Written /\ Opened
  BY <1>2 DEF Split, Written, Opened
<1>5. Remembers
  BY <1>2 DEF Remembers, IsLastStop, Saying
<1>6. ASSUME NEW kinds
      PROVE  ReceivedAsSent(kinds)
  <2>1. Carrying(kinds) = {} /\ Saying(kinds) = {} /\ ~Queued(kinds)
    BY <1>2 DEF Carrying, Saying, Queued
  <2>2. {} \in SUBSET Nat /\ IsFiniteSet({}) /\ Cardinality({}) = 0
    BY FS_EmptySet
  <2>3. DOMAIN Ascending({}) = {}
    BY <2>2, AscendingLists
  <2>4. Got(kinds) = Due(kinds)
    BY <2>1, <2>3 DEF Got, Due, Saying, Numbers
  <2>5. IsPrefixOf(Due(kinds), Due(kinds))
    BY <1>1, Places, PrefixKept
  <2> QED
    BY <2>1, <2>4, <2>5 DEF ReceivedAsSent
<1> QED
  BY <1>1, <1>3, <1>4, <1>5, <1>6 DEF IInv

\* ... and of every state of a call.
LEMMA Invariance == Spec => []IInv
<1>1. IInv /\ [Next]_vars => IInv'
  <2> SUFFICES ASSUME IInv, [Next]_vars
               PROVE  IInv'
    OBVIOUS
  <2>1. \A kinds \in {AllKinds, Spoken, {"text"}} : Followed(kinds)' => ReceivedAsSent(kinds)'
    BY FollowsStep
  <2>2. (\A kinds \in {AllKinds, Spoken, {"text"}} : Followed(kinds) => ReceivedAsSent(kinds))'
    BY <2>1
  <2> QED
    BY <2>2, TypeStep, ReadingStep, SplitStep, WrittenStep, OpenedStep, RemembersStep DEF IInv
<1> QED
  BY <1>1, InitIInv, PTL DEF Spec

\* A call keeps its shape, whatever upstream and client do: at most one record is under
\* way between the reader and the sink.
THEOREM TypeCorrect == Spec => []TypeOK
<1>1. IInv => TypeOK
  BY DEF IInv
<1> QED
  BY <1>1, Invariance, PTL

\* What is followed is delivered.
LEMMA FollowedDelivered ==
  ASSUME IInv, NEW kinds \in {AllKinds, Spoken, {"text"}}, Followed(kinds)
  PROVE  Delivered(Got(kinds), Due(kinds))
<1>1. ReceivedAsSent(kinds)
  BY DEF IInv
<1>2. pc = "ended" /\ client = "here" => ~Queued(kinds)
  BY DEF IInv, Reading, Queued
<1> QED
  BY <1>1, <1>2 DEF ReceivedAsSent, Delivered

\* relayRawStream and relayStream between two OpenAI protocols hand every record on, in
\* order and once, for every upstream, every break and every moment the client leaves.
THEOREM Verbatim == Spec => []SameProtocolVerbatim
<1>1. IInv => SameProtocolVerbatim
  <2> SUFFICES ASSUME IInv
               PROVE  SameProtocolVerbatim
    OBVIOUS
  <2>1. \A i \in DOMAIN sent : sent[i].kind \in AllKinds
    <3>1. sent \in Seq(Records)
      BY DEF IInv, TypeOK
    <3>2. \A i \in DOMAIN sent : sent[i] \in Records
      BY <3>1
    <3> QED
      BY <3>2 DEF Records, AllKinds
  <2>2. ASSUME Raw
        PROVE  Delivered(Carried({"raw"}), Due(AllKinds))
    <3>1. \A k \in DOMAIN wire : wire[k].name = "raw" /\ wire[k].n \in DOMAIN sent
      BY <2>2 DEF IInv, Written, Carriers
    <3>2. Carrying(AllKinds) = {k \in DOMAIN wire : wire[k].name \in {"raw"}}
      BY <2>1, <3>1 DEF Carrying, Carriers
    <3>3. Got(AllKinds) = Carried({"raw"})
      BY <3>2 DEF Got, Carried
    <3> QED
      BY <2>2, <3>3, FollowedDelivered DEF Followed
  <2>3. ASSUME path.consumer = "openai", path.provider = "openai"
        PROVE  Delivered(Carried({"chunk"}), Due(Spoken))
    <3>1. \A k \in DOMAIN wire : /\ wire[k].name \in {"chunk", "[DONE]"}
                                 /\ wire[k].name = "chunk" => sent[wire[k].n].kind \in Spoken
      BY <2>3 DEF IInv, Written, Carriers
    <3>2. Carrying(Spoken) = {k \in DOMAIN wire : wire[k].name \in {"chunk"}}
      BY <3>1 DEF Carrying, Carriers
    <3>3. Got(Spoken) = Carried({"chunk"})
      BY <3>2 DEF Got, Carried
    <3> QED
      BY <2>3, <3>3, FollowedDelivered DEF Followed
  <2> QED
    BY <2>2, <2>3 DEF SameProtocolVerbatim
<1> QED
  BY <1>1, Invariance, PTL

\* Whatever the pair of protocols, anthropicStreamReader and the sinks keep the text
\* complete, in order and once.
THEOREM TextDelivered == Spec => []TextFaithful
<1>1. IInv => TextFaithful
  <2> SUFFICES ASSUME IInv, ~Raw
               PROVE  Delivered(Numbers(wire, {k \in DOMAIN wire :
                                     /\ wire[k].name \in {"chunk", "content_block_delta"}
                                     /\ sent[wire[k].n].kind = "text"}), Due({"text"}))
    BY DEF TextFaithful
  <2>1. \A k \in DOMAIN wire : wire[k].name # "raw"
    BY DEF IInv, Written
  <2>2. Carrying({"text"}) = {k \in DOMAIN wire :
                                /\ wire[k].name \in {"chunk", "content_block_delta"}
                                /\ sent[wire[k].n].kind = "text"}
    BY <2>1 DEF Carrying, Carriers
  <2>3. Delivered(Got({"text"}), Due({"text"}))
    BY FollowedDelivered DEF Followed
  <2> QED
    BY <2>2, <2>3 DEF Got
<1> QED
  BY <1>1, Invariance, PTL

\* The last number of an ascending listing of records is that of the last of them.
LEMMA LastOfDue ==
  ASSUME TypeOK, Reading, NEW kinds, NEW n \in Nat
  PROVE  /\ Saying(kinds) = {} => Due(kinds) = <<>>
         /\ n \in Saying(kinds) /\ (\A i \in Saying(kinds) : i <= n) =>
              Due(kinds) # <<>> /\ Due(kinds)[Len(Due(kinds))] = n
<1> DEFINE P == Saying(kinds)
           A == Ascending(P)
           c == Cardinality(P)
           D == Due(kinds)
<1>1. /\ sent \in Seq(Records) /\ Len(sent) \in Nat /\ P \in SUBSET (1..Len(sent))
      /\ D \in Seq(Nat) /\ D = Numbers(sent, P)
  BY Places
<1>2. P \in SUBSET Nat /\ IsFiniteSet(P) /\ c \in Nat
  BY <1>1, PlacesFinite
<1>3. /\ DOMAIN A = 1..c
      /\ {A[k] : k \in 1..c} = P
      /\ \A k, l \in 1..c : k < l => A[k] < A[l]
      /\ \A k \in 1..c : A[k] \in P
  BY <1>2, AscendingLists, AscendingAt
<1>4. D = [k \in 1..c |-> sent[A[k]].n]
  BY <1>1, <1>3 DEF Numbers
<1>5. \A i \in P : sent[i].n = i
  BY DEF Reading, Saying
<1>6. \A i \in P : i \in Nat
  BY <1>2
<1>7. P = {} => c = 0
  BY FS_EmptySet
<1>8. P # {} => c # 0
  BY <1>2, FS_EmptySet
<1> HIDE DEF P, A, c, D
<1>9. Len(D) = c
  BY <1>1, <1>2, <1>4
<1>10. ASSUME P = {}
       PROVE  D = <<>>
  BY <1>1, <1>7, <1>9, <1>10, EmptySeq
<1>11. ASSUME n \in P, \A i \in P : i <= n
       PROVE  D # <<>> /\ D[Len(D)] = n
  <2>1. c \in 1..c
    BY <1>2, <1>8, <1>11
  <2>2. PICK k \in 1..c : A[k] = n
    BY <1>3, <1>11
  <2>3. A[c] \in P /\ A[c] <= n
    BY <1>3, <1>11, <2>1
  <2>4. ~(k < c)
    <3>1. A[c] \in Nat
      BY <1>6, <2>3
    <3>2. k < c => n < A[c]
      BY <1>3, <2>1, <2>2
    <3> QED
      BY <2>3, <3>1, <3>2
  <2>5. k = c
    BY <1>2, <2>4
  <2>6. D[c] = n
    BY <1>4, <1>5, <1>11, <2>1, <2>2, <2>5
  <2>7. D # <<>>
    BY <1>2, <1>9, <2>1, EmptySeq
  <2> QED
    BY <1>9, <2>6, <2>7
<1> QED
  BY <1>10, <1>11 DEF P, D

\* An Anthropic consumer is told the last finish reason that the upstream gave:
\* anthropicSink remembers it and EndStream tells it, once nothing more is to come.
THEOREM StopReasonKept == Spec => []StopReasonFaithful
<1>1. IInv => StopReasonFaithful
  <2> SUFFICES ASSUME IInv, path.consumer = "anthropic",
                      NEW k \in DOMAIN wire, wire[k].name = "message_delta"
               PROVE  LET stops == Due({"stop"})
                      IN wire[k].n = IF stops = <<>> THEN 0 ELSE stops[Len(stops)]
    BY DEF StopReasonFaithful
  <2>1. ~Raw
    BY DEF IInv, Written
  <2>2. IsLastStop(wire[k].n)
    BY <2>1 DEF IInv, Remembers
  <2>3. wire[k].n \in Nat
    <3>1. wire \in Seq(EventRecords)
      BY DEF IInv, TypeOK, EventRecords
    <3>2. wire[k] \in EventRecords
      BY <3>1
    <3> QED
      BY <3>2 DEF EventRecords
  <2> QED
    BY <2>2, <2>3, LastOfDue DEF IInv, IsLastStop
<1> QED
  BY <1>1, Invariance, PTL

------------------------------------------------------------------------------
\* The names of some events, as EventStream sees them.
Names(es) == [k \in DOMAIN es |-> es[k].name]

LEMMA NamesTyped ==
  ASSUME NEW s \in Seq(EventRecords)
  PROVE  /\ Names(s) \in Seq(EventNames) /\ Len(Names(s)) = Len(s)
         /\ Names(s) = [k \in 1..Len(s) |-> s[k].name]
<1> DEFINE n == Len(s)
<1>1. n \in Nat /\ DOMAIN s = 1..n /\ \A k \in 1..n : s[k] \in EventRecords
  OBVIOUS
<1>2. Names(s) = [k \in 1..n |-> s[k].name]
  BY <1>1 DEF Names
<1> HIDE DEF n
<1>3. Names(s) \in [1..n -> EventNames]
  BY <1>1, <1>2 DEF EventRecords
<1>4. Names(s) \in Seq(EventNames) /\ Len(Names(s)) = n
  BY <1>1, <1>3
<1> QED
  BY <1>2, <1>4 DEF n

LEMMA NamesOf ==
  ASSUME NEW s \in Seq(EventRecords), NEW t \in Seq(EventRecords)
  PROVE  /\ Names(s) \in Seq(EventNames) /\ Len(Names(s)) = Len(s)
         /\ Names(s \o t) = Names(s) \o Names(t)
<1>1. /\ Len(s) \in Nat /\ DOMAIN s = 1..Len(s)
      /\ Len(t) \in Nat /\ DOMAIN t = 1..Len(t)
  OBVIOUS
<1>2. /\ Names(s) = [k \in 1..Len(s) |-> s[k].name]
      /\ Names(t) = [k \in 1..Len(t) |-> t[k].name]
  BY NamesTyped
<1>4. /\ Names(s) \in Seq(EventNames) /\ Len(Names(s)) = Len(s)
      /\ Names(t) \in Seq(EventNames) /\ Len(Names(t)) = Len(t)
  BY NamesTyped
<1> DEFINE w == s \o t
           u == Names(s) \o Names(t)
           m == Len(s) + Len(t)
<1>5. /\ w \in Seq(EventRecords) /\ DOMAIN w = 1..m
      /\ \A k \in 1..m : w[k] = IF k <= Len(s) THEN s[k] ELSE t[k - Len(s)]
  BY <1>1
<1>6. /\ u \in Seq(EventNames) /\ Len(u) = m
      /\ \A k \in 1..m : u[k] = IF k <= Len(s) THEN Names(s)[k] ELSE Names(t)[k - Len(s)]
  <2> DEFINE x == Names(s)
             y == Names(t)
  <2>1. x \in Seq(EventNames) /\ y \in Seq(EventNames) /\ Len(x) = Len(s) /\ Len(y) = Len(t)
    BY <1>4
  <2> HIDE DEF x, y
  <2>2. /\ x \o y \in Seq(EventNames) /\ Len(x \o y) = Len(x) + Len(y)
        /\ \A k \in 1..(Len(x) + Len(y)) :
             (x \o y)[k] = IF k <= Len(x) THEN x[k] ELSE y[k - Len(x)]
    BY <2>1, ConcatProperties
  <2> QED
    BY <2>1, <2>2 DEF x, y
<1>7. Names(w) = [k \in 1..m |-> w[k].name]
  BY <1>5 DEF Names
<1> HIDE DEF w, u
<1>8. \A k \in 1..m : Names(w)[k] = u[k]
  <2> TAKE k \in 1..m
  <2>1. CASE k <= Len(s)
    <3>1. k \in 1..Len(s)
      BY <1>1, <2>1
    <3> QED
      BY <1>1, <1>2, <1>5, <1>6, <1>7, <2>1, <3>1
  <2>2. CASE k > Len(s)
    <3>1. k - Len(s) \in 1..Len(t) /\ ~(k <= Len(s))
      BY <1>1, <2>2
    <3> QED
      BY <1>1, <1>2, <1>5, <1>6, <1>7, <3>1
  <2> QED
    BY <1>1, <2>1, <2>2
<1>9. Names(w) \in Seq(EventNames) /\ Len(Names(w)) = m
  <2>1. Len(w) = m
    BY <1>1 DEF w
  <2> QED
    BY <1>5, <2>1, NamesTyped
<1>10. Names(w) = u
  BY <1>6, <1>8, <1>9, SeqEqual
<1> QED
  BY <1>4, <1>10 DEF w, u

\* The names of the few events a sink writes at a time.
LEMMA NamesFew ==
  ASSUME NEW a, NEW b, NEW c
  PROVE  /\ Names(<<>>) = <<>>
         /\ Names(<<a>>) = <<a.name>>
         /\ Names(<<a, b>>) = <<a.name, b.name>>
         /\ Names(<<a, b, c>>) = <<a.name, b.name, c.name>>
  BY DEF Names

\* EventStream's view of the call.
Shown == IF Spliced THEN Names(wire) ELSE <<>>

\* What the client gets of an opening and a piece.
LEMMA Extends ==
  ASSUME TypeOK, NEW opening \in Seq(EventRecords), NEW piece \in Seq(EventRecords),
         wire' = wire \o (opening \o piece)
  PROVE  Names(wire') = (Names(wire) \o Names(opening)) \o Names(piece)
<1>1. wire \in Seq(EventRecords)
  BY DEF TypeOK, EventRecords
<1>2. opening \o piece \in Seq(EventRecords)
  BY ConcatProperties
<1>3. Names(wire \o (opening \o piece)) = Names(wire) \o Names(opening \o piece)
  BY <1>1, <1>2, NamesOf
<1>4. Names(opening \o piece) = Names(opening) \o Names(piece)
  BY NamesOf
<1>5. /\ Names(wire) \in Seq(EventNames) /\ Names(opening) \in Seq(EventNames)
      /\ Names(piece) \in Seq(EventNames)
  BY <1>1, NamesOf
<1> DEFINE x == Names(wire)
           y == Names(opening)
           z == Names(piece)
<1>6. (x \o y) \o z = x \o (y \o z)
  <2>1. x \in Seq(EventNames) /\ y \in Seq(EventNames) /\ z \in Seq(EventNames)
    BY <1>5
  <2> HIDE DEF x, y, z
  <2> QED
    BY <2>1, ConcatAssociative
<1> QED
  BY <1>3, <1>4, <1>6

\* The sink opens a message when EventStream would.
LEMMA OpensOnce ==
  ASSUME IInv, ~Raw, client = "here", pc # "ended", path.consumer = "anthropic"
  PROVE  /\ EmitStart \in Seq(EventRecords)
         /\ Names(EmitStart) = IF Names(wire) = <<>>
                               THEN <<"message_start", "content_block_start">> ELSE <<>>
<1> DEFINE ms == Event("message_start", 0)
           cb == Event("content_block_start", 0)
<1>1. ms \in EventRecords /\ cb \in EventRecords
  BY DEF Event, EventRecords, EventNames
<1>2. ms.name = "message_start" /\ cb.name = "content_block_start"
  BY DEF Event
<1>3. EmitStart = IF started THEN <<>> ELSE <<ms, cb>>
  BY DEF EmitStart
<1> HIDE DEF ms, cb
<1>4. <<>> \in Seq(EventRecords) /\ <<ms, cb>> \in Seq(EventRecords)
  BY <1>1
<1>5. Names(<<>>) = <<>> /\ Names(<<ms, cb>>) = <<"message_start", "content_block_start">>
  BY <1>2, NamesFew
<1>6. started <=> wire # <<>>
  BY DEF IInv, Opened
<1>7. wire = <<>> <=> Names(wire) = <<>>
  <2>1. wire \in Seq(EventRecords)
    BY DEF IInv, TypeOK, EventRecords
  <2>2. Names(wire) \in Seq(EventNames) /\ Len(Names(wire)) = Len(wire)
    BY <2>1, NamesOf
  <2> QED
    BY <2>1, <2>2, EmptySeq
<1> QED
  BY <1>3, <1>4, <1>5, <1>6, <1>7

\* A payload that is handed to the sink is delivered, ...
LEMMA Delivers ==
  ASSUME IInv, Relay, client = "here"
  PROVE  ES!Deliver \/ UNCHANGED <<path.consumer, Shown, client = "here", Spliced /\ pc = "ended">>
<1> USE DEF IInv
<1> DEFINE rec == Head(queue)
<1>1. ~Raw /\ pc = "relaying" /\ wire' = Received(Events(rec)) /\ UNCHANGED <<path, client>>
  BY DEF Relay
<1>2. pc' = pc
  BY DEF Relay, WriteResults
<1>3. Spliced /\ Spliced' /\ Shown = Names(wire) /\ Shown' = Names(wire')
  BY <1>1 DEF Split, Spliced, Raw, Shown
<1>4. rec \in Records /\ path.consumer \in {"openai", "anthropic"}
  BY HeadIs, StreamAssumption DEF Relay, TypeOK, Path
<1>5. wire' = wire \o Events(rec) /\ wire \in Seq(EventRecords)
  BY <1>1 DEF Received, TypeOK, EventRecords
<1>6. \E piece \in {<<>>, <<ES!Delta>>} :
        Names(wire') = (Names(wire) \o ES!Missing) \o piece
      \/ wire' = wire
  <2>1. CASE path.consumer = "openai"
    <3> DEFINE e == Event("chunk", rec.n)
    <3>1. Events(rec) = <<e>> /\ e \in EventRecords /\ e.name = "chunk"
      BY <1>4, <2>1 DEF Events, Event, EventRecords, EventNames, Records
    <3> HIDE DEF e
    <3>2. <<e>> \in Seq(EventRecords) /\ <<>> \in Seq(EventRecords)
      BY <3>1
    <3>3. <<>> \o <<e>> = <<e>>
      BY <3>2, ConcatEmptySeq
    <3>4. Names(wire') = (Names(wire) \o Names(<<>>)) \o Names(<<e>>)
      BY <1>5, <3>1, <3>2, <3>3, Extends
    <3>5. Names(<<>>) = <<>> /\ Names(<<e>>) = <<"chunk">>
      BY <3>1, NamesFew
    <3>6. ES!Missing = <<>> /\ ES!Delta = "chunk"
      BY <2>1 DEF ES!Missing, ES!Opening, ES!Delta
    <3> QED
      BY <3>4, <3>5, <3>6
  <2>2. CASE path.consumer = "anthropic"
    <3> DEFINE e == Event("content_block_delta", rec.n)
               x == IF rec.kind = "text" THEN <<e>> ELSE <<>>
    <3>1. CASE rec.kind = "cut"
      <4>1. Events(rec) = <<>>
        BY <2>2, <3>1 DEF Events
      <4> QED
        BY <1>5, <4>1, ConcatEmptySeq
    <3>2. CASE rec.kind # "cut"
      <4>1. Events(rec) = EmitStart \o x
        BY <2>2, <3>2 DEF Events
      <4>2. e \in EventRecords /\ e.name = "content_block_delta"
        BY <1>4 DEF Event, EventRecords, EventNames, Records
      <4> HIDE DEF e
      <4>3. x \in Seq(EventRecords)
        BY <4>2
      <4>4. Names(<<>>) = <<>> /\ Names(<<e>>) = <<"content_block_delta">>
        BY <4>2, NamesFew
      <4>5. ES!Delta = "content_block_delta"
        BY <2>2 DEF ES!Delta
      <4>6. Names(x) \in {<<>>, <<ES!Delta>>}
        BY <4>4, <4>5
      <4> HIDE DEF x
      <4>7. Names(EmitStart) = ES!Missing /\ EmitStart \in Seq(EventRecords)
        BY <1>1, <1>3, <2>2, OpensOnce DEF ES!Missing, ES!Opening, Shown, Names
      <4>8. Names(wire') = (Names(wire) \o Names(EmitStart)) \o Names(x)
        BY <1>5, <4>1, <4>3, <4>7, Extends
      <4> QED
        BY <4>6, <4>7, <4>8
    <3> QED
      BY <3>1, <3>2
  <2> QED
    BY <1>4, <2>1, <2>2
<1>7. CASE wire' = wire
  BY <1>1, <1>2, <1>3, <1>7
<1>8. CASE wire' # wire
  <2>1. PICK piece \in {<<>>, <<ES!Delta>>} : Names(wire') = (Names(wire) \o ES!Missing) \o piece
    BY <1>6, <1>8
  <2> QED
    BY <1>1, <1>2, <1>3, <2>1 DEF ES!Deliver, Shown, Names
<1> QED
  BY <1>7, <1>8

\* ... and the end of the relay completes the message.
LEMMA Completes ==
  ASSUME IInv, Finish, client = "here"
  PROVE  ES!Complete
<1> USE DEF IInv
<1>1. /\ ~Raw /\ pc = "relaying" /\ pc' = "ended" /\ wire' = Received(Terminators)
      /\ UNCHANGED <<path, client>>
  BY DEF Finish, Return
<1>2. Spliced /\ Spliced' /\ Shown = Names(wire) /\ Shown' = Names(wire')
  BY <1>1 DEF Split, Spliced, Raw, Shown
<1>3. path.consumer \in {"openai", "anthropic"} /\ stop \in Nat
  BY StreamAssumption DEF TypeOK, Path
<1>4. wire' = wire \o Terminators
  BY <1>1 DEF Received
<1>5. Names(wire') = (Names(wire) \o ES!Missing) \o ES!Closing
  <2>1. CASE path.consumer = "openai"
    <3> DEFINE e == Event("[DONE]", 0)
    <3>1. Terminators = <<e>> /\ e \in EventRecords /\ e.name = "[DONE]"
      BY <2>1 DEF Terminators, Event, EventRecords, EventNames
    <3> HIDE DEF e
    <3>2. <<e>> \in Seq(EventRecords) /\ <<>> \in Seq(EventRecords)
      BY <3>1
    <3>3. <<>> \o <<e>> = <<e>>
      BY <3>2, ConcatEmptySeq
    <3>4. Names(wire') = (Names(wire) \o Names(<<>>)) \o Names(<<e>>)
      BY <1>4, <3>1, <3>2, <3>3, Extends
    <3>5. Names(<<>>) = <<>> /\ Names(<<e>>) = <<"[DONE]">>
      BY <3>1, NamesFew
    <3>6. ES!Missing = <<>> /\ ES!Closing = <<"[DONE]">>
      BY <2>1 DEF ES!Missing, ES!Opening, ES!Closing
    <3> QED
      BY <3>4, <3>5, <3>6
  <2>2. CASE path.consumer = "anthropic"
    <3> DEFINE a == Event("content_block_stop", 0)
               b == Event("message_delta", stop)
               c == Event("message_stop", 0)
               x == <<a, b, c>>
    <3>1. Terminators = EmitStart \o x
      BY <2>2 DEF Terminators
    <3>2. /\ a \in EventRecords /\ b \in EventRecords /\ c \in EventRecords
          /\ a.name = "content_block_stop" /\ b.name = "message_delta" /\ c.name = "message_stop"
      BY <1>3 DEF Event, EventRecords, EventNames
    <3> HIDE DEF a, b, c
    <3>3. x \in Seq(EventRecords)
      BY <3>2
    <3>4. Names(x) = ES!Closing
      <4>1. Names(<<a, b, c>>) = <<a.name, b.name, c.name>>
        BY NamesFew
      <4>2. ES!Closing = <<"content_block_stop", "message_delta", "message_stop">>
        BY <2>2 DEF ES!Closing
      <4> QED
        BY <3>2, <4>1, <4>2
    <3> HIDE DEF x
    <3>5. Names(EmitStart) = ES!Missing /\ EmitStart \in Seq(EventRecords)
      BY <1>1, <1>2, <2>2, OpensOnce DEF ES!Missing, ES!Opening, Shown, Names
    <3>6. Names(wire') = (Names(wire) \o Names(EmitStart)) \o Names(x)
      BY <1>4, <3>1, <3>3, <3>5, Extends
    <3> QED
      BY <3>4, <3>5, <3>6
  <2> QED
    BY <1>3, <2>1, <2>2
<1> QED
  BY <1>1, <1>2, <1>5 DEF ES!Complete, Shown, Names

\* Every step of a call is a step of EventStream, or none that it can see.
LEMMA GrammarStep ==
  IInv /\ [Next]_vars =>
    [ES!StreamNext]_<<path.consumer, Shown, client = "here", Spliced /\ pc = "ended">>
<1> DEFINE seen == <<path.consumer, Shown, client = "here", Spliced /\ pc = "ended">>
<1> SUFFICES ASSUME IInv, [Next]_vars
             PROVE  ES!StreamNext \/ UNCHANGED seen
  OBVIOUS
<1> USE DEF IInv
<1>1. CASE Start \/ Read \/ Skip \/ Receive \/ BodyEnds \/ IdleFires \/ UNCHANGED vars
  <2>1. UNCHANGED <<path, wire, client>> /\ (pc = "ended" <=> pc' = "ended")
    BY <1>1 DEF Start, Read, Skip, Receive, BodyEnds, IdleFires, vars
  <2> QED
    BY <2>1 DEF Shown, Names, Spliced, Raw
<1>2. CASE RelayError
  <2>1. UNCHANGED <<path, wire, client>> /\ ~path.ok
    BY <1>2 DEF RelayError, Split
  <2> QED
    BY <2>1 DEF Shown, Names, Spliced, Raw
<1>3. CASE RelayRaw \/ FinishRaw
  <2>1. UNCHANGED <<path, client>> /\ Raw
    BY <1>3 DEF RelayRaw, FinishRaw
  <2> QED
    BY <2>1 DEF Shown, Spliced, Raw
<1>4. CASE HangUp \/ Notice
  <2>1. UNCHANGED <<path, wire, pc>> /\ client' # "here"
    BY <1>4 DEF HangUp, Notice
  <2>2. Shown' = Shown /\ Spliced' = Spliced
    BY <2>1 DEF Shown, Names, Spliced, Raw
  <2>3. CASE client = "here"
    <3>1. ES!Leave
      BY <2>1, <2>2, <2>3 DEF ES!Leave, Shown, Names
    <3> QED
      BY <3>1 DEF ES!StreamNext
  <2>4. CASE client # "here"
    BY <2>1, <2>2, <2>4
  <2> QED
    BY <2>3, <2>4
<1>5. CASE (Relay \/ Finish) /\ client = "here"
  BY <1>5, Delivers, Completes DEF ES!StreamNext
<1>6. CASE (Relay \/ Finish) /\ client # "here"
  <2>1. /\ UNCHANGED <<path, client, wire>> /\ ~Raw /\ pc = "relaying"
        /\ pc' \in {"relaying", "ended"}
    BY <1>6 DEF Relay, Finish, Received, Return
  <2>2. Shown' = Shown /\ Spliced' /\ Spliced
    BY <2>1 DEF Shown, Names, Spliced, Raw, Split
  <2>3. CASE pc' = "relaying"
    BY <2>1, <2>2, <2>3
  <2>4. CASE pc' = "ended"
    <3>1. ES!Abandon
      BY <1>6, <2>1, <2>2, <2>4 DEF ES!Abandon, Shown, Names
    <3> QED
      BY <3>1 DEF ES!StreamNext
  <2> QED
    BY <2>1, <2>3, <2>4
<1> QED
  BY <1>1, <1>2, <1>3, <1>4, <1>5, <1>6 DEF Next, Own

\* Translated and spliced streams implement EventStream for every upstream: a client
\* that stays is shown a well-formed message, opened before anything in it and closed
\* exactly once, whatever the sinks were handed.
THEOREM GrammarKept == Spec => KeepsGrammar
<1>1. Init => ES!StreamInit
  <2> SUFFICES ASSUME Init
               PROVE  ES!StreamInit
    OBVIOUS
  <2>1. path.consumer \in {"openai", "anthropic"}
    BY StreamAssumption DEF Init, Path
  <2>2. Shown = <<>>
    BY NamesFew DEF Init, Shown
  <2>3. client = "here" /\ pc # "ended"
    BY DEF Init
  <2> QED
    BY <2>1, <2>2, <2>3 DEF ES!StreamInit, Shown, Names
<1>2. IInv /\ [Next]_vars =>
        [ES!StreamNext]_<<path.consumer,
                          IF Spliced THEN [k \in DOMAIN wire |-> wire[k].name] ELSE <<>>,
                          client = "here", Spliced /\ pc = "ended">>
  BY GrammarStep DEF Shown, Names
<1> QED
  BY <1>1, <1>2, Invariance, PTL DEF Spec, KeepsGrammar, ES!StreamSpec
==============================================================================
