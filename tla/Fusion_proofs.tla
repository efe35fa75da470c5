----------------------------- MODULE Fusion_proofs -----------------------------
(***************************************************************************)
(* Proofs about the fusion strategy, for every fleet, every set of         *)
(* councils, panels of any size and any number of requests.                *)
(*                                                                         *)
(* IInv is the inductive invariant.  Stage says, for every point of        *)
(* Execute, what was pinned, asked, decided and shown so far; the books of *)
(* the channel are part of TypeOK; and the gauges are compared with the    *)
(* open calls of all requests together, which stay finitely many.          *)
(***************************************************************************)
EXTENDS Fusion, Ascending_proofs

\* Nothing was pinned, asked or shown.
Fresh(r) ==
  /\ pinned[r] = Unpinned
  /\ seat[r] = <<>> /\ results[r] = <<>> /\ collected[r] = Pending /\ answers[r] = <<>>
  /\ wire[r] = <<>>

\* Every panelist reported, and enough of them answered.
Convened(r) ==
  /\ pinned[r] \in Roles
  /\ AllCollected(r)
  /\ answers[r] = InOrder(r)
  /\ Len(answers[r]) >= council[r].minPanel

\* Every panelist reported, and too few of them answered.
Adjourned(r) ==
  /\ pinned[r] \in Roles
  /\ AllCollected(r)
  /\ Cardinality(collected[r].texts) < council[r].minPanel

\* The client has the head of the synthesis.
Shown(r) == Convened(r) /\ Len(wire[r]) = 1 /\ wire[r][1].from = pinned[r].synthesis

\* The router has something of its own to say, and with which status.
Owing(r) ==
  /\ wire[r] = <<>>
  /\ \/ outcome[r].err = "panic" /\ Convened(r)
     \/ outcome[r].err = "api" /\ outcome[r].status = 503 /\ pinned[r] = Unpinned
     \/ outcome[r].err = "api" /\ outcome[r].status = 502 /\ (Convened(r) \/ Adjourned(r))

\* The one answer of a handler that returned.
Answered(r) ==
  \/ Shown(r)
  \/ wire[r] = <<FHead(503, {})>> /\ pinned[r] = Unpinned
  \/ wire[r] = <<FHead(502, {})>> /\ (Convened(r) \/ Adjourned(r))

Stage(r) ==
  /\ pc[r] = "idle" => Fresh(r)
  /\ pc[r] = "panel" =>
       pinned[r] \in Roles /\ answers[r] = <<>> /\ wire[r] = <<>>
  /\ pc[r] \in {"judging", "synthesizing", "calling", "reading"} =>
       Convened(r) /\ wire[r] = <<>>
  /\ pc[r] = "streaming" => Shown(r)
  /\ pc[r] = "returned" => Shown(r) \/ Owing(r)
  /\ pc[r] = "done" => Answered(r)
  /\ pc[r] # "panel" => \A i \in Panel(r) : seat[r][i] = "sent"

\* The gauges count the open calls, which are finitely many.
Gauged == \A b \in Backends : IsFiniteSet(OpenCalls(b)) /\ inFlight[b] = Cardinality(OpenCalls(b))

Local(r) == Tallied(r) /\ Stage(r)

IInv == TypeOK /\ Gauged /\ \A r \in Requests : Stage(r)

\* What a step of another request leaves alone.
Mine(r) == <<pc[r], council[r], pinned[r], seat[r], results[r], collected[r], answers[r],
             outcome[r], wire[r]>>

------------------------------------------------------------------------------
\* pickHealthyBackend returns the first healthy host that none is less loaded
\* than, whenever there is a healthy one.
THEOREM PickIs ==
  ASSUME NEW s \in Snapshot, NEW names \in Seq(Backends), Healthy(s, names) # {}
  PROVE  \E i \in Healthy(s, names) :
           /\ Pick(s, names) = names[i] /\ names[i] \in Backends
           /\ \A j \in Healthy(s, names) \ {i} :
                \/ s[names[i]].inFlight < s[names[j]].inFlight
                \/ s[names[i]].inFlight = s[names[j]].inFlight /\ i < j
<1> DEFINE H == Healthy(s, names)
           load(i) == s[names[i]].inFlight
           Least(i) == \A j \in H \ {i} : load(i) < load(j) \/ (load(i) = load(j) /\ i < j)
           L == {load(i) : i \in H}
<1>1. \A i \in H : i \in Nat /\ names[i] \in Backends /\ load(i) \in Nat
  BY DEF Healthy, Snapshot, BackendState
<1>2. L \in SUBSET Nat /\ L # {}
  BY <1>1
<1>3. PICK m \in L : \A k \in L : m <= k
  <2> HIDE DEF L
  <2> QED
    BY <1>2, LeastNatural
<1> DEFINE M == {i \in H : load(i) = m}
<1>4. M \in SUBSET Nat /\ M # {}
  BY <1>1, <1>3
<1>5. PICK i \in M : \A j \in M : i <= j
  <2> HIDE DEF M
  <2> QED
    BY <1>4, LeastNatural
<1>6. i \in H /\ Least(i)
  <2> HIDE DEF load, H
  <2>1. i \in H /\ load(i) = m /\ i \in Nat /\ m \in Nat
    BY <1>1, <1>5
  <2>2. ASSUME NEW j \in H \ {i}
        PROVE  load(i) < load(j) \/ (load(i) = load(j) /\ i < j)
    <3>1. m <= load(j) /\ j \in Nat /\ load(j) \in Nat
      BY <1>1, <1>3
    <3>2. load(j) = m => i <= j
      BY <1>5
    <3> QED
      BY <2>1, <3>1, <3>2
  <2> QED
    BY <2>1, <2>2
<1> DEFINE best == CHOOSE k \in H : Least(k)
<1>7. best \in H /\ Least(best)
  BY <1>6
<1>8. Pick(s, names) = names[best]
  BY DEF Pick
<1> HIDE DEF best
<1> QED
  BY <1>1, <1>7, <1>8

\* So it is a configured backend.
LEMMA PickTyped ==
  ASSUME NEW s \in Snapshot, NEW names \in Seq(Backends), Healthy(s, names) # {}
  PROVE  Pick(s, names) \in Backends
BY PickIs

\* The panel that is pinned lists, in the order of the council, a healthy host
\* of every panelist that has one.
THEOREM PinnedPanelIs ==
  ASSUME NEW s \in Snapshot, NEW panel \in Seq(Seq(Backends))
  PROVE  LET hosted == {i \in DOMAIN panel : Healthy(s, panel[i]) # {}}
         IN  /\ PinnedPanel(s, panel) \in Seq(Backends)
             /\ Len(PinnedPanel(s, panel)) = Cardinality(hosted)
             /\ \A k \in 1..Cardinality(hosted) :
                  /\ Ascending(hosted)[k] \in hosted
                  /\ PinnedPanel(s, panel)[k] = Pick(s, panel[Ascending(hosted)[k]])
<1> DEFINE hosted == {i \in DOMAIN panel : Healthy(s, panel[i]) # {}}
           kept == Ascending(hosted)
           n == Cardinality(hosted)
<1>1. DOMAIN panel = 1..Len(panel) /\ Len(panel) \in Nat
  OBVIOUS
<1>2. hosted \in SUBSET Nat /\ IsFiniteSet(hosted) /\ n \in Nat
  <2>1. IsFiniteSet(1..Len(panel))
    BY <1>1, FS_Interval
  <2>2. hosted \subseteq 1..Len(panel)
    BY <1>1
  <2> QED
    BY <1>1, <2>1, <2>2, FS_Subset, FS_CardinalityType
<1>3. kept \in Seq(hosted) /\ Len(kept) = n /\ DOMAIN kept = 1..n
  BY <1>2, AscendingLists
<1>4. ASSUME NEW k \in 1..n
      PROVE  kept[k] \in hosted /\ Pick(s, panel[kept[k]]) \in Backends
  <2>1. kept[k] \in hosted
    BY <1>2, AscendingAt
  <2>2. panel[kept[k]] \in Seq(Backends) /\ Healthy(s, panel[kept[k]]) # {}
    <3> HIDE DEF kept
    <3>1. kept[k] \in DOMAIN panel /\ Healthy(s, panel[kept[k]]) # {}
      BY <2>1
    <3> QED
      BY <3>1
  <2> QED
    BY <2>1, <2>2, PickTyped
<1>5. PinnedPanel(s, panel) = [k \in 1..n |-> Pick(s, panel[kept[k]])]
  BY <1>3 DEF PinnedPanel
<1> HIDE DEF hosted, kept, n
<1>6. PinnedPanel(s, panel) \in [1..n -> Backends]
  BY <1>4, <1>5
<1>7. PinnedPanel(s, panel) \in Seq(Backends) /\ Len(PinnedPanel(s, panel)) = n
  BY <1>2, <1>6
<1> QED
  BY <1>4, <1>5, <1>7 DEF hosted, kept, n

------------------------------------------------------------------------------
\* What a request knows of itself is disturbed by no other request.
LEMMA Unmoved ==
  ASSUME NEW q \in Requests, Local(q), Mine(q)' = Mine(q)
  PROVE  Local(q)'
<1>1. /\ pc'[q] = pc[q] /\ council'[q] = council[q] /\ pinned'[q] = pinned[q]
      /\ seat'[q] = seat[q] /\ results'[q] = results[q] /\ collected'[q] = collected[q]
      /\ answers'[q] = answers[q] /\ outcome'[q] = outcome[q] /\ wire'[q] = wire[q]
  BY DEF Mine
<1>2. Tallied(q)'
  BY <1>1 DEF Local, Tallied, Panel
<1>3. Stage(q)'
  BY <1>1 DEF Local, Stage, Fresh, Convened, Adjourned, Shown, Owing, Answered, AllCollected,
              InOrder, Panel
<1> QED
  BY <1>2, <1>3 DEF Local

\* The calls open to b are those for which CallOpen holds, before and after a step.
LEMMA OpenCallsAre ==
  \A b, c : /\ c \in OpenCalls(b) <=> \E r \in Requests : \E i : c = <<r, i>> /\ CallOpen(r, i, b)
            /\ c \in OpenCalls(b)' <=>
                 \E r \in Requests : \E i : c = <<r, i>> /\ CallOpen(r, i, b)'
BY DEF OpenCalls, CallOpen

\* Another request has the same calls open as before.
LEMMA OthersOpen ==
  ASSUME NEW q, Mine(q)' = Mine(q), NEW i, NEW b
  PROVE  CallOpen(q, i, b)' <=> CallOpen(q, i, b)
<1>1. pc'[q] = pc[q] /\ pinned'[q] = pinned[q] /\ seat'[q] = seat[q]
  BY DEF Mine
<1> QED
  BY <1>1 DEF CallOpen, Panel

\* The gauges stay right when no call opens or closes, ...
LEMMA GaugeKept ==
  ASSUME Gauged, NEW r \in Requests, inFlight' = inFlight,
         \A i, b : CallOpen(r, i, b)' <=> CallOpen(r, i, b),
         \A q \in Requests \ {r} : Mine(q)' = Mine(q)
  PROVE  Gauged'
<1>1. \A q \in Requests : \A i, b : CallOpen(q, i, b)' <=> CallOpen(q, i, b)
  BY OthersOpen
<1>2. \A b : OpenCalls(b)' = OpenCalls(b)
  BY <1>1, OpenCallsAre
<1> QED
  BY <1>2 DEF Gauged

\* ... when one opens and takes a slot, ...
LEMMA GaugeUp ==
  ASSUME Typed, Gauged, NEW r \in Requests, NEW n, NEW c \in Backends,
         ~CallOpen(r, n, c),
         \A i, b : CallOpen(r, i, b)' <=> CallOpen(r, i, b) \/ (i = n /\ b = c),
         Acquire(c),
         \A q \in Requests \ {r} : Mine(q)' = Mine(q)
  PROVE  Gauged' /\ inFlight' \in [Backends -> Nat]
<1>1. \A q \in Requests \ {r} : \A i, b : CallOpen(q, i, b)' <=> CallOpen(q, i, b)
  BY OthersOpen
<1>2. /\ inFlight \in [Backends -> Nat] /\ inFlight' \in [Backends -> Nat]
      /\ inFlight'[c] = inFlight[c] + 1
      /\ \A b \in Backends \ {c} : inFlight'[b] = inFlight[b]
  BY DEF Typed, Acquire
<1>3. ASSUME NEW b \in Backends, b # c
      PROVE  OpenCalls(b)' = OpenCalls(b)
  <2>1. \A q \in Requests : \A i : CallOpen(q, i, b)' <=> CallOpen(q, i, b)
    BY <1>1, <1>3
  <2>2. \A x : x \in OpenCalls(b)' <=> x \in OpenCalls(b)
    BY <2>1, OpenCallsAre
  <2> QED
    BY <2>2
<1>4. OpenCalls(c)' = OpenCalls(c) \cup {<<r, n>>} /\ <<r, n>> \notin OpenCalls(c)
  BY <1>1, OpenCallsAre
<1>5. IsFiniteSet(OpenCalls(c)) /\ inFlight[c] = Cardinality(OpenCalls(c))
  BY DEF Gauged
<1>6. /\ IsFiniteSet(OpenCalls(c)')
      /\ Cardinality(OpenCalls(c)') = Cardinality(OpenCalls(c)) + 1
  BY <1>4, <1>5, FS_AddElement
<1> QED
  BY <1>2, <1>3, <1>5, <1>6 DEF Gauged

\* ... and when one closes and releases its own.
LEMMA GaugeDown ==
  ASSUME Typed, Gauged, NEW r \in Requests, NEW n, NEW c \in Backends,
         CallOpen(r, n, c),
         \A i, b : CallOpen(r, i, b)' <=> CallOpen(r, i, b) /\ ~(i = n /\ b = c),
         Release(c),
         \A q \in Requests \ {r} : Mine(q)' = Mine(q)
  PROVE  Gauged' /\ inFlight' \in [Backends -> Nat]
<1>1. \A q \in Requests \ {r} : \A i, b : CallOpen(q, i, b)' <=> CallOpen(q, i, b)
  BY OthersOpen
<1>2. /\ inFlight \in [Backends -> Nat]
      /\ inFlight' = [inFlight EXCEPT ![c] = inFlight[c] - 1]
      /\ inFlight'[c] = inFlight[c] - 1
      /\ \A b \in Backends \ {c} : inFlight'[b] = inFlight[b]
  BY DEF Typed, Release
<1>3. ASSUME NEW b \in Backends, b # c
      PROVE  OpenCalls(b)' = OpenCalls(b)
  <2>1. \A q \in Requests : \A i : CallOpen(q, i, b)' <=> CallOpen(q, i, b)
    BY <1>1, <1>3
  <2>2. \A x : x \in OpenCalls(b)' <=> x \in OpenCalls(b)
    BY <2>1, OpenCallsAre
  <2> QED
    BY <2>2
<1>4. OpenCalls(c)' = OpenCalls(c) \ {<<r, n>>} /\ <<r, n>> \in OpenCalls(c)
  BY <1>1, OpenCallsAre
<1>5. IsFiniteSet(OpenCalls(c)) /\ inFlight[c] = Cardinality(OpenCalls(c))
  BY DEF Gauged
<1>6. /\ IsFiniteSet(OpenCalls(c)')
      /\ Cardinality(OpenCalls(c)') = Cardinality(OpenCalls(c)) - 1
  BY <1>4, <1>5, FS_RemoveElement
<1>7. inFlight[c] >= 1
  <2>1. Cardinality(OpenCalls(c)) \in Nat /\ Cardinality(OpenCalls(c)) # 0
    BY <1>4, <1>5, FS_EmptySet, FS_CardinalityType
  <2> QED
    BY <1>5, <2>1
<1>8. inFlight' \in [Backends -> Nat]
  BY <1>2, <1>7
<1> QED
  BY <1>2, <1>3, <1>5, <1>6, <1>8 DEF Gauged

\* The parts of the invariant are re-established one by one.
LEMMA Assemble ==
  ASSUME IInv, NEW r \in Requests, Typed', Local(r)', Gauged',
         \A q \in Requests \ {r} : Mine(q)' = Mine(q)
  PROVE  IInv'
<1>1. \A q \in Requests : Local(q)
  BY DEF IInv, TypeOK, Local
<1>2. \A q \in Requests : Local(q)'
  BY <1>1, Unmoved
<1> QED
  BY <1>2 DEF IInv, TypeOK, Local

\* A step that no request sees leaves the invariant.
LEMMA AssembleQuiet ==
  ASSUME IInv, Typed', inFlight' = inFlight, \A q \in Requests : Mine(q)' = Mine(q)
  PROVE  IInv'
<1>1. \A q \in Requests : Local(q)
  BY DEF IInv, TypeOK, Local
<1>2. \A q \in Requests : Local(q)'
  BY <1>1, Unmoved
<1>3. \A q \in Requests : \A i, b : CallOpen(q, i, b)' <=> CallOpen(q, i, b)
  BY OthersOpen
<1>4. \A b : OpenCalls(b)' = OpenCalls(b)
  BY <1>3, OpenCallsAre
<1>5. Gauged'
  BY <1>4 DEF IInv, Gauged
<1> QED
  BY <1>2, <1>5 DEF IInv, TypeOK, Local

\* The places of a panel are finitely many, and none of them is that of the judge.
LEMMA PanelIs ==
  ASSUME Typed, NEW r \in Requests
  PROVE  /\ IsFiniteSet(Panel(r)) /\ Panel(r) \in SUBSET Nat /\ 0 \notin Panel(r)
         /\ Cardinality(Panel(r)) \in Nat
         /\ pinned[r] = Unpinned => Panel(r) = {}
         /\ \A i \in Panel(r) : pinned[r] \in Roles /\ pinned[r].panel[i] \in Backends
<1>1. pinned[r] \in Roles \/ pinned[r] = Unpinned
  BY DEF Typed
<1>2. pinned[r].panel \in Seq(Backends)
  <2>1. pinned[r] = Unpinned => pinned[r].panel = <<>>
    BY DEF Unpinned
  <2>2. pinned[r] \in Roles => pinned[r].panel \in Seq(Backends)
    BY DEF Roles
  <2>3. <<>> \in Seq(Backends)
    OBVIOUS
  <2> QED
    BY <1>1, <2>1, <2>2, <2>3
<1>3. Panel(r) = 1..Len(pinned[r].panel) /\ Len(pinned[r].panel) \in Nat
  BY <1>2 DEF Panel
<1>4. IsFiniteSet(Panel(r)) /\ Cardinality(Panel(r)) \in Nat
  <2>1. 1 \in Int /\ Len(pinned[r].panel) \in Int
    BY <1>3
  <2> QED
    BY <1>3, <2>1, FS_Interval, FS_CardinalityType
<1>5. pinned[r] = Unpinned => Panel(r) = {}
  BY <1>3 DEF Unpinned
<1>6. \A i \in Panel(r) : pinned[r] \in Roles /\ pinned[r].panel[i] \in Backends
  BY <1>1, <1>2, <1>3, <1>5
<1> QED
  BY <1>3, <1>4, <1>5, <1>6

\* Outside the collecting loop no panelist's call is open.
LEMMA NoneCalling ==
  ASSUME NEW r, Local(r), pc[r] # "panel"
  PROVE  \A i \in Panel(r) : seat[r][i] = "sent"
BY DEF Local, Stage

\* What a jump does to the point each request is at.
LEMMA PcAt ==
  ASSUME Typed, NEW r \in Requests, NEW l, Goto(r, l)
  PROVE  pc'[r] = l /\ \A q \in Requests \ {r} : pc'[q] = pc[q]
BY DEF Typed, Goto

Errors == {"none", "api", "internal", "panic"}

\* Returning settles the outcome.
LEMMA Returns ==
  ASSUME Typed, NEW r \in Requests, NEW st \in Nat,
         NEW e \in Errors, Return(r, st, e)
  PROVE  /\ pc' \in [Requests -> PCs] /\ pc'[r] = "returned"
         /\ outcome' \in [Requests -> Outcomes]
         /\ outcome'[r] = [status |-> st, err |-> e]
         /\ \A q \in Requests \ {r} : pc'[q] = pc[q] /\ outcome'[q] = outcome[q]
BY DEF Typed, Return, Goto, PCs, Outcomes, Errors

\* The members of a panel that reported are finitely many.
LEMMA SentFinite ==
  ASSUME Typed, NEW r \in Requests
  PROVE  /\ IsFiniteSet({i \in Panel(r) : seat[r][i] = "sent"})
         /\ Cardinality({i \in Panel(r) : seat[r][i] = "sent"}) \in Nat
         /\ Cardinality({i \in Panel(r) : seat[r][i] = "sent"}) <= Cardinality(Panel(r))
         /\ Cardinality({i \in Panel(r) : seat[r][i] = "sent"}) = Cardinality(Panel(r)) =>
              {i \in Panel(r) : seat[r][i] = "sent"} = Panel(r)
<1> DEFINE S == {i \in Panel(r) : seat[r][i] = "sent"}
<1>1. S \subseteq Panel(r) /\ IsFiniteSet(Panel(r))
  BY PanelIs
<1>2. /\ IsFiniteSet(S) /\ Cardinality(S) \in Nat /\ Cardinality(S) <= Cardinality(Panel(r))
      /\ Cardinality(S) = Cardinality(Panel(r)) => S = Panel(r)
  <2> HIDE DEF S
  <2> QED
    BY <1>1, FS_Subset, FS_CardinalityType
<1> QED
  BY <1>2

\* Once as many results were collected as the panel has members, every panelist
\* reported.
LEMMA AllReported ==
  ASSUME Typed, NEW r \in Requests, Tallied(r), AllCollected(r)
  PROVE  \A i \in Panel(r) : seat[r][i] = "sent"
<1> DEFINE S == {i \in Panel(r) : seat[r][i] = "sent"}
<1>1. /\ Len(results[r]) + collected[r].count = Cardinality(S)
      /\ collected[r].count = Cardinality(Panel(r))
      /\ Len(results[r]) \in Nat /\ collected[r].count \in Nat
  BY DEF Tallied, AllCollected, Typed, Tallies
<1>2. S = Panel(r)
  <2>1. /\ Cardinality(S) \in Nat /\ Cardinality(S) <= Cardinality(Panel(r))
        /\ Cardinality(S) = Cardinality(Panel(r)) => S = Panel(r)
    BY SentFinite
  <2> HIDE DEF S
  <2> QED
    BY <1>1, <2>1
<1> QED
  BY <1>2

------------------------------------------------------------------------------
\* Resolving pins a backend for each role and seats the panel.
LEMMA ResolveInv ==
  ASSUME IInv, NEW r \in Requests, Resolve(r)
  PROVE  IInv'
<1> DEFINE c == council[r]
           panel == PinnedPanel(snap, c.panel)
           roles == [panel |-> panel, judge |-> Pick(snap, c.judge),
                     synthesis |-> Pick(snap, c.synthesis)]
           seats == [i \in DOMAIN panel |-> "ready"]
<1>1. /\ pc[r] = "idle" /\ Goto(r, "panel")
      /\ Healthy(snap, c.judge) # {} /\ Healthy(snap, c.synthesis) # {}
      /\ pinned' = [pinned EXCEPT ![r] = roles] /\ seat' = [seat EXCEPT ![r] = seats]
      /\ UNCHANGED <<snap, inFlight, council, stream, cancelled, results, collected, answers, resp,
                     outcome, wire>>
  BY DEF Resolve
<1>2. Typed /\ Gauged /\ Local(r) /\ Fresh(r)
  BY <1>1 DEF IInv, TypeOK, Local, Stage
<1>3. snap \in Snapshot /\ c \in Council
  BY <1>2, FusionAssumption DEF Typed
<1>4. panel \in Seq(Backends)
  BY <1>3, PinnedPanelIs DEF Council
<1>5. Pick(snap, c.judge) \in Backends /\ Pick(snap, c.synthesis) \in Backends
  BY <1>1, <1>3, PickTyped DEF Council
<1>6. roles \in Roles /\ roles.panel = panel
  BY <1>4, <1>5 DEF Roles
<1>7. seats \in Seq(Seats) /\ DOMAIN seats = DOMAIN panel /\ \A i \in DOMAIN panel : seats[i] = "ready"
  <2>1. DOMAIN panel = 1..Len(panel) /\ Len(panel) \in Nat
    BY <1>4
  <2> HIDE DEF panel
  <2>2. seats \in [1..Len(panel) -> Seats]
    BY <2>1 DEF Seats
  <2> QED
    BY <2>1, <2>2
<1> HIDE DEF roles, seats, panel, c
<1>8. /\ pinned' \in [Requests -> Roles \cup {Unpinned}] /\ pinned'[r] = roles
      /\ seat' \in [Requests -> Seq(Seats)] /\ seat'[r] = seats
      /\ \A q \in Requests \ {r} : pinned'[q] = pinned[q] /\ seat'[q] = seat[q]
  BY <1>1, <1>2, <1>6, <1>7 DEF Typed
<1>9. pc'[r] = "panel" /\ \A q \in Requests \ {r} : pc'[q] = pc[q]
  BY <1>1, <1>2, PcAt
<1>10. Typed'
  BY <1>1, <1>2, <1>8 DEF Typed, Goto, PCs
<1>11. Panel(r)' = DOMAIN panel /\ \A i \in Panel(r)' : seat'[r][i] = "ready"
  BY <1>6, <1>7, <1>8 DEF Panel
<1>12. Tallied(r)'
  <2>1. /\ results'[r] = <<>> /\ collected'[r] = Pending /\ answers'[r] = <<>>
    BY <1>1, <1>2 DEF Fresh
  <2>2. {i \in Panel(r)' : seat'[r][i] = "sent"} = {}
    BY <1>11
  <2>3. Cardinality({i \in Panel(r)' : seat'[r][i] = "sent"}) = 0
    BY <2>2, FS_EmptySet
  <2> QED
    BY <1>7, <1>8, <1>11, <2>1, <2>3 DEF Tallied, Pending, Panel
<1>13. Stage(r)'
  BY <1>1, <1>2, <1>6, <1>8, <1>9 DEF Stage, Fresh
<1>14. \A q \in Requests \ {r} : Mine(q)' = Mine(q)
  BY <1>1, <1>8, <1>9 DEF Mine
<1>15. Gauged'
  <2>1. \A i, b : ~CallOpen(r, i, b)
    BY <1>1, <1>2, PanelIs DEF CallOpen, Fresh
  <2>2. \A i, b : ~CallOpen(r, i, b)'
    BY <1>9, <1>11 DEF CallOpen
  <2> QED
    BY <1>1, <1>2, <1>14, <2>1, <2>2, GaugeKept
<1> QED
  BY <1>10, <1>12, <1>13, <1>14, <1>15, Assemble DEF Local

\* A request that cannot be pinned returns with nothing asked.
LEMMA UnresolvedInv ==
  ASSUME IInv, NEW r \in Requests, Unresolved(r)
  PROVE  IInv'
<1>1. /\ pc[r] = "idle" /\ Return(r, 503, "api")
      /\ UNCHANGED <<snap, inFlight, council, stream, cancelled, pinned, panelVars, resp, wire>>
  BY DEF Unresolved
<1>2. Typed /\ Gauged /\ Local(r) /\ Fresh(r)
  BY <1>1 DEF IInv, TypeOK, Local, Stage
<1>3. /\ pc' \in [Requests -> PCs] /\ pc'[r] = "returned"
      /\ outcome' \in [Requests -> Outcomes]
      /\ outcome'[r] = [status |-> 503, err |-> "api"]
      /\ \A q \in Requests \ {r} : pc'[q] = pc[q] /\ outcome'[q] = outcome[q]
  <2>1. 503 \in Nat /\ "api" \in Errors
    BY DEF Errors
  <2> QED
    BY <1>1, <1>2, <2>1, Returns
<1>4. Typed'
  BY <1>1, <1>2, <1>3 DEF Typed, panelVars
<1>5. Local(r)'
  <2>1. Tallied(r)'
    BY <1>1, <1>2 DEF Local, Tallied, Panel, panelVars
  <2>2. Owing(r)'
    BY <1>1, <1>2, <1>3 DEF Owing, Fresh
  <2>3. \A i \in Panel(r)' : seat'[r][i] = "sent"
    BY <1>1, <1>2, NoneCalling DEF Panel, panelVars
  <2> QED
    BY <1>3, <2>1, <2>2, <2>3 DEF Local, Stage
<1>6. \A q \in Requests \ {r} : Mine(q)' = Mine(q)
  BY <1>1, <1>3 DEF Mine, panelVars
<1>7. Gauged'
  <2>1. \A i, b : CallOpen(r, i, b)' <=> CallOpen(r, i, b)
    BY <1>1, <1>3 DEF CallOpen, Panel, panelVars
  <2> QED
    BY <1>1, <1>2, <1>6, <2>1, GaugeKept
<1> QED
  BY <1>4, <1>5, <1>6, <1>7, Assemble

------------------------------------------------------------------------------
\* A panelist's request opens a call to its backend.
LEMMA AskInv ==
  ASSUME IInv, NEW r \in Requests, NEW i \in DOMAIN seat[r], Ask(r, i)
  PROVE  IInv'
<1> DEFINE new == [seat[r] EXCEPT ![i] = "calling"]
           c == pinned[r].panel[i]
<1>1. /\ seat[r][i] = "ready" /\ seat' = [seat EXCEPT ![r][i] = "calling"]
      /\ Acquire(c)
      /\ UNCHANGED <<snap, pc, council, stream, cancelled, pinned, results, collected, answers,
                     resp, outcome, wire>>
  BY DEF Ask
<1>2. Typed /\ Gauged /\ Local(r) /\ i \in Panel(r) /\ DOMAIN seat[r] = Panel(r)
  BY DEF IInv, TypeOK, Local, Tallied
<1>3. c \in Backends
  BY <1>2, PanelIs
<1>4. pc[r] = "panel"
  BY <1>1, <1>2, NoneCalling
<1>5. new \in Seq(Seats) /\ DOMAIN new = Panel(r) /\ new[i] = "calling"
      /\ \A k \in Panel(r) \ {i} : new[k] = seat[r][k]
  <2>1. seat[r] \in Seq(Seats)
    BY <1>2 DEF Typed
  <2> QED
    BY <1>2, <2>1 DEF Seats
<1>6. /\ seat' \in [Requests -> Seq(Seats)] /\ seat'[r] = new
      /\ \A q \in Requests \ {r} : seat'[q] = seat[q]
  <2>1. seat' = [seat EXCEPT ![r] = new]
    BY <1>1, <1>2 DEF Typed
  <2> HIDE DEF new
  <2> QED
    BY <1>2, <1>5, <2>1 DEF Typed
<1> HIDE DEF new
<1>7. \A q \in Requests \ {r} : Mine(q)' = Mine(q)
  BY <1>1, <1>6 DEF Mine
<1>8. Gauged' /\ inFlight' \in [Backends -> Nat]
  <2>1. \A k, b : CallOpen(r, k, b)' <=> CallOpen(r, k, b) \/ (k = i /\ b = c)
    BY <1>1, <1>2, <1>4, <1>5, <1>6 DEF CallOpen, Panel
  <2>2. ~CallOpen(r, i, c)
    BY <1>1, <1>2, <1>4 DEF CallOpen
  <2> HIDE DEF c
  <2> QED
    BY <1>1, <1>2, <1>3, <1>7, <2>1, <2>2, GaugeUp
<1>9. Typed'
  BY <1>1, <1>2, <1>6, <1>8 DEF Typed
<1>10. Tallied(r)'
  <2>1. Panel(r)' = Panel(r)
    BY <1>1 DEF Panel
  <2>2. {k \in Panel(r) : new[k] = "sent"} = {k \in Panel(r) : seat[r][k] = "sent"}
    BY <1>1, <1>5
  <2>3. {k \in Panel(r)' : seat'[r][k] = "sent"} = {k \in Panel(r) : seat[r][k] = "sent"}
    BY <1>6, <2>1, <2>2
  <2>4. Len(results'[r]) + collected'[r].count =
          Cardinality({k \in Panel(r)' : seat'[r][k] = "sent"})
    BY <1>1, <1>2, <2>3 DEF Local, Tallied
  <2> QED
    BY <1>1, <1>2, <1>5, <1>6, <2>1, <2>4 DEF Local, Tallied
<1>11. Stage(r)'
  BY <1>1, <1>2, <1>4 DEF Local, Stage
<1> QED
  BY <1>7, <1>8, <1>9, <1>10, <1>11, Assemble DEF Local

\* Its report moves it to those who sent, adds one to the channel, and gives its
\* slot back.
LEMMA ReportInv ==
  ASSUME IInv, NEW r \in Requests, NEW i \in DOMAIN seat[r], NEW ok \in BOOLEAN,
         Report(r, i, ok), Release(pinned[r].panel[i])
  PROVE  IInv'
<1> DEFINE new == [seat[r] EXCEPT ![i] = "sent"]
           c == pinned[r].panel[i]
           msg == [panelist |-> i, ok |-> ok]
<1>1. /\ seat[r][i] = "calling" /\ seat' = [seat EXCEPT ![r][i] = "sent"]
      /\ results' = [results EXCEPT ![r] = Append(@, msg)]
      /\ Release(c)
      /\ UNCHANGED <<snap, pc, council, stream, cancelled, pinned, collected, answers, resp,
                     outcome, wire>>
  BY DEF Report
<1>2. Typed /\ Gauged /\ Local(r) /\ i \in Panel(r) /\ DOMAIN seat[r] = Panel(r)
  BY DEF IInv, TypeOK, Local, Tallied
<1>3. c \in Backends /\ i \in Nat /\ i # 0
  BY <1>2, PanelIs
<1>4. pc[r] = "panel"
  BY <1>1, <1>2, NoneCalling
<1>5. new \in Seq(Seats) /\ DOMAIN new = Panel(r) /\ new[i] = "sent"
      /\ \A k \in Panel(r) \ {i} : new[k] = seat[r][k]
  <2>1. seat[r] \in Seq(Seats)
    BY <1>2 DEF Typed
  <2> QED
    BY <1>2, <2>1 DEF Seats
<1>6. /\ seat' \in [Requests -> Seq(Seats)] /\ seat'[r] = new
      /\ \A q \in Requests \ {r} : seat'[q] = seat[q]
  <2>1. seat' = [seat EXCEPT ![r] = new]
    BY <1>1, <1>2 DEF Typed
  <2> HIDE DEF new
  <2> QED
    BY <1>2, <1>5, <2>1 DEF Typed
<1>7. /\ results' \in [Requests -> Seq(Results)]
      /\ Len(results'[r]) = Len(results[r]) + 1
      /\ \A k \in DOMAIN results'[r] : results'[r][k].panelist \in Panel(r)
      /\ \A q \in Requests \ {r} : results'[q] = results[q]
  <2>1. results[r] \in Seq(Results) /\ results \in [Requests -> Seq(Results)]
    BY <1>2 DEF Typed
  <2>2. msg \in Results /\ msg.panelist \in Panel(r)
    BY <1>2, <1>3 DEF Results
  <2>3. \A k \in DOMAIN results[r] : results[r][k].panelist \in Panel(r)
    BY <1>2 DEF Local, Tallied
  <2> HIDE DEF msg
  <2>4. results'[r] = Append(results[r], msg)
    BY <1>1, <2>1
  <2> QED
    BY <1>1, <2>1, <2>2, <2>3, <2>4
<1> HIDE DEF new
<1>8. \A q \in Requests \ {r} : Mine(q)' = Mine(q)
  BY <1>1, <1>6, <1>7 DEF Mine
<1>9. Gauged' /\ inFlight' \in [Backends -> Nat]
  <2>1. \A k, b : CallOpen(r, k, b)' <=> CallOpen(r, k, b) /\ ~(k = i /\ b = c)
    BY <1>1, <1>2, <1>4, <1>5, <1>6 DEF CallOpen, Panel
  <2>2. CallOpen(r, i, c)
    BY <1>1, <1>2 DEF CallOpen
  <2> HIDE DEF c
  <2> QED
    BY <1>1, <1>2, <1>3, <1>8, <2>1, <2>2, GaugeDown
<1>10. Typed'
  BY <1>1, <1>2, <1>6, <1>7, <1>9 DEF Typed
<1>11. Tallied(r)'
  <2> DEFINE S == {k \in Panel(r) : seat[r][k] = "sent"}
             T == {k \in Panel(r) : new[k] = "sent"}
  <2>1. Panel(r)' = Panel(r)
    BY <1>1 DEF Panel
  <2>2. T = S \cup {i} /\ i \notin S
    BY <1>1, <1>2, <1>5
  <2>3. IsFiniteSet(S) /\ Cardinality(S) \in Nat
    BY <1>2, SentFinite
  <2>4. Cardinality(T) = Cardinality(S) + 1
    <3> HIDE DEF S, T
    <3> QED
      BY <2>2, <2>3, FS_AddElement
  <2>5. /\ Len(results[r]) + collected[r].count = Cardinality(S)
        /\ Len(results[r]) \in Nat /\ collected[r].count \in Nat
    BY <1>2 DEF Local, Tallied, Typed, Tallies
  <2>6. Len(results'[r]) + collected[r].count = Cardinality(T)
    <3>1. Len(results'[r]) = Len(results[r]) + 1
      BY <1>7
    <3> HIDE DEF S, T
    <3> QED
      BY <2>3, <2>4, <2>5, <3>1
  <2>7. {k \in Panel(r)' : seat'[r][k] = "sent"} = T
    BY <1>6, <2>1
  <2>8. Len(results'[r]) + collected'[r].count =
          Cardinality({k \in Panel(r)' : seat'[r][k] = "sent"})
    <3> HIDE DEF T
    <3> QED
      BY <1>1, <2>6, <2>7
  <2> QED
    BY <1>1, <1>2, <1>5, <1>6, <1>7, <2>1, <2>8 DEF Local, Tallied
<1>12. Stage(r)'
  BY <1>1, <1>2, <1>4 DEF Local, Stage
<1> QED
  BY <1>8, <1>9, <1>10, <1>11, <1>12, Assemble DEF Local

\* Whatever becomes of a panelist's call, it reports and releases.
LEMMA PanelistInv ==
  ASSUME IInv, NEW r \in Requests, NEW i \in DOMAIN seat[r], Panelist(r, i)
  PROVE  IInv'
<1>1. CASE PanelistFails(r, i)
  BY <1>1, ReportInv DEF PanelistFails
<1>2. CASE PanelistRefused(r, i)
  BY <1>2, ReportInv DEF PanelistRefused
<1>3. CASE PanelistAnswers(r, i)
  BY <1>3, ReportInv DEF PanelistAnswers
<1> QED
  BY <1>1, <1>2, <1>3 DEF Panelist

------------------------------------------------------------------------------
\* A result moves from the channel to the books.
LEMMA CollectInv ==
  ASSUME IInv, NEW r \in Requests, Collect(r)
  PROVE  IInv'
<1> DEFINE result == Head(results[r])
           texts == IF result.ok THEN collected[r].texts \cup {result.panelist}
                    ELSE collected[r].texts
           new == [count |-> collected[r].count + 1, texts |-> texts]
<1>1. /\ pc[r] = "panel" /\ results[r] # <<>>
      /\ collected' = [collected EXCEPT ![r] = [count |-> @.count + 1,
           texts |-> IF result.ok THEN @.texts \cup {result.panelist} ELSE @.texts]]
      /\ results' = [results EXCEPT ![r] = Tail(@)]
      /\ UNCHANGED <<snap, inFlight, pc, council, stream, cancelled, pinned, seat, answers, resp,
                     outcome, wire>>
  BY DEF Collect
<1>2. Typed /\ Gauged /\ Local(r)
  BY DEF IInv, TypeOK, Local
<1>3. /\ results[r] \in Seq(Results) /\ result \in Results /\ result.panelist \in Panel(r)
      /\ Tail(results[r]) \in Seq(Results) /\ Len(Tail(results[r])) = Len(results[r]) - 1
      /\ \A k \in DOMAIN Tail(results[r]) : Tail(results[r])[k].panelist \in Panel(r)
  <2>1. results[r] \in Seq(Results)
    BY <1>2 DEF Typed
  <2>2. \A k \in DOMAIN results[r] : results[r][k].panelist \in Panel(r)
    BY <1>2 DEF Local, Tallied
  <2>3. Len(results[r]) \in Nat /\ Len(results[r]) # 0
    BY <1>1, <2>1
  <2>4. result = results[r][1] /\ 1 \in DOMAIN results[r]
    BY <2>1, <2>3
  <2>5. /\ Tail(results[r]) \in Seq(Results) /\ Len(Tail(results[r])) = Len(results[r]) - 1
        /\ \A k \in 1..Len(Tail(results[r])) : Tail(results[r])[k] = results[r][k + 1]
    BY <1>1, <2>1, HeadTailProperties
  <2>6. \A k \in 1..Len(Tail(results[r])) : k + 1 \in DOMAIN results[r]
    BY <2>1, <2>3, <2>5
  <2>7. DOMAIN Tail(results[r]) = 1..Len(Tail(results[r]))
    BY <2>5
  <2> HIDE DEF result
  <2>8. \A k \in DOMAIN Tail(results[r]) : Tail(results[r])[k].panelist \in Panel(r)
    BY <2>2, <2>5, <2>6, <2>7
  <2> QED
    BY <2>1, <2>2, <2>4, <2>5, <2>8
<1>4. collected[r] \in Tallies /\ collected[r].count \in Nat /\ collected[r].texts \subseteq Panel(r)
  BY <1>2 DEF Typed, Tallies, Local, Tallied
<1>5. texts \subseteq Panel(r) /\ texts \in SUBSET Nat
  BY <1>2, <1>3, <1>4, PanelIs
<1>6. new \in Tallies /\ new.count = collected[r].count + 1 /\ new.texts = texts
  <2> HIDE DEF texts
  <2> QED
    BY <1>4, <1>5 DEF Tallies
<1>7. collected' = [collected EXCEPT ![r] = new]
  BY <1>1, <1>2 DEF Typed
<1> HIDE DEF new, texts, result
<1>8. /\ collected' \in [Requests -> Tallies] /\ collected'[r] = new
      /\ results' \in [Requests -> Seq(Results)] /\ results'[r] = Tail(results[r])
      /\ \A q \in Requests \ {r} : collected'[q] = collected[q] /\ results'[q] = results[q]
  BY <1>1, <1>2, <1>3, <1>6, <1>7 DEF Typed
<1>9. Typed'
  BY <1>1, <1>2, <1>8 DEF Typed
<1>10. \A q \in Requests \ {r} : Mine(q)' = Mine(q)
  BY <1>1, <1>8 DEF Mine
<1>11. Gauged'
  <2>1. \A i, b : CallOpen(r, i, b)' <=> CallOpen(r, i, b)
    BY <1>1 DEF CallOpen, Panel
  <2> QED
    BY <1>1, <1>2, <1>10, <2>1, GaugeKept
<1>12. Tallied(r)'
  <2>1. Panel(r)' = Panel(r)
    BY <1>1 DEF Panel
  <2>2. Len(results'[r]) + collected'[r].count = Len(results[r]) + collected[r].count
    <3>1. Len(results[r]) \in Nat
      BY <1>3
    <3> QED
      BY <1>3, <1>4, <1>6, <1>8, <3>1
  <2>3. Len(results'[r]) + collected'[r].count =
          Cardinality({k \in Panel(r)' : seat'[r][k] = "sent"})
    BY <1>1, <1>2, <2>1, <2>2 DEF Local, Tallied
  <2> QED
    BY <1>1, <1>2, <1>3, <1>5, <1>6, <1>8, <2>1, <2>3 DEF Local, Tallied
<1>13. Stage(r)'
  BY <1>1, <1>2 DEF Local, Stage
<1> QED
  BY <1>9, <1>10, <1>11, <1>12, <1>13, Assemble DEF Local

\* The answers in order are those of the panelists who gave one.
LEMMA InOrderIs ==
  ASSUME Typed, NEW r \in Requests, Tallied(r)
  PROVE  /\ InOrder(r) \in Seq(Nat)
         /\ Len(InOrder(r)) = Cardinality(collected[r].texts)
         /\ DOMAIN InOrder(r) = 1..Cardinality(collected[r].texts)
         /\ {InOrder(r)[k] : k \in DOMAIN InOrder(r)} = collected[r].texts
         /\ \A k, l \in DOMAIN InOrder(r) : k < l => InOrder(r)[k] < InOrder(r)[l]
         /\ \A k \in DOMAIN InOrder(r) : InOrder(r)[k] \in Panel(r)
<1> DEFINE S == collected[r].texts
<1>1. S \subseteq Panel(r) /\ S \in SUBSET Nat /\ IsFiniteSet(S)
  <2>1. S \subseteq Panel(r)
    BY DEF Tallied
  <2> HIDE DEF S
  <2> QED
    BY <2>1, PanelIs, FS_Subset
<1> HIDE DEF S
<1>2. /\ Ascending(S) \in Seq(S) /\ Len(Ascending(S)) = Cardinality(S)
      /\ DOMAIN Ascending(S) = 1..Cardinality(S)
      /\ {Ascending(S)[k] : k \in 1..Cardinality(S)} = S
      /\ \A k, l \in 1..Cardinality(S) : k < l => Ascending(S)[k] < Ascending(S)[l]
  BY <1>1, AscendingLists
<1>3. InOrder(r) = Ascending(S)
  BY DEF InOrder, S
<1>4. Ascending(S) \in Seq(Nat)
  BY <1>1, <1>2, SeqMonotonic
<1>5. \A k \in DOMAIN Ascending(S) : Ascending(S)[k] \in Panel(r)
  BY <1>1, <1>2
<1> QED
  BY <1>2, <1>3, <1>4, <1>5 DEF S

\* The minimum a council asks for.
LEMMA MinPanelTyped ==
  ASSUME Typed, NEW r \in Requests
  PROVE  council[r].minPanel \in Nat
BY FusionAssumption DEF Typed, Council

\* With enough answers the judge's call opens, and the judge is given them in
\* panel order.
LEMMA ConveneInv ==
  ASSUME IInv, NEW r \in Requests, Convene(r)
  PROVE  IInv'
<1> DEFINE c == pinned[r].judge
<1>1. /\ pc[r] = "panel" /\ AllCollected(r) /\ Len(InOrder(r)) >= council[r].minPanel
      /\ answers' = [answers EXCEPT ![r] = InOrder(r)]
      /\ Acquire(c) /\ Goto(r, "judging")
      /\ UNCHANGED <<snap, council, stream, cancelled, pinned, seat, results, collected, resp,
                     outcome, wire>>
  BY DEF Convene
<1>2. /\ Typed /\ Gauged /\ Local(r) /\ Tallied(r)
      /\ pinned[r] \in Roles /\ wire[r] = <<>> /\ c \in Backends
  BY <1>1 DEF IInv, TypeOK, Local, Stage, Roles
<1>3. /\ answers' \in [Requests -> Seq(Nat)] /\ answers'[r] = InOrder(r)
      /\ \A q \in Requests \ {r} : answers'[q] = answers[q]
  BY <1>1, <1>2, InOrderIs DEF Typed
<1>4. pc'[r] = "judging" /\ \A q \in Requests \ {r} : pc'[q] = pc[q]
  BY <1>1, <1>2, PcAt
<1>5. \A i \in Panel(r) : seat[r][i] = "sent"
  BY <1>1, <1>2, AllReported
<1>6. \A q \in Requests \ {r} : Mine(q)' = Mine(q)
  BY <1>1, <1>3, <1>4 DEF Mine
<1>7. Gauged' /\ inFlight' \in [Backends -> Nat]
  <2>1. \A i, b : CallOpen(r, i, b)' <=> CallOpen(r, i, b) \/ (i = 0 /\ b = c)
    BY <1>1, <1>4, <1>5 DEF CallOpen, Panel
  <2>2. ~CallOpen(r, 0, c)
    BY <1>1, <1>5 DEF CallOpen
  <2> HIDE DEF c
  <2> QED
    BY <1>1, <1>2, <1>6, <2>1, <2>2, GaugeUp
<1>8. Typed'
  BY <1>1, <1>2, <1>3, <1>7 DEF Typed, Goto, PCs
<1>9. Tallied(r)'
  <2>1. \A k \in DOMAIN answers'[r] : answers'[r][k] \in Panel(r)
    BY <1>2, <1>3, InOrderIs
  <2> QED
    BY <1>1, <1>2, <2>1 DEF Tallied, Panel
<1>10. Convened(r)'
  BY <1>1, <1>2, <1>3 DEF Convened, AllCollected, InOrder, Panel
<1>11. Stage(r)'
  <2>1. wire'[r] = <<>> /\ \A i \in Panel(r)' : seat'[r][i] = "sent"
    BY <1>1, <1>2, <1>5 DEF Panel
  <2> QED
    BY <1>4, <1>10, <2>1 DEF Stage
<1> QED
  BY <1>6, <1>7, <1>8, <1>9, <1>11, Assemble DEF Local

\* With too few the request returns.
LEMMA AdjournInv ==
  ASSUME IInv, NEW r \in Requests, Adjourn(r)
  PROVE  IInv'
<1>1. /\ pc[r] = "panel" /\ AllCollected(r) /\ Len(InOrder(r)) < council[r].minPanel
      /\ Return(r, 502, "api")
      /\ UNCHANGED <<snap, inFlight, council, stream, cancelled, pinned, panelVars, resp, wire>>
  BY DEF Adjourn
<1>2. /\ Typed /\ Gauged /\ Local(r) /\ Tallied(r)
      /\ pinned[r] \in Roles /\ wire[r] = <<>>
  BY <1>1 DEF IInv, TypeOK, Local, Stage
<1>3. /\ pc' \in [Requests -> PCs] /\ pc'[r] = "returned"
      /\ outcome' \in [Requests -> Outcomes]
      /\ outcome'[r] = [status |-> 502, err |-> "api"]
      /\ \A q \in Requests \ {r} : pc'[q] = pc[q] /\ outcome'[q] = outcome[q]
  <2>1. 502 \in Nat /\ "api" \in Errors
    BY DEF Errors
  <2> QED
    BY <1>1, <1>2, <2>1, Returns
<1>4. \A i \in Panel(r) : seat[r][i] = "sent"
  BY <1>1, <1>2, AllReported
<1>5. Typed'
  BY <1>1, <1>2, <1>3 DEF Typed, panelVars
<1>6. \A q \in Requests \ {r} : Mine(q)' = Mine(q)
  BY <1>1, <1>3 DEF Mine, panelVars
<1>7. Gauged'
  <2>1. \A i, b : CallOpen(r, i, b)' <=> CallOpen(r, i, b)
    BY <1>1, <1>3 DEF CallOpen, Panel, panelVars
  <2> QED
    BY <1>1, <1>2, <1>6, <2>1, GaugeKept
<1>8. Tallied(r)'
  BY <1>1, <1>2 DEF Tallied, Panel, panelVars
<1>9. Stage(r)'
  <2>1. Cardinality(collected[r].texts) < council[r].minPanel
    BY <1>1, <1>2, InOrderIs
  <2>2. Adjourned(r)'
    BY <1>1, <1>2, <2>1 DEF Adjourned, AllCollected, Panel, panelVars
  <2>3. Owing(r)'
    BY <1>1, <1>2, <1>3, <2>2 DEF Owing
  <2>4. \A i \in Panel(r)' : seat'[r][i] = "sent"
    BY <1>1, <1>4 DEF Panel, panelVars
  <2> QED
    BY <1>3, <2>3, <2>4 DEF Stage
<1> QED
  BY <1>5, <1>6, <1>7, <1>8, <1>9, Assemble DEF Local

------------------------------------------------------------------------------
\* After the panel nothing about it changes any more.
LEMMA PanelKept ==
  ASSUME NEW r, UNCHANGED <<council, pinned, panelVars>>
  PROVE  /\ Convened(r)' <=> Convened(r)
         /\ Adjourned(r)' <=> Adjourned(r)
         /\ Tallied(r)' <=> Tallied(r)
         /\ Panel(r)' = Panel(r) /\ seat'[r] = seat[r]
BY DEF Convened, Adjourned, Tallied, AllCollected, InOrder, Panel, panelVars

\* The judge's answer, or its failure, closes its call.
LEMMA JudgeInv ==
  ASSUME IInv, NEW r \in Requests, Judge(r)
  PROVE  IInv'
<1> DEFINE c == pinned[r].judge
<1>1. /\ pc[r] = "judging" /\ Release(c) /\ Goto(r, "synthesizing")
      /\ UNCHANGED <<snap, council, stream, cancelled, pinned, panelVars, resp, outcome, wire>>
  BY DEF Judge
<1>2. /\ Typed /\ Gauged /\ Local(r) /\ Convened(r) /\ wire[r] = <<>>
      /\ c \in Backends /\ \A i \in Panel(r) : seat[r][i] = "sent"
  BY <1>1 DEF IInv, TypeOK, Local, Stage, Convened, Roles
<1>3. pc'[r] = "synthesizing" /\ \A q \in Requests \ {r} : pc'[q] = pc[q]
  BY <1>1, <1>2, PcAt
<1>4. \A q \in Requests \ {r} : Mine(q)' = Mine(q)
  BY <1>1, <1>3 DEF Mine, panelVars
<1>5. Gauged' /\ inFlight' \in [Backends -> Nat]
  <2>1. \A i, b : CallOpen(r, i, b)' <=> CallOpen(r, i, b) /\ ~(i = 0 /\ b = c)
    BY <1>1, <1>2, <1>3 DEF CallOpen, Panel, panelVars
  <2>2. CallOpen(r, 0, c)
    BY <1>1 DEF CallOpen
  <2> HIDE DEF c
  <2> QED
    BY <1>1, <1>2, <1>4, <2>1, <2>2, GaugeDown
<1>6. Typed'
  BY <1>1, <1>2, <1>5 DEF Typed, Goto, PCs, panelVars
<1>7. Local(r)'
  BY <1>1, <1>2, <1>3, PanelKept DEF Local, Stage
<1> QED
  BY <1>4, <1>5, <1>6, <1>7, Assemble

\* The synthesis is asked.
LEMMA SynthesizeInv ==
  ASSUME IInv, NEW r \in Requests, Synthesize(r)
  PROVE  IInv'
<1> DEFINE c == pinned[r].synthesis
<1>1. /\ pc[r] = "synthesizing" /\ Acquire(c) /\ Goto(r, "calling")
      /\ UNCHANGED <<snap, council, stream, cancelled, pinned, panelVars, resp, outcome, wire>>
  BY DEF Synthesize
<1>2. /\ Typed /\ Gauged /\ Local(r) /\ Convened(r) /\ wire[r] = <<>>
      /\ c \in Backends /\ \A i \in Panel(r) : seat[r][i] = "sent"
  BY <1>1 DEF IInv, TypeOK, Local, Stage, Convened, Roles
<1>3. pc'[r] = "calling" /\ \A q \in Requests \ {r} : pc'[q] = pc[q]
  BY <1>1, <1>2, PcAt
<1>4. \A q \in Requests \ {r} : Mine(q)' = Mine(q)
  BY <1>1, <1>3 DEF Mine, panelVars
<1>5. Gauged' /\ inFlight' \in [Backends -> Nat]
  <2>1. \A i, b : CallOpen(r, i, b)' <=> CallOpen(r, i, b) \/ (i = 0 /\ b = c)
    BY <1>1, <1>2, <1>3 DEF CallOpen, Panel, panelVars
  <2>2. ~CallOpen(r, 0, c)
    BY <1>1, <1>2 DEF CallOpen
  <2> HIDE DEF c
  <2> QED
    BY <1>1, <1>2, <1>4, <2>1, <2>2, GaugeUp
<1>6. Typed'
  BY <1>1, <1>2, <1>5 DEF Typed, Goto, PCs, panelVars
<1>7. Local(r)'
  BY <1>1, <1>2, <1>3, PanelKept DEF Local, Stage
<1> QED
  BY <1>4, <1>5, <1>6, <1>7, Assemble

\* An answer that is read before it is relayed changes nothing that is shown.
LEMMA AnswerInv ==
  ASSUME IInv, NEW r \in Requests, Answer(r)
  PROVE  IInv'
<1>1. PICK st \in UpstreamStatuses : resp' = [resp EXCEPT ![r] = st]
  BY DEF Answer
<1>2. /\ pc[r] = "calling" /\ Goto(r, "reading")
      /\ UNCHANGED <<snap, inFlight, council, stream, cancelled, pinned, panelVars, outcome, wire>>
  BY DEF Answer
<1>3. /\ Typed /\ Gauged /\ Local(r) /\ Convened(r) /\ wire[r] = <<>> /\ st \in Nat
      /\ \A i \in Panel(r) : seat[r][i] = "sent"
  BY <1>2, FusionAssumption DEF IInv, TypeOK, Local, Stage
<1>4. pc'[r] = "reading" /\ \A q \in Requests \ {r} : pc'[q] = pc[q]
  BY <1>2, <1>3, PcAt
<1>5. \A q \in Requests \ {r} : Mine(q)' = Mine(q)
  BY <1>2, <1>4 DEF Mine, panelVars
<1>6. Gauged'
  <2>1. \A i, b : CallOpen(r, i, b)' <=> CallOpen(r, i, b)
    BY <1>2, <1>4 DEF CallOpen, Panel, panelVars
  <2> QED
    BY <1>2, <1>3, <1>5, <2>1, GaugeKept
<1>7. Typed'
  BY <1>1, <1>2, <1>3 DEF Typed, Goto, PCs, panelVars
<1>8. Local(r)'
  BY <1>2, <1>3, <1>4, PanelKept DEF Local, Stage
<1> QED
  BY <1>5, <1>6, <1>7, <1>8, Assemble

\* A head of the synthesis reaches a client that was shown nothing.
LEMMA HeadSent ==
  ASSUME Typed, NEW r \in Requests, wire[r] = <<>>, NEW h \in Heads,
         wire' = [wire EXCEPT ![r] = Append(@, h)]
  PROVE  /\ wire' \in [Requests -> Seq(Heads)]
         /\ wire'[r] = <<h>> /\ Len(wire'[r]) = 1 /\ wire'[r][1] = h
         /\ \A q \in Requests \ {r} : wire'[q] = wire[q]
<1>1. wire \in [Requests -> Seq(Heads)]
  BY DEF Typed
<1>2. Append(wire[r], h) = <<h>>
  OBVIOUS
<1>3. wire' = [wire EXCEPT ![r] = <<h>>]
  BY <1>1, <1>2
<1> QED
  BY <1>1, <1>3

\* The stream's head is that of the synthesis.
LEMMA OpenStreamInv ==
  ASSUME IInv, NEW r \in Requests, OpenStream(r)
  PROVE  IInv'
<1>1. PICK st \in UpstreamStatuses : resp' = [resp EXCEPT ![r] = st]
  BY DEF OpenStream
<1>2. /\ pc[r] = "calling" /\ Goto(r, "streaming")
      /\ wire' = [wire EXCEPT ![r] = Append(@, FHead(200, pinned[r].synthesis))]
      /\ UNCHANGED <<snap, inFlight, council, stream, cancelled, pinned, panelVars, outcome>>
  BY DEF OpenStream
<1>3. /\ Typed /\ Gauged /\ Local(r) /\ Convened(r) /\ wire[r] = <<>> /\ st \in Nat
      /\ pinned[r].synthesis \in Backends
      /\ \A i \in Panel(r) : seat[r][i] = "sent"
  BY <1>2, FusionAssumption DEF IInv, TypeOK, Local, Stage, Convened, Roles
<1>4. pc'[r] = "streaming" /\ \A q \in Requests \ {r} : pc'[q] = pc[q]
  BY <1>2, <1>3, PcAt
<1>5. /\ wire' \in [Requests -> Seq(Heads)] /\ Len(wire'[r]) = 1
      /\ wire'[r][1].from = pinned[r].synthesis
      /\ \A q \in Requests \ {r} : wire'[q] = wire[q]
  <2> DEFINE h == FHead(200, pinned[r].synthesis)
  <2>1. /\ h \in Heads /\ h.from = pinned[r].synthesis
        /\ wire' = [wire EXCEPT ![r] = Append(@, h)]
    BY <1>2, <1>3 DEF FHead, Heads
  <2> HIDE DEF h
  <2> QED
    BY <1>3, <2>1, HeadSent
<1>6. \A q \in Requests \ {r} : Mine(q)' = Mine(q)
  BY <1>2, <1>4, <1>5 DEF Mine, panelVars
<1>7. Gauged'
  <2>1. \A i, b : CallOpen(r, i, b)' <=> CallOpen(r, i, b)
    BY <1>2, <1>4 DEF CallOpen, Panel, panelVars
  <2> QED
    BY <1>2, <1>3, <1>6, <2>1, GaugeKept
<1>8. Typed'
  BY <1>1, <1>2, <1>3, <1>5 DEF Typed, Goto, PCs, panelVars
<1>9. Local(r)'
  <2>1. Tallied(r)' /\ Shown(r)' /\ \A i \in Panel(r)' : seat'[r][i] = "sent"
    BY <1>2, <1>3, <1>5, PanelKept DEF Local, Shown
  <2> QED
    BY <1>4, <2>1 DEF Local, Stage
<1> QED
  BY <1>6, <1>7, <1>8, <1>9, Assemble

------------------------------------------------------------------------------
\* However the synthesis ends, its slot is released when Execute returns, with
\* its head shown or something owed to the client.
LEMMA ReturnInv ==
  ASSUME IInv, NEW r \in Requests, pc[r] \in {"calling", "reading", "streaming"},
         NEW st \in Nat, NEW e \in Errors, Return(r, st, e), Release(pinned[r].synthesis),
         resp' = [resp EXCEPT ![r] = 0],
         UNCHANGED <<snap, council, stream, cancelled, pinned, panelVars>>,
         wire' \in [Requests -> Seq(Heads)], \A q \in Requests \ {r} : wire'[q] = wire[q],
         Shown(r)' \/ Owing(r)'
  PROVE  IInv'
<1> DEFINE c == pinned[r].synthesis
<1>1. /\ Typed /\ Gauged /\ Local(r) /\ Convened(r) /\ c \in Backends
      /\ \A i \in Panel(r) : seat[r][i] = "sent"
  BY DEF IInv, TypeOK, Local, Stage, Shown, Convened, Roles
<1>2. /\ pc' \in [Requests -> PCs] /\ pc'[r] = "returned"
      /\ outcome' \in [Requests -> Outcomes]
      /\ \A q \in Requests \ {r} : pc'[q] = pc[q] /\ outcome'[q] = outcome[q]
  BY <1>1, Returns
<1>3. \A q \in Requests \ {r} : Mine(q)' = Mine(q)
  BY <1>2 DEF Mine, panelVars
<1>4. Gauged' /\ inFlight' \in [Backends -> Nat]
  <2>1. \A i, b : CallOpen(r, i, b)' <=> CallOpen(r, i, b) /\ ~(i = 0 /\ b = c)
    BY <1>1, <1>2 DEF CallOpen, Panel, panelVars
  <2>2. CallOpen(r, 0, c)
    BY DEF CallOpen
  <2> HIDE DEF c
  <2> QED
    BY <1>1, <1>3, <2>1, <2>2, GaugeDown DEF c
<1>5. Typed'
  BY <1>1, <1>2, <1>4 DEF Typed, panelVars
<1>6. Local(r)'
  BY <1>1, <1>2, PanelKept DEF Local, Stage
<1> QED
  BY <1>3, <1>4, <1>5, <1>6, Assemble

\* What is known where the synthesis is being called or read.
LEMMA Unshown ==
  ASSUME IInv, NEW r \in Requests, pc[r] \in {"calling", "reading"}
  PROVE  /\ Typed /\ Convened(r) /\ wire[r] = <<>>
         /\ wire \in [Requests -> Seq(Heads)]
         /\ resp[r] \in Nat /\ pinned[r].synthesis \in Backends
BY DEF IInv, TypeOK, Typed, Stage, Convened, Roles

\* A synthesis that fails leaves a 502 to be told.
LEMMA SynthesisFailsInv ==
  ASSUME IInv, NEW r \in Requests, SynthesisFails(r)
  PROVE  IInv'
<1>1. /\ pc[r] \in {"calling", "reading"} /\ Return(r, 502, "api")
      /\ Release(pinned[r].synthesis) /\ resp' = [resp EXCEPT ![r] = 0]
      /\ UNCHANGED <<snap, council, stream, cancelled, pinned, panelVars, wire>>
  BY DEF SynthesisFails
<1>2. 502 \in Nat /\ "api" \in Errors
  BY DEF Errors
<1>3. Typed /\ Convened(r) /\ wire[r] = <<>> /\ wire \in [Requests -> Seq(Heads)]
  BY <1>1, Unshown
<1>4. outcome'[r] = [status |-> 502, err |-> "api"]
  <2>1. Typed /\ Return(r, 502, "api")
    BY <1>1, <1>3
  <2> QED
    BY <1>2, <2>1, Returns
<1>5. Owing(r)'
  BY <1>1, <1>3, <1>4, PanelKept DEF Owing
<1> QED
  BY <1>1, <1>2, <1>3, <1>5, ReturnInv

\* Relaying the buffered answer shows the head of the synthesis.
LEMMA RelayInv ==
  ASSUME IInv, NEW r \in Requests, Relay(r)
  PROVE  IInv'
<1>1. PICK e \in {"none", "internal"} : Return(r, resp[r], e)
  BY DEF Relay
<1>2. /\ pc[r] = "reading" /\ Release(pinned[r].synthesis) /\ resp' = [resp EXCEPT ![r] = 0]
      /\ wire' = [wire EXCEPT ![r] = Append(@, FHead(resp[r], pinned[r].synthesis))]
      /\ UNCHANGED <<snap, council, stream, cancelled, pinned, panelVars>>
  BY DEF Relay
<1>3. e \in Errors
  BY DEF Errors
<1>4. /\ Typed /\ Convened(r) /\ wire[r] = <<>>
      /\ resp[r] \in Nat /\ pinned[r].synthesis \in Backends
  BY <1>2, Unshown
<1>5. /\ wire' \in [Requests -> Seq(Heads)] /\ Len(wire'[r]) = 1
      /\ wire'[r][1].from = pinned[r].synthesis
      /\ \A q \in Requests \ {r} : wire'[q] = wire[q]
  <2> DEFINE h == FHead(resp[r], pinned[r].synthesis)
  <2>1. /\ h \in Heads /\ h.from = pinned[r].synthesis
        /\ wire' = [wire EXCEPT ![r] = Append(@, h)]
    BY <1>2, <1>4 DEF FHead, Heads
  <2> HIDE DEF h
  <2> QED
    BY <1>4, <2>1, HeadSent
<1>6. Shown(r)'
  BY <1>2, <1>4, <1>5, PanelKept DEF Shown
<1> QED
  BY <1>1, <1>2, <1>3, <1>4, <1>5, <1>6, ReturnInv

\* A panic leaves a 500 to be told.
LEMMA RelayPanicsInv ==
  ASSUME IInv, NEW r \in Requests, RelayPanics(r)
  PROVE  IInv'
<1>1. /\ pc[r] = "reading" /\ Return(r, 0, "panic")
      /\ Release(pinned[r].synthesis) /\ resp' = [resp EXCEPT ![r] = 0]
      /\ UNCHANGED <<snap, council, stream, cancelled, pinned, panelVars, wire>>
  BY DEF RelayPanics
<1>2. 0 \in Nat /\ "panic" \in Errors
  BY DEF Errors
<1>3. Typed /\ Convened(r) /\ wire[r] = <<>> /\ wire \in [Requests -> Seq(Heads)]
  BY <1>1, Unshown
<1>4. outcome'[r] = [status |-> 0, err |-> "panic"]
  BY <1>1, <1>2, <1>3, Returns
<1>5. Owing(r)'
  BY <1>1, <1>3, <1>4, PanelKept DEF Owing
<1> QED
  BY <1>1, <1>2, <1>3, <1>5, ReturnInv

\* A stream that ends was shown already.
LEMMA StreamEndsInv ==
  ASSUME IInv, NEW r \in Requests, StreamEnds(r)
  PROVE  IInv'
<1>1. PICK e \in {"none", "internal"} : Return(r, resp[r], e)
  BY DEF StreamEnds
<1>2. /\ pc[r] = "streaming" /\ Release(pinned[r].synthesis) /\ resp' = [resp EXCEPT ![r] = 0]
      /\ UNCHANGED <<snap, council, stream, cancelled, pinned, panelVars, wire>>
  BY DEF StreamEnds
<1>3. e \in Errors
  BY DEF Errors
<1>4. Typed /\ Shown(r) /\ resp[r] \in Nat /\ wire \in [Requests -> Seq(Heads)]
  BY <1>2 DEF IInv, TypeOK, Typed, Stage
<1>5. Shown(r)'
  BY <1>2, <1>4, PanelKept DEF Shown
<1> QED
  BY <1>1, <1>2, <1>3, <1>4, <1>5, ReturnInv

\* The tail of handleChat tells what is owed, once.
LEMMA FinishInv ==
  ASSUME IInv, NEW r \in Requests, Finish(r)
  PROVE  IInv'
<1> DEFINE b == IF outcome[r].err = "panic" THEN pinned[r].synthesis ELSE {}
           st == IF outcome[r].err = "panic" THEN 500 ELSE outcome[r].status
<1>1. /\ pc[r] = "returned" /\ Goto(r, "done")
      /\ wire' = IF outcome[r].err # "none" /\ wire[r] = <<>>
                 THEN [wire EXCEPT ![r] = Append(@, FHead(st, b))] ELSE wire
      /\ UNCHANGED <<snap, inFlight, council, stream, cancelled, pinned, panelVars, resp, outcome>>
  BY DEF Finish
<1>2. /\ Typed /\ Gauged /\ Local(r) /\ (Shown(r) \/ Owing(r))
      /\ \A i \in Panel(r) : seat[r][i] = "sent"
  BY <1>1 DEF IInv, TypeOK, Local, Stage
<1>3. pc'[r] = "done" /\ \A q \in Requests \ {r} : pc'[q] = pc[q]
  BY <1>1, <1>2, PcAt
<1>4. /\ wire' \in [Requests -> Seq(Heads)] /\ Answered(r)'
      /\ \A q \in Requests \ {r} : wire'[q] = wire[q]
  <2>1. CASE Shown(r)
    <3>1. wire[r] # <<>> /\ wire' = wire
      BY <1>1, <2>1 DEF Shown
    <3> QED
      BY <1>1, <1>2, <2>1, <3>1, PanelKept DEF Answered, Shown, Typed
  <2>2. CASE Owing(r)
    <3>1. /\ wire[r] = <<>> /\ wire' = [wire EXCEPT ![r] = Append(@, FHead(st, b))]
      BY <1>1, <2>2 DEF Owing
    <3>2. st \in Nat /\ b \in Backends \cup {{}}
      BY <1>2 DEF Typed, Outcomes, Roles, Unpinned
    <3>3. /\ wire' \in [Requests -> Seq(Heads)]
          /\ wire'[r] = <<FHead(st, b)>> /\ Len(wire'[r]) = 1 /\ wire'[r][1].from = b
          /\ \A q \in Requests \ {r} : wire'[q] = wire[q]
      <4> DEFINE h == FHead(st, b)
      <4> HIDE DEF st, b
      <4>1. h \in Heads /\ h.from = b /\ wire' = [wire EXCEPT ![r] = Append(@, h)]
        BY <3>1, <3>2 DEF FHead, Heads
      <4> HIDE DEF h
      <4>2. /\ wire' \in [Requests -> Seq(Heads)]
            /\ wire'[r] = <<h>> /\ Len(wire'[r]) = 1 /\ wire'[r][1] = h
            /\ \A q \in Requests \ {r} : wire'[q] = wire[q]
        BY <1>2, <3>1, <4>1, HeadSent
      <4> QED
        BY <4>1, <4>2 DEF h
    <3>4. CASE outcome[r].err = "panic"
      <4>1. Convened(r) /\ b = pinned[r].synthesis
        BY <2>2, <3>4 DEF Owing
      <4>2. Shown(r)'
        BY <1>1, <3>3, <4>1, PanelKept DEF Shown
      <4> QED
        BY <3>3, <4>2 DEF Answered
    <3>5. CASE outcome[r].err = "api"
      <4>1. b = {} /\ st = outcome[r].status
        BY <3>5
      <4>2. \/ outcome[r].status = 503 /\ pinned[r] = Unpinned
            \/ outcome[r].status = 502 /\ (Convened(r) \/ Adjourned(r))
        BY <2>2, <3>5 DEF Owing
      <4> HIDE DEF st, b
      <4>3. Answered(r)'
        BY <1>1, <3>3, <4>1, <4>2, PanelKept DEF Answered
      <4> QED
        BY <3>3, <4>3
    <3> QED
      BY <2>2, <3>4, <3>5 DEF Owing
  <2> QED
    BY <1>2, <2>1, <2>2
<1>5. Typed'
  BY <1>1, <1>2, <1>4 DEF Typed, Goto, PCs, panelVars
<1>6. \A q \in Requests \ {r} : Mine(q)' = Mine(q)
  BY <1>1, <1>3, <1>4 DEF Mine, panelVars
<1>7. Gauged'
  <2>1. \A i, k : CallOpen(r, i, k)' <=> CallOpen(r, i, k)
    BY <1>1, <1>3 DEF CallOpen, Panel, panelVars
  <2> QED
    BY <1>1, <1>2, <1>6, <2>1, GaugeKept
<1>8. Local(r)'
  BY <1>1, <1>2, <1>3, <1>4, PanelKept DEF Local, Stage
<1> QED
  BY <1>5, <1>6, <1>7, <1>8, Assemble

------------------------------------------------------------------------------
\* Nothing is open at the start.
LEMMA InitIInv == Init => IInv
<1> HAVE Init
<1>1. EmptySnapshot \in Snapshot
  BY DEF EmptySnapshot, Snapshot, Unprobed, BackendState
<1>2. /\ \A S : <<>> \in Seq(S) /\ Pending \in Tallies
      /\ [status |-> 0, err |-> "none"] \in Outcomes /\ "idle" \in PCs
  BY DEF Pending, Tallies, Outcomes, PCs
<1>3. Typed
  BY <1>1, <1>2 DEF Init, Typed
<1>4. ASSUME NEW r \in Requests
      PROVE  Local(r)
  <2>1. /\ pc[r] = "idle" /\ pinned[r] = Unpinned /\ seat[r] = <<>> /\ results[r] = <<>>
        /\ collected[r] = Pending /\ answers[r] = <<>> /\ wire[r] = <<>>
    BY DEF Init
  <2>2. Panel(r) = {}
    BY <1>3, <2>1, PanelIs
  <2>3. {i \in Panel(r) : seat[r][i] = "sent"} = {}
    BY <2>2
  <2>4. Cardinality({i \in Panel(r) : seat[r][i] = "sent"}) = 0
    BY <2>3, FS_EmptySet
  <2>5. Tallied(r)
    BY <2>1, <2>2, <2>4 DEF Tallied, Pending
  <2>6. Stage(r)
    BY <2>1, <2>2 DEF Stage, Fresh
  <2> QED
    BY <2>5, <2>6 DEF Local
<1>5. ASSUME NEW b \in Backends
      PROVE  OpenCalls(b) = {}
  <2>1. ASSUME NEW r \in Requests, NEW i
        PROVE  ~CallOpen(r, i, b)
    <3>1. pc[r] = "idle" /\ Panel(r) = {}
      BY <1>3, PanelIs DEF Init
    <3> QED
      BY <3>1 DEF CallOpen
  <2>2. \A x : x \notin OpenCalls(b)
    BY <2>1, OpenCallsAre
  <2> QED
    BY <2>2
<1>6. Gauged
  BY <1>5, FS_EmptySet DEF Init, Gauged
<1> QED
  BY <1>3, <1>4, <1>6 DEF IInv, TypeOK, Local

\* Every step preserves the invariant.
LEMMA NextIInv == IInv /\ [Next]_vars => IInv'
<1> SUFFICES ASSUME IInv, [Next]_vars
             PROVE  IInv'
  OBVIOUS
<1>1. CASE Publish
  <2>1. Typed'
    BY <1>1, FusionAssumption DEF IInv, TypeOK, Typed, Publish, panelVars
  <2>2. \A q \in Requests : Mine(q)' = Mine(q)
    BY <1>1 DEF Publish, Mine, panelVars
  <2>3. inFlight' = inFlight
    BY <1>1 DEF Publish
  <2> QED
    BY <2>1, <2>2, <2>3, AssembleQuiet
<1>2. ASSUME NEW r \in Requests, Own(r)
      PROVE  IInv'
  <2>1. CASE Resolve(r)
    BY <2>1, ResolveInv
  <2>2. CASE Unresolved(r)
    BY <2>2, UnresolvedInv
  <2>3. CASE Collect(r)
    BY <2>3, CollectInv
  <2>4. CASE Convene(r)
    BY <2>4, ConveneInv
  <2>5. CASE Adjourn(r)
    BY <2>5, AdjournInv
  <2>6. CASE Synthesize(r)
    BY <2>6, SynthesizeInv
  <2>7. CASE RelayPanics(r)
    BY <2>7, RelayPanicsInv
  <2>8. CASE Finish(r)
    BY <2>8, FinishInv
  <2>9. CASE \E i \in DOMAIN seat[r] : Ask(r, i)
    BY <2>9, AskInv
  <2> QED
    BY <1>2, <2>1, <2>2, <2>3, <2>4, <2>5, <2>6, <2>7, <2>8, <2>9 DEF Own
<1>3. ASSUME NEW r \in Requests, Upstream(r)
      PROVE  IInv'
  <2>1. CASE \E i \in DOMAIN seat[r] : Panelist(r, i)
    BY <2>1, PanelistInv
  <2>2. CASE Judge(r)
    BY <2>2, JudgeInv
  <2>3. CASE SynthesisFails(r)
    BY <2>3, SynthesisFailsInv
  <2>4. CASE Answer(r)
    BY <2>4, AnswerInv
  <2>5. CASE OpenStream(r)
    BY <2>5, OpenStreamInv
  <2>6. CASE Relay(r)
    BY <2>6, RelayInv
  <2>7. CASE StreamEnds(r)
    BY <2>7, StreamEndsInv
  <2> QED
    BY <1>3, <2>1, <2>2, <2>3, <2>4, <2>5, <2>6, <2>7 DEF Upstream
<1>4. ASSUME NEW r \in Requests, Cancel(r)
      PROVE  IInv'
  <2>1. Typed'
    BY <1>4 DEF IInv, TypeOK, Typed, Cancel, panelVars
  <2>2. \A q \in Requests : Mine(q)' = Mine(q)
    BY <1>4 DEF Cancel, Mine, panelVars
  <2>3. inFlight' = inFlight
    BY <1>4 DEF Cancel
  <2> QED
    BY <2>1, <2>2, <2>3, AssembleQuiet
<1>5. CASE UNCHANGED vars
  <2>1. Typed'
    BY <1>5 DEF IInv, TypeOK, Typed, vars, panelVars
  <2>2. \A q \in Requests : Mine(q)' = Mine(q)
    BY <1>5 DEF vars, panelVars, Mine
  <2>3. inFlight' = inFlight
    BY <1>5 DEF vars
  <2> QED
    BY <2>1, <2>2, <2>3, AssembleQuiet
<1> QED
  BY <1>1, <1>2, <1>3, <1>4, <1>5 DEF Next

\* The inductive invariant holds.
THEOREM Invariance == Spec => []IInv
BY InitIInv, NextIInv, PTL DEF Spec

\* The state keeps its shape, and the channel never holds more than the panel
\* sends, whatever the size of the panel: the sends of runPanel never block.
THEOREM TypeCorrect == Spec => []TypeOK
<1>1. IInv => TypeOK
  BY DEF IInv
<1> QED
  BY <1>1, Invariance, PTL

\* A backend's gauge is the number of calls open to it, through every
\* interleaving of the panels' goroutines, judges and syntheses.
THEOREM GaugesRight == Spec => []GaugesExact
<1>1. IInv => GaugesExact
  <2> HAVE IInv
  <2>1. \A b \in Backends : inFlight[b] = Cardinality(OpenCalls(b))
    BY DEF IInv, Gauged
  <2>2. ASSUME NEW r \in Requests, NEW i \in Panel(r), seat[r][i] = "calling"
        PROVE  pc[r] = "panel"
    BY <2>2 DEF IInv, Stage
  <2> QED
    BY <2>1, <2>2 DEF GaugesExact
<1> QED
  BY <1>1, Invariance, PTL

\* Judge and synthesis are asked after the whole panel reported and enough of
\* it answered, and the judge gets every answer, in panel order.
THEOREM QuorumKept == Spec => []QuorumRespected
<1>1. IInv => QuorumRespected
  <2> SUFFICES ASSUME IInv, NEW r \in Requests,
                      pc[r] \in {"judging", "synthesizing", "calling", "reading", "streaming"}
               PROVE  /\ \A i \in Panel(r) : seat[r][i] = "sent"
                      /\ {answers[r][k] : k \in DOMAIN answers[r]} = collected[r].texts
                      /\ \A k, l \in DOMAIN answers[r] : k < l => answers[r][k] < answers[r][l]
                      /\ Len(answers[r]) >= council[r].minPanel
    BY DEF QuorumRespected
  <2>1. Typed /\ Tallied(r) /\ Convened(r) /\ \A i \in Panel(r) : seat[r][i] = "sent"
    BY DEF IInv, TypeOK, Stage, Shown
  <2>2. answers[r] = InOrder(r) /\ Len(answers[r]) >= council[r].minPanel
    BY <2>1 DEF Convened
  <2> QED
    BY <2>1, <2>2, InOrderIs
<1> QED
  BY <1>1, Invariance, PTL

\* The client gets exactly one response: the synthesis, or the router's own.
THEOREM OneAnswer == Spec => []OnlySynthesisShown
<1>1. IInv => OnlySynthesisShown
  <2> SUFFICES ASSUME IInv, NEW r \in Requests
               PROVE  /\ Len(wire[r]) <= 1 /\ (pc[r] = "done" => Len(wire[r]) = 1)
                      /\ \A k \in DOMAIN wire[r] :
                           LET h == wire[r][k]
                           IN \/ h.from = pinned[r].synthesis
                                   /\ Len(answers[r]) >= council[r].minPanel
                              \/ h.from = {} /\ h.status = 503 /\ pinned[r] = Unpinned
                              \/ /\ h.from = {} /\ h.status = 502
                                 /\ \/ Len(answers[r]) >= council[r].minPanel
                                    \/ /\ AllCollected(r)
                                       /\ Cardinality(collected[r].texts) < council[r].minPanel
    BY DEF OnlySynthesisShown
  <2>1. Typed /\ Stage(r) /\ wire[r] \in Seq(Heads) /\ pc[r] \in PCs
    BY DEF IInv, TypeOK, Typed
  <2>2. CASE wire[r] = <<>>
    <3>1. pc[r] # "done" /\ Len(wire[r]) = 0 /\ DOMAIN wire[r] = {}
      BY <2>1, <2>2 DEF Stage, Answered, Shown
    <3> QED
      BY <3>1
  <2>3. CASE wire[r] # <<>>
    <3>1. Answered(r)
      BY <2>1, <2>3 DEF Stage, Fresh, Shown, Owing, Answered, PCs
    <3>2. Len(wire[r]) = 1 /\ DOMAIN wire[r] = {1}
      <4>1. Len(wire[r]) = 1
        BY <3>1 DEF Answered, Shown
      <4>2. DOMAIN wire[r] = 1..1
        BY <2>1, <4>1
      <4> QED
        BY <4>1, <4>2
    <3>3. CASE Shown(r)
      BY <3>2, <3>3 DEF Shown, Convened
    <3>4. CASE wire[r] = <<FHead(503, {})>> /\ pinned[r] = Unpinned
      <4>1. wire[r][1].from = {} /\ wire[r][1].status = 503
        BY <3>4 DEF FHead
      <4> QED
        BY <3>2, <3>4, <4>1
    <3>5. CASE wire[r] = <<FHead(502, {})>> /\ (Convened(r) \/ Adjourned(r))
      <4>1. wire[r][1].from = {} /\ wire[r][1].status = 502
        BY <3>5 DEF FHead
      <4> QED
        BY <3>2, <3>5, <4>1 DEF Convened, Adjourned
    <3> QED
      BY <3>1, <3>3, <3>4, <3>5 DEF Answered
  <2> QED
    BY <2>2, <2>3
<1> QED
  BY <1>1, Invariance, PTL
==============================================================================
