----------------------------- MODULE Proxy_proofs -----------------------------
(***************************************************************************)
(* Proofs about the request path, for every fleet, every set of aliases,   *)
(* every number of requests and every attempt budget.                      *)
(*                                                                         *)
(* IInv is the inductive invariant.  It is local to each request, but for  *)
(* the in-flight gauge: Stage says, for every point of the handler, who    *)
(* was called, who was reported and what reached the client so far, and    *)
(* the safety properties of Proxy are consequences of it.  RInv, in the    *)
(* last part, is about the turns that concurrent requests take of the one  *)
(* rotation counter: they are unique because the requests that took one    *)
(* took the latest ones, and Age says how many turns ago.                  *)
(***************************************************************************)
EXTENDS Proxy, Ascending_proofs

------------------------------------------------------------------------------
\* The survivors are finitely many positions of the plan.
LEMMA FitIs ==
  ASSUME NEW s \in Snapshot, NEW plan \in Plan
  PROVE  /\ Fit(s, plan) \in SUBSET Nat /\ IsFiniteSet(Fit(s, plan))
         /\ \A i \in Fit(s, plan) : i \in DOMAIN plan.cands /\ plan.cands[i] \in Candidate
<1>1. plan.cands \in Seq(Candidate) /\ Len(plan.cands) \in Nat
  BY DEF Plan
<1>2. Fit(s, plan) \subseteq 1..Len(plan.cands)
  BY <1>1 DEF Fit
<1>3. IsFiniteSet(1..Len(plan.cands))
  BY <1>1, FS_Interval
<1> QED
  BY <1>1, <1>2, <1>3, FS_Subset

\* Shift is the distance of a survivor from the start of the rotation.
LEMMA ShiftIs ==
  ASSUME NEW v, NEW p, NEW t, NEW i
  PROVE  Shift(v, p, t, i) = Distance(Fit(v, p), t, i)
BY DEF Shift, Distance

\* Of the healthy candidates that the loop has not reached, exactly one comes
\* next, whatever the selector, the snapshot, the turn, and the client's
\* protocol and quality bar: the relation Precedes that Proxy goes by instead of
\* the code's sorted slice leaves nothing open, and never stops the loop.
THEOREM OneNext ==
  ASSUME NEW s \in Snapshot, NEW plan \in Plan, NEW turn \in Nat, NEW consumer,
         NEW override \in Int, NEW T \in SUBSET Fit(s, plan), T # {}
  PROVE  \E i \in T : \A j \in T \ {i} :
           /\ Precedes(s, plan, turn, consumer, override, i, j)
           /\ ~Precedes(s, plan, turn, consumer, override, j, i)
<1>1. \A i \in T : i \in Nat /\ plan.cands[i] \in Candidate /\ i \in Fit(s, plan)
  BY FitIs
<1>2. CASE plan.selector = "pareto"
  <2> DEFINE bar == Bar(plan, override)
             f   == [i \in T |-> IF plan.cands[i].quality >= bar THEN 0 ELSE 1]
             g   == [i \in T |-> Cost(s, plan.cands[i])]
             h   == [i \in T |-> i]
  <2>1. f \in [T -> Nat] /\ h \in [T -> Nat]
    BY <1>1
  <2>2. g \in [T -> Nat]
    <3>1. ASSUME NEW i \in T
          PROVE  Cost(s, plan.cands[i]) \in Nat
      <4>1. s[plan.cands[i].backend] \in BackendState
        BY <1>1 DEF Candidate, Snapshot
      <4> QED
        BY <4>1 DEF Cost, BackendState
    <3> QED
      BY <3>1
  <2>3. ASSUME NEW i \in T, NEW j \in T
        PROVE  Less(f, g, h, i, j) <=> Precedes(s, plan, turn, consumer, override, i, j)
    BY <1>2, <2>3 DEF Less, Precedes, ParetoBefore
  <2> HIDE DEF f, g
  <2>4. \E i \in T : \A j \in T \ {i} : Less(f, g, h, i, j) /\ ~Less(f, g, h, j, i)
    BY <2>1, <2>2, OneLeast
  <2> QED
    BY <2>3, <2>4
<1>3. CASE plan.selector # "pareto"
  <2> DEFINE f == [i \in T |-> IF ProtocolOf[plan.cands[i].backend] = consumer THEN 0 ELSE 1]
             g == [i \in T |-> 0]
             h == [i \in T |-> Shift(s, plan, turn, i)]
  <2>1. f \in [T -> Nat] /\ g \in [T -> Nat]
    OBVIOUS
  <2>2. h \in [T -> Nat]
    <3>1. \A i \in T : Shift(s, plan, turn, i) \in Nat
      BY <1>1, FitIs, ShiftIs, DistanceNat
    <3> QED
      BY <3>1
  <2>3. \A i, j \in T : i # j => h[i] # h[j]
    BY <1>1, FitIs, ShiftIs, DistanceInjective
  <2>4. ASSUME NEW i \in T, NEW j \in T
        PROVE  Less(f, g, h, i, j) <=> Precedes(s, plan, turn, consumer, override, i, j)
    BY <1>3, <2>4 DEF Less, Precedes, RoundRobinBefore
  <2> HIDE DEF f, g, h
  <2>5. \E i \in T : \A j \in T \ {i} : Less(f, g, h, i, j) /\ ~Less(f, g, h, j, i)
    BY <2>1, <2>2, <2>3, OneLeast
  <2> QED
    BY <2>4, <2>5
<1> QED
  BY <1>2, <1>3
------------------------------------------------------------------------------
\* Nothing was called, answered or returned.
Fresh(r) ==
  /\ tried[r] = {} /\ reported[r] = {} /\ wire[r] = <<>>
  /\ outcome[r] = NoOutcome /\ hdr[r] = 0

\* The candidate called last is the only one not reported.
Held(r) == outcome[r].cand \in tried[r] /\ reported[r] = tried[r] \ {outcome[r].cand}

\* The client has the response head of the candidate called last.
Relayed(r) ==
  /\ Held(r)
  /\ outcome[r].err \in {"none", "internal"}
  /\ outcome[r].status # 0
  /\ \/ wire[r] = <<RHead(200, outcome[r].cand, outcome[r].cand, "stream")>>
        /\ Success(outcome[r].status)
     \/ wire[r] = <<RHead(outcome[r].status, outcome[r].cand, outcome[r].cand, "unary")>>

Panicked(r) == outcome[r].err = "panic" /\ Held(r) /\ hdr[r] = outcome[r].cand

Aborted(r) ==
  /\ outcome[r].err = "internal"
  /\ cancelled[r]
  /\ tried[r] \ reported[r] \subseteq {outcome[r].cand}

\* The router refuses: unknown or unhealthy model, or every attempt failed.
Refused(r) ==
  LET fit == Fit(route[r].view, route[r].plan)
  IN /\ outcome[r].err = "api"
     /\ reported[r] = tried[r]
     /\ \/ outcome[r].status = 404 /\ tried[r] = {}
        \/ outcome[r].status = 503 /\ tried[r] = {} /\ fit = {}
        \/ outcome[r].status = 502 /\ (tried[r] = fit \/ outcome[r].sent = MaxAttempts)

Envelope(r, h) == wire[r] = <<RHead(logged[r], h, 0, "envelope")>>

\* The one answer of a handler that returned.
Answered(r) ==
  \/ Relayed(r) /\ logged[r] = outcome[r].status
  \/ /\ Envelope(r, 0)
     /\ \/ /\ outcome[r] = NoOutcome /\ tried[r] = {} /\ reported[r] = {}
           /\ logged[r] \in {400, 413}
        \/ Aborted(r) /\ logged[r] = 502
        \/ Refused(r) /\ logged[r] = outcome[r].status
  \/ Envelope(r, hdr[r]) /\ Panicked(r) /\ logged[r] = 500

Stage(r) ==
  /\ pc[r] \in {"idle", "routing", "selecting"} => Fresh(r)
  /\ pc[r] \in {"idle", "routing"} => route[r] = NoRoute
  /\ pc[r] = "trying" =>
       wire[r] = <<>> /\ outcome[r].err = "none" /\ reported[r] = tried[r]
  /\ pc[r] \in {"calling", "reading"} =>
       wire[r] = <<>> /\ outcome[r].err = "none" /\ Held(r)
  /\ pc[r] = "reading" => hdr[r] = outcome[r].cand
  /\ pc[r] = "streaming" =>
       /\ outcome[r].err = "none"
       /\ Held(r)
       /\ wire[r] = <<RHead(200, outcome[r].cand, outcome[r].cand, "stream")>>
       /\ Success(outcome[r].status)
  /\ pc[r] = "returned" =>
       Relayed(r) \/ (wire[r] = <<>> /\ (Panicked(r) \/ Aborted(r) \/ Refused(r)))
  /\ pc[r] = "done" => Answered(r)

Budget(r) ==
  /\ IsFiniteSet(tried[r])
  /\ outcome[r].sent = Cardinality(tried[r])
  /\ outcome[r].sent <= MaxAttempts
  /\ outcome[r].failovers = IF tried[r] = {} THEN 0 ELSE outcome[r].sent - 1
  /\ tried[r] \subseteq Fit(route[r].view, route[r].plan)

Placed(r) == DOMAIN route[r].plan.cands \subseteq Positions

IInv ==
  /\ TypeOK
  /\ InFlightAccounts
  /\ \A r \in Requests : Stage(r) /\ Budget(r) /\ Placed(r)

Local(r) == Stage(r) /\ Budget(r) /\ Placed(r)

\* What a step of another request leaves alone.
Mine(r) == <<pc[r], input[r], cancelled[r], route[r], tried[r], outcome[r], resp[r], hdr[r],
             wire[r], reported[r], logged[r]>>

OpenAt(b) == {r \in Requests : Open(r) /\ CurrentBackend(r) = b}

------------------------------------------------------------------------------
\* A name resolves to well-formed plans only, and their positions are among
\* those the contract quantifies over.
LEMMA PlansTyped ==
  ASSUME NEW s \in Snapshot, NEW m \in DOMAIN Aliases \cup Models, NEW p \in Plans(s, m)
  PROVE  p \in Plan /\ DOMAIN p.cands \subseteq Positions
<1>1. CASE m \in DOMAIN Aliases
  <2>1. p = Aliases[m]
    BY <1>1 DEF Plans
  <2> QED
    BY <1>1, <2>1, ProxyAssumption DEF Positions
<1>2. CASE m \notin DOMAIN Aliases
  <2> DEFINE S == BackendsServing(s, m)
  <2>1. /\ m \in Models
        /\ p \in DirectPlans(s, m)
    BY <1>2 DEF Plans
  <2>2. PICK f \in Listings(S) :
          p = [selector |-> "round_robin", minQuality |-> 0, direct |-> TRUE,
               cands |-> [i \in DOMAIN f |-> [model |-> m, backend |-> f[i], quality |-> 0]]]
    BY <2>1 DEF DirectPlans
  <2>3. /\ IsFiniteSet(S)
        /\ S \subseteq Backends
        /\ Cardinality(S) \in Nat
        /\ Cardinality(S) <= Cardinality(Backends)
        /\ Cardinality(Backends) \in Nat
    <3>1. S \subseteq Backends
      BY DEF BackendsServing
    <3> QED
      BY <3>1, FleetAssumption, FS_Subset, FS_CardinalityType
  <2>4. f \in [1..Cardinality(S) -> S]
    BY <2>2 DEF Listings
  <2>5. p.cands \in [1..Cardinality(S) -> Candidate]
    BY <1>2, <2>1, <2>2, <2>3, <2>4, SelectionAssumption DEF Candidate
  <2>6. p.cands \in Seq(Candidate)
    BY <2>3, <2>5
  <2>7. p \in Plan
    BY <2>2, <2>6, SelectionAssumption DEF Plan, Selectors
  <2>8. DOMAIN p.cands \subseteq 1..Cardinality(Backends)
    BY <2>3, <2>5
  <2> QED
    BY <2>7, <2>8 DEF Positions
<1> QED
  BY <1>1, <1>2

\* What a request knows of itself is disturbed by no other request.
LEMMA Unmoved ==
  ASSUME NEW q \in Requests, Local(q), Mine(q)' = Mine(q)
  PROVE  Local(q)'
<1>1. /\ pc'[q] = pc[q] /\ input'[q] = input[q] /\ cancelled'[q] = cancelled[q]
      /\ route'[q] = route[q] /\ tried'[q] = tried[q] /\ outcome'[q] = outcome[q]
      /\ resp'[q] = resp[q] /\ hdr'[q] = hdr[q] /\ wire'[q] = wire[q]
      /\ reported'[q] = reported[q] /\ logged'[q] = logged[q]
  BY DEF Mine
<1>2. Stage(q)'
  BY <1>1 DEF Local, Stage, Fresh, Held, Relayed, Panicked, Aborted, Refused, Envelope, Answered
<1>3. Budget(q)' /\ Placed(q)'
  BY <1>1 DEF Local, Budget, Placed
<1> QED
  BY <1>2, <1>3 DEF Local

\* A step that leaves what the other requests know of themselves alone preserves
\* their stages.
LEMMA Frame ==
  ASSUME NEW r \in Requests, Local(r)', \A q \in Requests : Local(q),
         \A q \in Requests \ {r} : Mine(q)' = Mine(q)
  PROVE  \A q \in Requests : Local(q)'
BY Unmoved

\* The call a request holds is to a configured backend.
LEMMA CurrentBackendTyped ==
  ASSUME TypeOK, NEW r \in Requests, outcome[r].cand \in tried[r]
  PROVE  CurrentBackend(r) \in Backends
<1>1. /\ outcome[r].cand \in DOMAIN route[r].plan.cands
      /\ route[r].plan.cands \in Seq(Candidate)
  BY DEF TypeOK, Routes, Plan
<1>2. route[r].plan.cands[outcome[r].cand] \in Candidate
  BY <1>1
<1> QED
  BY <1>2 DEF CurrentBackend, Candidate

\* The calls open to a backend are finitely many: the gauge can be compared with
\* their number.
LEMMA OpenAtFinite ==
  \A b : IsFiniteSet(OpenAt(b)) /\ Cardinality(OpenAt(b)) \in Nat
<1> TAKE b
<1>1. OpenAt(b) \subseteq Requests
  BY DEF OpenAt
<1> QED
  BY <1>1, ProxyAssumption, FS_Subset, FS_CardinalityType

\* Another request's call is open, or not, and to the same backend as before.
LEMMA OthersOpen ==
  \A q : Mine(q)' = Mine(q) =>
    (Open(q)' <=> Open(q)) /\ CurrentBackend(q)' = CurrentBackend(q)
<1> TAKE q
<1> HAVE Mine(q)' = Mine(q)
<1>1. pc'[q] = pc[q] /\ route'[q] = route[q] /\ outcome'[q] = outcome[q]
  BY DEF Mine
<1> QED
  BY <1>1 DEF Open, CurrentBackend

\* The gauge stays right when no call opens or closes, ...
LEMMA GaugeKept ==
  ASSUME InFlightAccounts, NEW r \in Requests, inFlight' = inFlight,
         Open(r)' <=> Open(r), Open(r) => CurrentBackend(r)' = CurrentBackend(r),
         \A q \in Requests \ {r} : Mine(q)' = Mine(q)
  PROVE  InFlightAccounts'
<1>1. ASSUME NEW b \in Backends
      PROVE  OpenAt(b)' = OpenAt(b)
  BY OthersOpen DEF OpenAt
<1> QED
  BY <1>1 DEF InFlightAccounts, OpenAt

\* ... when one opens and takes a slot, ...
LEMMA GaugeUp ==
  ASSUME TypeOK, InFlightAccounts, NEW r \in Requests, NEW c \in Backends,
         ~Open(r), Open(r)', CurrentBackend(r)' = c,
         inFlight' = [inFlight EXCEPT ![c] = @ + 1],
         \A q \in Requests \ {r} : Mine(q)' = Mine(q)
  PROVE  InFlightAccounts' /\ inFlight' \in [Backends -> Nat]
<1>1. ASSUME NEW b \in Backends, b # c
      PROVE  OpenAt(b)' = OpenAt(b) /\ inFlight'[b] = inFlight[b]
  BY <1>1, OthersOpen DEF OpenAt, TypeOK
<1>2. OpenAt(c)' = OpenAt(c) \cup {r} /\ r \notin OpenAt(c)
  BY OthersOpen DEF OpenAt
<1>3. Cardinality(OpenAt(c)') = Cardinality(OpenAt(c)) + 1
  BY <1>2, OpenAtFinite, FS_AddElement
<1>4. inFlight'[c] = inFlight[c] + 1 /\ inFlight' \in [Backends -> Nat]
  BY DEF TypeOK
<1>5. \A b \in Backends : inFlight'[b] = Cardinality(OpenAt(b)')
  BY <1>1, <1>3, <1>4 DEF InFlightAccounts, OpenAt
<1> QED
  BY <1>4, <1>5 DEF InFlightAccounts, OpenAt

\* ... and when one closes and releases its own.
LEMMA GaugeDown ==
  ASSUME TypeOK, InFlightAccounts, NEW r \in Requests, NEW c \in Backends,
         CurrentBackend(r) = c, Open(r), ~Open(r)', Release(r),
         \A q \in Requests \ {r} : Mine(q)' = Mine(q)
  PROVE  InFlightAccounts' /\ inFlight' \in [Backends -> Nat]
<1>1. ASSUME NEW b \in Backends, b # c
      PROVE  OpenAt(b)' = OpenAt(b) /\ inFlight'[b] = inFlight[b]
  BY <1>1, OthersOpen DEF OpenAt, TypeOK, Release
<1>2. r \in OpenAt(c) /\ OpenAt(c)' = OpenAt(c) \ {r}
  BY OthersOpen DEF OpenAt
<1>3. Cardinality(OpenAt(c)') = Cardinality(OpenAt(c)) - 1
  BY <1>2, OpenAtFinite, FS_RemoveElement
<1>4. inFlight[c] >= 1
  <2>1. Cardinality(OpenAt(c)) # 0
    BY <1>2, OpenAtFinite, FS_EmptySet
  <2> QED
    BY <2>1, OpenAtFinite DEF InFlightAccounts, OpenAt
<1>5. inFlight'[c] = inFlight[c] - 1 /\ inFlight' \in [Backends -> Nat]
  BY <1>4 DEF TypeOK, Release
<1>6. \A b \in Backends : inFlight'[b] = Cardinality(OpenAt(b)')
  BY <1>1, <1>3, <1>5 DEF InFlightAccounts, OpenAt
<1> QED
  BY <1>5, <1>6 DEF InFlightAccounts, OpenAt

\* The parts of the invariant are re-established one by one.
LEMMA Assemble ==
  ASSUME IInv, NEW r \in Requests, TypeOK', Local(r)', InFlightAccounts',
         \A q \in Requests \ {r} : Mine(q)' = Mine(q)
  PROVE  IInv'
BY Frame DEF IInv, Local

------------------------------------------------------------------------------
\* What a jump does to the point each request is at.
LEMMA PcAt ==
  ASSUME TypeOK, NEW r \in Requests, NEW l, pc' = [pc EXCEPT ![r] = l]
  PROVE  pc'[r] = l /\ \A q \in Requests \ {r} : pc'[q] = pc[q]
BY DEF TypeOK

\* Accept starts a request with nothing tried and nothing sent.
LEMMA AcceptInv ==
  ASSUME IInv, NEW r \in Requests, Accept(r)
  PROVE  IInv'
<1> USE DEF Accept, Goto
<1>1. TypeOK'
  BY DEF IInv, TypeOK, PCs
<1>2. /\ pc[r] = "idle" /\ pc'[r] = "routing"
      /\ Local(r)
  BY DEF IInv, TypeOK, Local
<1>3. Local(r)'
  BY <1>2 DEF Local, Stage, Fresh, Budget, Placed
<1>4. \A q \in Requests \ {r} : Mine(q)' = Mine(q)
  BY DEF IInv, TypeOK, Mine
<1>5. InFlightAccounts'
  BY <1>2, <1>4, GaugeKept DEF IInv, Open
<1> QED
  BY <1>1, <1>3, <1>4, <1>5, Assemble

\* Resolve leaves the request a well-formed plan.
LEMMA ResolveInv ==
  ASSUME IInv, NEW r \in Requests, Resolve(r)
  PROVE  IInv'
<1>1. PICK p \in Plans(snap, input[r].model) : route' = [route EXCEPT ![r].plan = p]
  BY DEF Resolve
<1>2. p \in Plan /\ DOMAIN p.cands \subseteq Positions
  <2>1. input[r].model \in DOMAIN Aliases \cup Models
    BY ProxyAssumption DEF IInv, TypeOK, Input
  <2> QED
    BY <2>1, PlansTyped DEF IInv, TypeOK
<1>3. /\ pc[r] = "routing" /\ pc' = [pc EXCEPT ![r] = "selecting"]
      /\ Local(r)
      /\ tried[r] = {} /\ reported[r] = {}
      /\ UNCHANGED <<snap, counter, inFlight, input, cancelled, tried, outcome, resp, hdr, wire,
                     reported, logged>>
  BY DEF IInv, TypeOK, Local, Resolve, Goto, Stage, Fresh
<1>4. route' \in [Requests -> Routes] /\ route'[r].plan = p
  <2>1. route \in [Requests -> Routes]
    BY DEF IInv, TypeOK
  <2>2. [route[r] EXCEPT !.plan = p] \in Routes /\ [route[r] EXCEPT !.plan = p].plan = p
    BY <1>2, <2>1 DEF Routes
  <2>3. route' = [route EXCEPT ![r] = [route[r] EXCEPT !.plan = p]]
    BY <1>1, <2>1
  <2> QED
    BY <2>1, <2>2, <2>3
<1>5. \A q \in Requests \ {r} : route'[q] = route[q]
  BY <1>1 DEF IInv, TypeOK
<1>6. TypeOK'
  BY <1>3, <1>4, <1>5 DEF IInv, TypeOK, PCs
<1>7. Local(r)'
  <2>1. pc'[r] = "selecting"
    BY <1>3 DEF IInv, TypeOK
  <2> QED
    BY <1>2, <1>3, <1>4, <2>1 DEF Local, Stage, Fresh, Budget, Placed
<1>8. \A q \in Requests \ {r} : Mine(q)' = Mine(q)
  BY <1>3, <1>5 DEF IInv, TypeOK, Mine
<1>9. InFlightAccounts'
  BY <1>3, <1>7, <1>8, PcAt, GaugeKept DEF IInv, Open
<1> QED
  BY <1>6, <1>7, <1>8, <1>9, Assemble

\* Select fixes the view and the turn, before anything is tried.
LEMMA SelectInv ==
  ASSUME IInv, NEW r \in Requests, Select(r)
  PROVE  IInv'
<1>1. /\ pc[r] = "selecting" /\ pc' = [pc EXCEPT ![r] = "trying"]
      /\ route' = [route EXCEPT ![r].view = snap, ![r].turn = counter]
      /\ Local(r)
      /\ Fresh(r)
      /\ UNCHANGED <<snap, inFlight, input, cancelled, tried, outcome, resp, hdr, wire, reported,
                     logged>>
  BY DEF IInv, TypeOK, Local, Select, Goto, Stage
<1>2. /\ route' \in [Requests -> Routes]
      /\ route'[r].plan = route[r].plan
      /\ \A q \in Requests \ {r} : route'[q] = route[q]
  <2> DEFINE new == [route[r] EXCEPT !.view = snap, !.turn = counter]
  <2>1. route \in [Requests -> Routes] /\ snap \in Snapshot /\ counter \in 0..(CounterWidth - 1)
    BY DEF IInv, TypeOK
  <2>2. new \in Routes /\ new.plan = route[r].plan
    BY <2>1 DEF Routes
  <2>3. route' = [route EXCEPT ![r] = new]
    BY <1>1, <2>1
  <2> QED
    BY <2>1, <2>2, <2>3
<1>3. counter' \in 0..(CounterWidth - 1)
  BY ProxyAssumption DEF IInv, TypeOK, Select
<1>4. TypeOK'
  BY <1>1, <1>2, <1>3 DEF IInv, TypeOK, PCs
<1>5. Local(r)'
  <2>1. pc'[r] = "trying"
    BY <1>1 DEF IInv, TypeOK
  <2> QED
    <3>1. Stage(r)'
      BY <1>1, <2>1 DEF Stage, Fresh, NoOutcome
    <3>2. Budget(r)'
      BY <1>1 DEF Local, Budget, Fresh
    <3>3. Placed(r)'
      BY <1>1, <1>2 DEF Local, Placed
    <3> QED
      BY <3>1, <3>2, <3>3 DEF Local
<1>6. \A q \in Requests \ {r} : Mine(q)' = Mine(q)
  BY <1>1, <1>2 DEF IInv, TypeOK, Mine
<1>7. InFlightAccounts'
  BY <1>1, <1>6, PcAt, GaugeKept DEF IInv, Open
<1> QED
  BY <1>4, <1>5, <1>6, <1>7, Assemble

Errors == {"none", "api", "internal", "panic"}

\* Returning settles the status and the error, and nothing else of the outcome.
LEMMA Returns ==
  ASSUME TypeOK, NEW r \in Requests, NEW st \in Nat, NEW e \in Errors, Return(r, st, e)
  PROVE  /\ outcome' \in [Requests -> Outcomes]
         /\ outcome'[r].status = st /\ outcome'[r].err = e
         /\ outcome'[r].cand = outcome[r].cand
         /\ outcome'[r].sent = outcome[r].sent
         /\ outcome'[r].failovers = outcome[r].failovers
         /\ \A q \in Requests \ {r} : outcome'[q] = outcome[q]
         /\ pc' = [pc EXCEPT ![r] = "returned"]
         /\ pc'[r] = "returned"
<1> DEFINE new == [outcome[r] EXCEPT !.status = st, !.err = e]
<1>1. outcome \in [Requests -> Outcomes] /\ pc \in [Requests -> PCs]
  BY DEF TypeOK
<1>2. /\ new \in Outcomes /\ new.status = st /\ new.err = e /\ new.cand = outcome[r].cand
      /\ new.sent = outcome[r].sent /\ new.failovers = outcome[r].failovers
  BY <1>1 DEF Outcomes, Errors
<1>3. outcome' = [outcome EXCEPT ![r] = new] /\ pc' = [pc EXCEPT ![r] = "returned"]
  BY <1>1 DEF Return, Goto
<1> QED
  BY <1>1, <1>2, <1>3

\* An unknown name ends in an error before anything is tried.
LEMMA UnresolvedInv ==
  ASSUME IInv, NEW r \in Requests, Unresolved(r)
  PROVE  IInv'
<1>1. PICK st \in {404, 503} : Return(r, st, "api")
  BY DEF Unresolved
<1>2. /\ pc[r] = "routing" /\ Local(r) /\ Fresh(r) /\ route[r] = NoRoute
      /\ UNCHANGED <<snap, counter, inFlight, input, cancelled, route, tried, resp, hdr, wire,
                     reported, logged>>
  BY DEF IInv, TypeOK, Local, Unresolved, Stage
<1>3. /\ outcome' \in [Requests -> Outcomes]
      /\ outcome'[r].status = st /\ outcome'[r].err = "api"
      /\ outcome'[r].sent = outcome[r].sent /\ outcome'[r].failovers = outcome[r].failovers
      /\ \A q \in Requests \ {r} : outcome'[q] = outcome[q]
      /\ pc' = [pc EXCEPT ![r] = "returned"]
      /\ pc'[r] = "returned"
  BY <1>1, Returns DEF IInv, Errors
<1>4. TypeOK'
  BY <1>2, <1>3 DEF IInv, TypeOK, PCs
<1>5. Local(r)'
  <2>1. Fit(route[r].view, route[r].plan) = {}
    BY <1>2 DEF NoRoute, NoPlan, Fit
  <2>2. Stage(r)'
    BY <1>2, <1>3, <2>1 DEF Stage, Fresh, Refused
  <2>3. Budget(r)' /\ Placed(r)'
    BY <1>2, <1>3 DEF Local, Budget, Placed
  <2> QED
    BY <2>2, <2>3 DEF Local
<1>6. \A q \in Requests \ {r} : Mine(q)' = Mine(q)
  BY <1>2, <1>3 DEF IInv, TypeOK, Mine
<1>7. InFlightAccounts'
  BY <1>2, <1>3, <1>6, GaugeKept DEF IInv, Open
<1> QED
  BY <1>4, <1>5, <1>6, <1>7, Assemble

\* A plan none of whose backends is healthy ends in a 503 before anything is tried.
LEMMA NoneHealthyInv ==
  ASSUME IInv, NEW r \in Requests, NoneHealthy(r)
  PROVE  IInv'
<1>1. /\ pc[r] = "selecting" /\ Local(r) /\ Fresh(r)
      /\ Fit(snap, route[r].plan) = {}
      /\ route' = [route EXCEPT ![r].view = snap]
      /\ Return(r, 503, "api")
      /\ UNCHANGED <<snap, counter, inFlight, input, cancelled, tried, resp, hdr, wire, reported,
                     logged>>
  BY DEF IInv, TypeOK, Local, NoneHealthy, Stage
<1>2. /\ outcome' \in [Requests -> Outcomes]
      /\ outcome'[r].status = 503 /\ outcome'[r].err = "api"
      /\ outcome'[r].sent = outcome[r].sent /\ outcome'[r].failovers = outcome[r].failovers
      /\ \A q \in Requests \ {r} : outcome'[q] = outcome[q]
      /\ pc' = [pc EXCEPT ![r] = "returned"]
      /\ pc'[r] = "returned"
  BY <1>1, Returns DEF IInv, Errors
<1>3. /\ route' \in [Requests -> Routes]
      /\ route'[r].plan = route[r].plan /\ route'[r].view = snap
      /\ \A q \in Requests \ {r} : route'[q] = route[q]
  <2> DEFINE new == [route[r] EXCEPT !.view = snap]
  <2>1. route \in [Requests -> Routes] /\ snap \in Snapshot
    BY DEF IInv, TypeOK
  <2>2. new \in Routes /\ new.plan = route[r].plan /\ new.view = snap
    BY <2>1 DEF Routes
  <2>3. route' = [route EXCEPT ![r] = new]
    BY <1>1, <2>1
  <2> QED
    BY <2>1, <2>2, <2>3
<1>4. TypeOK'
  BY <1>1, <1>2, <1>3 DEF IInv, TypeOK, PCs
<1>5. Local(r)'
  <2>1. Fit(route'[r].view, route'[r].plan) = {}
    BY <1>1, <1>3
  <2>2. Refused(r)'
    BY <1>1, <1>2, <2>1 DEF Fresh, Refused
  <2>3. Stage(r)'
    BY <1>1, <1>2, <2>2 DEF Stage, Fresh
  <2>4. Budget(r)'
    <3>1. tried[r] = {} /\ tried' = tried
      BY <1>1 DEF Fresh
    <3> QED
      BY <1>1, <1>2, <3>1 DEF Local, Budget
  <2>5. Placed(r)'
    BY <1>1, <1>3 DEF Local, Placed
  <2> QED
    BY <2>3, <2>4, <2>5 DEF Local
<1>6. \A q \in Requests \ {r} : Mine(q)' = Mine(q)
  BY <1>1, <1>2, <1>3 DEF IInv, TypeOK, Mine
<1>7. InFlightAccounts'
  BY <1>1, <1>2, <1>6, GaugeKept DEF IInv, Open
<1> QED
  BY <1>4, <1>5, <1>6, <1>7, Assemble

\* Dispatch takes an untried healthy candidate and its slot, within the budget.
LEMMA DispatchInv ==
  ASSUME IInv, NEW r \in Requests, Dispatch(r)
  PROVE  IInv'
<1>1. PICK i \in Todo(r) :
        /\ outcome' = [outcome EXCEPT ![r].cand = i,
                                      ![r].sent = @ + 1,
                                      ![r].failovers = IF outcome[r].sent > 0 THEN @ + 1 ELSE @]
        /\ tried' = [tried EXCEPT ![r] = @ \cup {i}]
        /\ inFlight' = [inFlight EXCEPT ![route[r].plan.cands[i].backend] = @ + 1]
  BY DEF Dispatch
<1>2. /\ pc[r] = "trying" /\ outcome[r].sent < MaxAttempts /\ Local(r)
      /\ pc' = [pc EXCEPT ![r] = "calling"] /\ pc'[r] = "calling"
      /\ UNCHANGED <<snap, counter, input, cancelled, route, resp, hdr, wire, reported, logged>>
  BY DEF IInv, TypeOK, Local, Dispatch, Goto
<1>3. /\ i \in Fit(route[r].view, route[r].plan) /\ i \notin tried[r]
      /\ i \in DOMAIN route[r].plan.cands
      /\ i \in Nat
  <2>1. route[r].plan.cands \in Seq(Candidate)
    BY DEF IInv, TypeOK, Routes, Plan
  <2> QED
    BY <1>1, <2>1 DEF Todo, Fit
<1>4. /\ tried' \in [Requests -> SUBSET Nat]
      /\ tried'[r] = tried[r] \cup {i}
      /\ \A q \in Requests \ {r} : tried'[q] = tried[q]
  BY <1>1, <1>3 DEF IInv, TypeOK
<1>5. /\ outcome' \in [Requests -> Outcomes]
      /\ outcome'[r].cand = i
      /\ outcome'[r].sent = outcome[r].sent + 1
      /\ outcome'[r].failovers = IF outcome[r].sent > 0 THEN outcome[r].failovers + 1
                                 ELSE outcome[r].failovers
      /\ outcome'[r].status = outcome[r].status
      /\ outcome'[r].err = outcome[r].err
      /\ \A q \in Requests \ {r} : outcome'[q] = outcome[q]
  <2> DEFINE new == [outcome[r] EXCEPT !.cand = i, !.sent = @ + 1,
                       !.failovers = IF outcome[r].sent > 0 THEN @ + 1 ELSE @]
  <2>1. outcome \in [Requests -> Outcomes]
    BY DEF IInv, TypeOK
  <2>2. /\ new \in Outcomes /\ new.cand = i /\ new.sent = outcome[r].sent + 1
        /\ new.failovers = IF outcome[r].sent > 0 THEN outcome[r].failovers + 1
                           ELSE outcome[r].failovers
        /\ new.status = outcome[r].status /\ new.err = outcome[r].err
    <3>1. /\ outcome[r] \in Outcomes /\ MaxAttempts \in Nat
          /\ outcome[r].sent \in Nat /\ outcome[r].failovers \in Nat
      BY <2>1, ProxyAssumption DEF Outcomes
    <3>2. /\ outcome[r].sent + 1 \in 0..MaxAttempts
          /\ (IF outcome[r].sent > 0 THEN outcome[r].failovers + 1
              ELSE outcome[r].failovers) \in Nat
      BY <1>2, <3>1
    <3> QED
      BY <1>3, <3>1, <3>2 DEF Outcomes
  <2>3. outcome' = [outcome EXCEPT ![r] = new]
    BY <1>1, <2>1
  <2> QED
    BY <2>1, <2>2, <2>3
<1>6. Local(r)'
  <2>1. Stage(r)'
    BY <1>2, <1>3, <1>4, <1>5 DEF Local, Stage, Held
  <2>2. IsFiniteSet(tried[r]) /\ IsFiniteSet(tried'[r])
        /\ Cardinality(tried'[r]) = Cardinality(tried[r]) + 1
    BY <1>2, <1>3, <1>4, FS_AddElement DEF Local, Budget
  <2>3. outcome[r].sent > 0 <=> tried[r] # {}
    BY <1>2, FS_EmptySet, FS_CardinalityType DEF Local, Budget
  <2>4. outcome[r].sent \in Nat /\ MaxAttempts \in Nat
    BY ProxyAssumption DEF IInv, TypeOK, Outcomes
  <2>5. Budget(r)'
    BY <1>2, <1>3, <1>4, <1>5, <2>2, <2>3, <2>4 DEF Local, Budget
  <2>6. Placed(r)'
    BY <1>2 DEF Local, Placed
  <2> QED
    BY <2>1, <2>5, <2>6 DEF Local
<1>7. \A q \in Requests \ {r} : Mine(q)' = Mine(q)
  BY <1>2, <1>4, <1>5 DEF IInv, TypeOK, Mine
<1>8. InFlightAccounts' /\ inFlight' \in [Backends -> Nat]
  <2> DEFINE c == route[r].plan.cands[i].backend
  <2>1. c \in Backends
    <3>1. route[r].plan.cands \in Seq(Candidate)
      BY DEF IInv, TypeOK, Routes, Plan
    <3>2. route[r].plan.cands[i] \in Candidate
      BY <1>3, <3>1
    <3> QED
      BY <3>2 DEF Candidate
  <2>2. ~Open(r) /\ Open(r)' /\ CurrentBackend(r)' = c
    BY <1>2, <1>5 DEF Open, CurrentBackend
  <2>3. inFlight' = [inFlight EXCEPT ![c] = @ + 1]
    BY <1>1
  <2> HIDE DEF c
  <2> QED
    BY <1>7, <2>1, <2>2, <2>3, GaugeUp DEF IInv
<1>9. TypeOK'
  BY <1>2, <1>3, <1>4, <1>5, <1>8 DEF IInv, TypeOK, PCs
<1> QED
  BY <1>6, <1>7, <1>8, <1>9, Assemble

\* A snapshot published meanwhile disturbs no request: each keeps its own view.
LEMMA PublishInv ==
  ASSUME IInv, Publish
  PROVE  IInv'
<1>1. \A q : Mine(q)' = Mine(q)
  BY DEF Publish, local, Mine
<1>2. UNCHANGED <<counter, inFlight, pc, input, cancelled, route, tried, outcome, resp, hdr, wire,
                  reported, logged>> /\ snap' \in Snapshot
  BY ProxyAssumption DEF Publish, local
<1>3. TypeOK'
  BY <1>2 DEF IInv, TypeOK
<1>4. \A r \in Requests : Local(r)'
  BY <1>1, Unmoved DEF IInv, Local
<1>5. InFlightAccounts'
  BY <1>2 DEF IInv, InFlightAccounts, Open, CurrentBackend
<1> QED
  BY <1>3, <1>4, <1>5 DEF IInv, Local

\* A client that hangs up changes nothing but what its request may do next.
LEMMA CancelInv ==
  ASSUME IInv, NEW r \in Requests, Cancel(r)
  PROVE  IInv'
<1>1. /\ cancelled' = [cancelled EXCEPT ![r] = TRUE] /\ cancelled'[r] = TRUE
      /\ \A q \in Requests \ {r} : cancelled'[q] = cancelled[q]
      /\ Local(r)
      /\ UNCHANGED <<snap, counter, inFlight, pc, input, route, tried, outcome, resp, hdr, wire,
                     reported, logged>>
  BY DEF IInv, TypeOK, Local, Cancel
<1>2. TypeOK'
  BY <1>1 DEF IInv, TypeOK
<1>3. Local(r)'
  BY <1>1 DEF Local, Stage, Fresh, Held, Relayed, Panicked, Aborted, Refused, Envelope, Answered,
     Budget, Placed
<1>4. \A q \in Requests \ {r} : Mine(q)' = Mine(q)
  BY <1>1 DEF Mine
<1>5. InFlightAccounts'
  BY <1>1 DEF IInv, InFlightAccounts, Open, CurrentBackend
<1> QED
  BY <1>2, <1>3, <1>4, <1>5, Assemble

\* The one response head of a request whose client had none.
LEMMA FirstHead ==
  ASSUME TypeOK, NEW r \in Requests, wire[r] = <<>>, NEW h \in Heads,
         wire' = [wire EXCEPT ![r] = Append(@, h)]
  PROVE  /\ wire' \in [Requests -> Seq(Heads)]
         /\ wire'[r] = <<h>>
         /\ \A q \in Requests \ {r} : wire'[q] = wire[q]
<1>1. Append(<<>>, h) = <<h>> /\ <<h>> \in Seq(Heads)
  OBVIOUS
<1> QED
  BY <1>1 DEF TypeOK

\* A request that cannot be decoded is answered and closed at once.
LEMMA RejectInv ==
  ASSUME IInv, NEW r \in Requests, Reject(r)
  PROVE  IInv'
<1>1. PICK st \in {400, 413} :
        /\ wire' = [wire EXCEPT ![r] = Append(@, RHead(st, 0, 0, "envelope"))]
        /\ logged' = [logged EXCEPT ![r] = st]
  BY DEF Reject
<1>2. /\ Local(r) /\ Fresh(r) /\ pc[r] = "idle"
      /\ pc' = [pc EXCEPT ![r] = "done"] /\ pc'[r] = "done"
      /\ UNCHANGED <<snap, counter, inFlight, input, cancelled, route, tried, outcome, resp, hdr,
                     reported>>
  BY DEF IInv, TypeOK, Local, Reject, Goto, Stage
<1>3. /\ wire' \in [Requests -> Seq(Heads)]
      /\ wire'[r] = <<RHead(st, 0, 0, "envelope")>>
      /\ \A q \in Requests \ {r} : wire'[q] = wire[q]
  <2>1. RHead(st, 0, 0, "envelope") \in Heads
    BY DEF RHead, Heads
  <2> QED
    BY <1>1, <1>2, <2>1, FirstHead DEF IInv, Fresh
<1>4. /\ logged' \in [Requests -> Nat] /\ logged'[r] = st
      /\ \A q \in Requests \ {r} : logged'[q] = logged[q]
  BY <1>1 DEF IInv, TypeOK
<1>5. TypeOK'
  BY <1>2, <1>3, <1>4 DEF IInv, TypeOK, PCs
<1>6. Local(r)'
  <2>1. Answered(r)'
    BY <1>2, <1>3, <1>4 DEF Fresh, Answered, Envelope
  <2>2. Stage(r)'
    BY <1>2, <2>1 DEF Stage
  <2> QED
    BY <1>2, <2>2 DEF Local, Budget, Placed
<1>7. \A q \in Requests \ {r} : Mine(q)' = Mine(q)
  BY <1>2, <1>3, <1>4, PcAt DEF IInv, Mine
<1>8. InFlightAccounts'
  BY <1>2, <1>7, GaugeKept DEF IInv, Open
<1> QED
  BY <1>5, <1>6, <1>7, <1>8, Assemble

\* Leaving the loop because the client is gone keeps the reports complete.
LEMMA StopCancelledInv ==
  ASSUME IInv, NEW r \in Requests, StopCancelled(r)
  PROVE  IInv'
<1>1. /\ pc[r] = "trying" /\ cancelled[r] /\ Local(r)
      /\ outcome[r].status \in Nat
      /\ Return(r, outcome[r].status, "internal")
      /\ UNCHANGED <<snap, counter, inFlight, input, cancelled, route, tried, resp, hdr, wire,
                     reported, logged>>
  BY DEF IInv, TypeOK, Outcomes, Local, StopCancelled
<1>2. /\ outcome' \in [Requests -> Outcomes]
      /\ outcome'[r].err = "internal"
      /\ outcome'[r].sent = outcome[r].sent /\ outcome'[r].failovers = outcome[r].failovers
      /\ \A q \in Requests \ {r} : outcome'[q] = outcome[q]
      /\ pc' = [pc EXCEPT ![r] = "returned"]
      /\ pc'[r] = "returned"
  BY <1>1, Returns DEF IInv, Errors
<1>3. TypeOK'
  BY <1>1, <1>2 DEF IInv, TypeOK, PCs
<1>4. Local(r)'
  <2>1. wire'[r] = <<>> /\ Aborted(r)'
    BY <1>1, <1>2 DEF Local, Stage, Aborted
  <2>2. Stage(r)'
    BY <1>2, <2>1 DEF Stage
  <2>3. Budget(r)' /\ Placed(r)'
    BY <1>1, <1>2 DEF Local, Budget, Placed
  <2> QED
    BY <2>2, <2>3 DEF Local
<1>5. \A q \in Requests \ {r} : Mine(q)' = Mine(q)
  BY <1>1, <1>2, PcAt DEF IInv, Mine
<1>6. InFlightAccounts'
  BY <1>1, <1>2, <1>5, GaugeKept DEF IInv, Open
<1> QED
  BY <1>3, <1>4, <1>5, <1>6, Assemble

\* Leaving the loop with nothing left to try keeps the reports complete.
LEMMA ExhaustedInv ==
  ASSUME IInv, NEW r \in Requests, Exhausted(r)
  PROVE  IInv'
<1>1. /\ pc[r] = "trying" /\ Local(r)
      /\ Todo(r) = {} \/ outcome[r].sent = MaxAttempts
      /\ Return(r, 502, "api")
      /\ UNCHANGED <<snap, counter, inFlight, input, cancelled, route, tried, resp, hdr, wire,
                     reported, logged>>
  BY DEF IInv, Local, Exhausted
<1>2. /\ outcome' \in [Requests -> Outcomes]
      /\ outcome'[r].status = 502 /\ outcome'[r].err = "api"
      /\ outcome'[r].sent = outcome[r].sent /\ outcome'[r].failovers = outcome[r].failovers
      /\ \A q \in Requests \ {r} : outcome'[q] = outcome[q]
      /\ pc' = [pc EXCEPT ![r] = "returned"]
      /\ pc'[r] = "returned"
  BY <1>1, Returns DEF IInv, Errors
<1>3. TypeOK'
  BY <1>1, <1>2 DEF IInv, TypeOK, PCs
<1>4. Local(r)'
  <2>1. tried[r] = Fit(route[r].view, route[r].plan) \/ outcome[r].sent = MaxAttempts
    BY <1>1 DEF Local, Budget, Todo
  <2>2. wire'[r] = <<>> /\ Refused(r)'
    BY <1>1, <1>2, <2>1 DEF Local, Stage, Refused
  <2>3. Stage(r)'
    BY <1>2, <2>2 DEF Stage
  <2>4. Budget(r)' /\ Placed(r)'
    BY <1>1, <1>2 DEF Local, Budget, Placed
  <2> QED
    BY <2>3, <2>4 DEF Local
<1>5. \A q \in Requests \ {r} : Mine(q)' = Mine(q)
  BY <1>1, <1>2, PcAt DEF IInv, Mine
<1>6. InFlightAccounts'
  BY <1>1, <1>2, <1>5, GaugeKept DEF IInv, Open
<1> QED
  BY <1>3, <1>4, <1>5, <1>6, Assemble

\* The buffered headers name a candidate of the plan.
LEMMA BufferHeadersTyped ==
  ASSUME TypeOK, NEW r \in Requests, BufferHeaders(r)
  PROVE  /\ hdr' \in [Requests -> Nat] /\ hdr'[r] = outcome[r].cand
         /\ \A q \in Requests \ {r} : hdr'[q] = hdr[q]
BY DEF TypeOK, BufferHeaders, Outcomes

\* The status in hand is a number, whatever the upstream answered.
LEMMA RespTyped ==
  ASSUME TypeOK, NEW r \in Requests, NEW st \in Nat, resp' = [resp EXCEPT ![r] = st]
  PROVE  /\ resp' \in [Requests -> Nat] /\ resp'[r] = st
         /\ \A q \in Requests \ {r} : resp'[q] = resp[q]
BY DEF TypeOK

\* A response whose body is being read keeps its slot.
LEMMA AnswerInv ==
  ASSUME IInv, NEW r \in Requests, Answer(r)
  PROVE  IInv'
<1>1. PICK st \in UpstreamStatuses : resp' = [resp EXCEPT ![r] = st]
  BY DEF Answer
<1>2. /\ pc[r] = "calling" /\ Local(r) /\ BufferHeaders(r)
      /\ pc' = [pc EXCEPT ![r] = "reading"] /\ pc'[r] = "reading"
      /\ UNCHANGED <<snap, counter, inFlight, input, cancelled, route, tried, outcome, wire,
                     reported, logged>>
  BY DEF IInv, TypeOK, Local, Answer, Goto
<1>3. /\ hdr' \in [Requests -> Nat] /\ hdr'[r] = outcome[r].cand
      /\ \A q \in Requests \ {r} : hdr'[q] = hdr[q]
  BY <1>2, BufferHeadersTyped DEF IInv
<1>4. /\ resp' \in [Requests -> Nat]
      /\ \A q \in Requests \ {r} : resp'[q] = resp[q]
  BY <1>1, RespTyped, ProxyAssumption DEF IInv
<1>5. TypeOK'
  BY <1>2, <1>3, <1>4 DEF IInv, TypeOK, PCs
<1>6. Local(r)'
  <2>1. Stage(r)'
    BY <1>2, <1>3 DEF Local, Stage, Held
  <2>2. Budget(r)' /\ Placed(r)'
    BY <1>2 DEF Local, Budget, Placed
  <2> QED
    BY <2>1, <2>2 DEF Local
<1>7. \A q \in Requests \ {r} : Mine(q)' = Mine(q)
  BY <1>2, <1>3, <1>4, PcAt DEF IInv, Mine
<1>8. InFlightAccounts'
  BY <1>2, <1>7, GaugeKept DEF IInv, Open, CurrentBackend
<1> QED
  BY <1>5, <1>6, <1>7, <1>8, Assemble

\* A committed stream carries the headers of the candidate it relays.
LEMMA OpenStreamInv ==
  ASSUME IInv, NEW r \in Requests, OpenStream(r)
  PROVE  IInv'
<1>1. PICK st \in UpstreamStatuses :
        /\ Success(st)
        /\ resp' = [resp EXCEPT ![r] = st]
        /\ outcome' = [outcome EXCEPT ![r].status = st]
  BY DEF OpenStream
<1>2. /\ pc[r] = "calling" /\ Local(r) /\ BufferHeaders(r)
      /\ pc' = [pc EXCEPT ![r] = "streaming"] /\ pc'[r] = "streaming"
      /\ wire[r] = <<>> /\ Held(r) /\ outcome[r].err = "none"
      /\ wire' = [wire EXCEPT ![r] = Append(@, RHead(200, hdr'[r], outcome[r].cand, "stream"))]
      /\ UNCHANGED <<snap, counter, inFlight, input, cancelled, route, tried, reported, logged>>
  BY DEF IInv, TypeOK, Local, OpenStream, Goto, Stage
<1>3. /\ hdr' \in [Requests -> Nat] /\ hdr'[r] = outcome[r].cand
      /\ \A q \in Requests \ {r} : hdr'[q] = hdr[q]
  BY <1>2, BufferHeadersTyped DEF IInv
<1>4. /\ st \in Nat /\ resp' \in [Requests -> Nat]
      /\ \A q \in Requests \ {r} : resp'[q] = resp[q]
  BY <1>1, RespTyped, ProxyAssumption DEF IInv
<1>5. /\ outcome' \in [Requests -> Outcomes]
      /\ outcome'[r].status = st /\ outcome'[r].err = outcome[r].err
      /\ outcome'[r].cand = outcome[r].cand
      /\ outcome'[r].sent = outcome[r].sent /\ outcome'[r].failovers = outcome[r].failovers
      /\ \A q \in Requests \ {r} : outcome'[q] = outcome[q]
  <2> DEFINE new == [outcome[r] EXCEPT !.status = st]
  <2>1. outcome \in [Requests -> Outcomes]
    BY DEF IInv, TypeOK
  <2>2. /\ new \in Outcomes /\ new.status = st /\ new.err = outcome[r].err
        /\ new.cand = outcome[r].cand
        /\ new.sent = outcome[r].sent /\ new.failovers = outcome[r].failovers
    BY <1>4, <2>1 DEF Outcomes
  <2>3. outcome' = [outcome EXCEPT ![r] = new]
    BY <1>1, <2>1
  <2> QED
    BY <2>1, <2>2, <2>3
<1>6. /\ wire' \in [Requests -> Seq(Heads)]
      /\ wire'[r] = <<RHead(200, outcome[r].cand, outcome[r].cand, "stream")>>
      /\ \A q \in Requests \ {r} : wire'[q] = wire[q]
  <2>1. outcome[r].cand \in Nat
    BY DEF IInv, TypeOK, Outcomes
  <2>2. RHead(200, outcome[r].cand, outcome[r].cand, "stream") \in Heads
    BY <2>1 DEF RHead, Heads
  <2> QED
    BY <1>2, <1>3, <2>2, FirstHead DEF IInv
<1>7. TypeOK'
  BY <1>2, <1>3, <1>4, <1>5, <1>6 DEF IInv, TypeOK, PCs
<1>8. Local(r)'
  <2>1. Held(r)'
    BY <1>2, <1>5 DEF Held
  <2>2. Stage(r)'
    BY <1>1, <1>2, <1>5, <1>6, <2>1 DEF Stage
  <2>3. Budget(r)' /\ Placed(r)'
    BY <1>2, <1>5 DEF Local, Budget, Placed
  <2> QED
    BY <2>2, <2>3 DEF Local
<1>9. \A q \in Requests \ {r} : Mine(q)' = Mine(q)
  BY <1>2, <1>3, <1>4, <1>5, <1>6, PcAt DEF IInv, Mine
<1>10. InFlightAccounts'
  BY <1>2, <1>5, <1>9, GaugeKept DEF IInv, Open, CurrentBackend
<1> QED
  BY <1>7, <1>8, <1>9, <1>10, Assemble

\* A call that failed before anything reached the client, however it failed.
LEMMA FailedCall ==
  ASSUME IInv, NEW r \in Requests, pc[r] \in {"calling", "reading"}, Release(r), FailOver(r),
         hdr' \in [Requests -> Nat], \A q \in Requests \ {r} : hdr'[q] = hdr[q],
         resp' \in [Requests -> Nat], \A q \in Requests \ {r} : resp'[q] = resp[q],
         UNCHANGED <<snap, counter, input, cancelled, route, tried, wire, logged>>
  PROVE  IInv'
<1>1. /\ TypeOK /\ Local(r)
      /\ wire[r] = <<>> /\ outcome[r].err = "none" /\ Held(r) /\ Open(r)
      /\ outcome[r].status \in Nat
  BY DEF IInv, TypeOK, Outcomes, Local, Stage, Open
<1>2. /\ outcome' \in [Requests -> Outcomes]
      /\ outcome'[r].cand = outcome[r].cand
      /\ outcome'[r].sent = outcome[r].sent /\ outcome'[r].failovers = outcome[r].failovers
      /\ \A q \in Requests \ {r} : outcome'[q] = outcome[q]
      /\ reported' \in [Requests -> SUBSET Nat]
      /\ reported'[r] \subseteq tried[r]
      /\ \A q \in Requests \ {r} : reported'[q] = reported[q]
      /\ pc' \in [Requests -> PCs]
      /\ \A q \in Requests \ {r} : pc'[q] = pc[q]
      /\ \/ pc'[r] = "returned" /\ Aborted(r)'
         \/ pc'[r] = "trying" /\ outcome'[r].err = "none" /\ reported'[r] = tried[r]
  <2>1. CASE /\ cancelled[r]
             /\ Return(r, outcome[r].status, "internal")
             /\ UNCHANGED reported
    <3>1. /\ outcome' \in [Requests -> Outcomes]
          /\ outcome'[r].err = "internal"
          /\ outcome'[r].cand = outcome[r].cand
          /\ outcome'[r].sent = outcome[r].sent /\ outcome'[r].failovers = outcome[r].failovers
          /\ \A q \in Requests \ {r} : outcome'[q] = outcome[q]
          /\ pc' = [pc EXCEPT ![r] = "returned"]
          /\ pc'[r] = "returned"
      BY <1>1, <2>1, Returns DEF Errors
    <3>2. /\ reported' \in [Requests -> SUBSET Nat] /\ reported'[r] \subseteq tried[r]
          /\ \A q \in Requests \ {r} : reported'[q] = reported[q]
      BY <1>1, <2>1 DEF TypeOK
    <3>3. pc' \in [Requests -> PCs] /\ \A q \in Requests \ {r} : pc'[q] = pc[q]
      BY <1>1, <3>1 DEF TypeOK, PCs
    <3>4. Aborted(r)'
      BY <1>1, <2>1, <3>1 DEF Aborted, Held
    <3> QED
      BY <3>1, <3>2, <3>3, <3>4
  <2>2. CASE /\ ~cancelled[r]
             /\ reported' = [reported EXCEPT ![r] = @ \cup {outcome[r].cand}]
             /\ Goto(r, "trying")
             /\ UNCHANGED outcome
    <3>1. /\ reported' \in [Requests -> SUBSET Nat]
          /\ reported'[r] = reported[r] \cup {outcome[r].cand}
          /\ \A q \in Requests \ {r} : reported'[q] = reported[q]
      BY <1>1, <2>2 DEF TypeOK, Outcomes
    <3>2. reported'[r] = tried[r]
      BY <1>1, <3>1 DEF Held
    <3>3. /\ pc' \in [Requests -> PCs] /\ pc'[r] = "trying"
          /\ \A q \in Requests \ {r} : pc'[q] = pc[q]
      BY <1>1, <2>2 DEF TypeOK, Goto, PCs
    <3>4. outcome' = outcome /\ outcome \in [Requests -> Outcomes]
      BY <1>1, <2>2 DEF TypeOK
    <3> QED
      BY <1>1, <3>1, <3>2, <3>3, <3>4
  <2> QED
    BY <2>1, <2>2 DEF FailOver
<1>3. Local(r)'
  <2>1. Stage(r)'
    BY <1>1, <1>2 DEF Stage
  <2>2. Budget(r)' /\ Placed(r)'
    BY <1>1, <1>2 DEF Local, Budget, Placed
  <2> QED
    BY <2>1, <2>2 DEF Local
<1>4. \A q \in Requests \ {r} : Mine(q)' = Mine(q)
  BY <1>2 DEF Mine
<1>5. InFlightAccounts' /\ inFlight' \in [Backends -> Nat]
  <2>1. CurrentBackend(r) \in Backends
    BY <1>1, CurrentBackendTyped DEF Held
  <2>2. ~Open(r)'
    BY <1>2 DEF Open
  <2> QED
    BY <1>1, <1>4, <2>1, <2>2, GaugeDown DEF IInv
<1>6. TypeOK'
  BY <1>1, <1>2, <1>5 DEF TypeOK
<1> QED
  BY <1>3, <1>4, <1>5, <1>6, Assemble

\* A call without a response is a failed call.
LEMMA CallFailsInv ==
  ASSUME IInv, NEW r \in Requests, CallFails(r)
  PROVE  IInv'
BY FailedCall DEF IInv, TypeOK, CallFails

\* A 502, 503 or 504 is a failed call.
LEMMA UnavailableInv ==
  ASSUME IInv, NEW r \in Requests, Unavailable(r)
  PROVE  IInv'
BY FailedCall, BufferHeadersTyped DEF IInv, TypeOK, Unavailable

\* A unary body cut short is a failed call.
LEMMA ReadFailsInv ==
  ASSUME IInv, NEW r \in Requests, ReadFails(r)
  PROVE  IInv'
BY FailedCall, RespTyped DEF IInv, TypeOK, ReadFails

\* A call whose response was relayed, or could not be: Execute is over.
LEMMA ClosedCall ==
  ASSUME IInv, NEW r \in Requests, Open(r), NEW st \in Nat, NEW e \in Errors,
         Release(r), Return(r, st, e), resp' = [resp EXCEPT ![r] = 0],
         wire' \in [Requests -> Seq(Heads)], \A q \in Requests \ {r} : wire'[q] = wire[q],
         Relayed(r)' \/ (wire'[r] = <<>> /\ Panicked(r)'),
         UNCHANGED <<snap, counter, input, cancelled, route, tried, hdr, reported, logged>>
  PROVE  IInv'
<1>1. TypeOK /\ Local(r)
  BY DEF IInv, Local
<1>2. /\ outcome' \in [Requests -> Outcomes]
      /\ outcome'[r].sent = outcome[r].sent /\ outcome'[r].failovers = outcome[r].failovers
      /\ \A q \in Requests \ {r} : outcome'[q] = outcome[q]
      /\ pc' = [pc EXCEPT ![r] = "returned"]
      /\ pc'[r] = "returned"
  BY <1>1, Returns
<1>3. Local(r)'
  <2>1. Stage(r)'
    BY <1>2 DEF Stage
  <2>2. Budget(r)' /\ Placed(r)'
    BY <1>1, <1>2 DEF Local, Budget, Placed
  <2> QED
    BY <2>1, <2>2 DEF Local
<1>4. /\ resp' \in [Requests -> Nat]
      /\ \A q \in Requests \ {r} : resp'[q] = resp[q]
  BY <1>1, RespTyped
<1>5. \A q \in Requests \ {r} : Mine(q)' = Mine(q)
  BY <1>1, <1>2, <1>4, PcAt DEF Mine
<1>6. InFlightAccounts' /\ inFlight' \in [Backends -> Nat]
  <2>1. CurrentBackend(r) \in Backends
    BY <1>1, CurrentBackendTyped DEF Local, Stage, Held, Open
  <2>2. ~Open(r)'
    BY <1>2 DEF Open
  <2> QED
    BY <1>1, <1>5, <2>1, <2>2, GaugeDown DEF IInv
<1>7. TypeOK'
  BY <1>1, <1>2, <1>4, <1>6 DEF TypeOK, PCs
<1> QED
  BY <1>3, <1>5, <1>6, <1>7, Assemble

\* Relay sends the one head, with the headers of its candidate, and frees the slot.
LEMMA RelayInv ==
  ASSUME IInv, NEW r \in Requests, Relay(r)
  PROVE  IInv'
<1>1. PICK e \in {"none", "internal"} : Return(r, resp[r], e)
  BY DEF Relay
<1>2. /\ TypeOK /\ Open(r) /\ Held(r) /\ wire[r] = <<>> /\ hdr[r] = outcome[r].cand
      /\ resp[r] \in Nat /\ resp[r] # 0 /\ e \in Errors
      /\ wire' = [wire EXCEPT ![r] = Append(@, RHead(resp[r], hdr[r], outcome[r].cand, "unary"))]
      /\ Release(r)
      /\ resp' = [resp EXCEPT ![r] = 0]
      /\ UNCHANGED <<snap, counter, input, cancelled, route, tried, hdr, reported, logged>>
  <2>1. /\ Open(r) /\ Held(r) /\ wire[r] = <<>> /\ hdr[r] = outcome[r].cand
    BY DEF IInv, Relay, Stage, Open
  <2>2. TypeOK /\ resp[r] \in Nat
    BY DEF IInv, TypeOK
  <2>3. resp[r] # 0
    <3>1. Writable(resp[r])
      BY DEF Relay
    <3> QED
      BY <3>1 DEF Writable
  <2> QED
    BY <2>1, <2>2, <2>3 DEF Relay, Errors
<1>3. /\ outcome'[r].status = resp[r] /\ outcome'[r].err = e
      /\ outcome'[r].cand = outcome[r].cand
  BY <1>1, <1>2, Returns
<1>4. /\ wire' \in [Requests -> Seq(Heads)]
      /\ wire'[r] = <<RHead(resp[r], outcome[r].cand, outcome[r].cand, "unary")>>
      /\ \A q \in Requests \ {r} : wire'[q] = wire[q]
  <2>1. RHead(resp[r], hdr[r], outcome[r].cand, "unary") \in Heads
    BY <1>2 DEF TypeOK, Outcomes, RHead, Heads
  <2> QED
    BY <1>2, <2>1, FirstHead
<1>5. Relayed(r)'
  BY <1>2, <1>3, <1>4 DEF Relayed, Held
<1> QED
  BY <1>1, <1>2, <1>4, <1>5, ClosedCall

\* A status that cannot be written frees the slot and sends nothing.
LEMMA RelayPanicsInv ==
  ASSUME IInv, NEW r \in Requests, RelayPanics(r)
  PROVE  IInv'
<1>1. /\ TypeOK /\ Open(r) /\ Held(r) /\ wire[r] = <<>> /\ hdr[r] = outcome[r].cand
      /\ Return(r, 0, "panic") /\ Release(r)
      /\ resp' = [resp EXCEPT ![r] = 0]
      /\ UNCHANGED <<snap, counter, input, cancelled, route, tried, hdr, wire, reported, logged>>
  BY DEF IInv, RelayPanics, Stage, Open
<1>2. outcome'[r].err = "panic" /\ outcome'[r].cand = outcome[r].cand
  BY <1>1, Returns DEF Errors
<1>3. wire'[r] = <<>> /\ Panicked(r)'
  BY <1>1, <1>2 DEF Panicked, Held
<1>4. wire' \in [Requests -> Seq(Heads)]
  BY <1>1 DEF TypeOK
<1> QED
  BY <1>1, <1>3, <1>4, ClosedCall DEF Errors

\* A stream that ends, however it ends, frees the slot and sends no second head.
LEMMA StreamEndsInv ==
  ASSUME IInv, NEW r \in Requests, StreamEnds(r)
  PROVE  IInv'
<1>1. PICK e \in {"none", "internal"} : Return(r, outcome[r].status, e)
  BY DEF StreamEnds
<1>2. /\ TypeOK /\ Open(r) /\ Held(r) /\ Success(outcome[r].status)
      /\ wire[r] = <<RHead(200, outcome[r].cand, outcome[r].cand, "stream")>>
      /\ outcome[r].status \in Nat /\ e \in Errors
      /\ Release(r)
      /\ resp' = [resp EXCEPT ![r] = 0]
      /\ UNCHANGED <<snap, counter, input, cancelled, route, tried, hdr, wire, reported, logged>>
  BY DEF IInv, TypeOK, Outcomes, StreamEnds, Stage, Open, Errors
<1>3. /\ outcome'[r].status = outcome[r].status /\ outcome'[r].err = e
      /\ outcome'[r].cand = outcome[r].cand
  BY <1>1, <1>2, Returns
<1>4. Relayed(r)'
  BY <1>2, <1>3 DEF Relayed, Held, Success
<1>5. wire' \in [Requests -> Seq(Heads)]
  BY <1>2 DEF TypeOK
<1> QED
  BY <1>1, <1>2, <1>4, <1>5, ClosedCall

\* Finish answers a request that has no head yet, and only such a one.
LEMMA FinishInv ==
  ASSUME IInv, NEW r \in Requests, Finish(r)
  PROVE  IInv'
<1> DEFINE h == IF outcome[r].err = "panic" THEN hdr[r] ELSE 0
           envelope == RHead(FinalStatus(r), h, 0, "envelope")
<1>1. /\ TypeOK /\ Local(r) /\ pc[r] = "returned"
      /\ outcome[r] \in Outcomes /\ hdr[r] \in Nat
      /\ pc' = [pc EXCEPT ![r] = "done"] /\ pc'[r] = "done"
      /\ logged' = [logged EXCEPT ![r] = FinalStatus(r)]
      /\ UNCHANGED <<snap, counter, inFlight, input, cancelled, route, tried, outcome, resp, hdr,
                     reported>>
  BY DEF IInv, TypeOK, Local, Finish, Goto
<1>2. FinalStatus(r) \in Nat
  BY <1>1 DEF FinalStatus, Outcomes
<1>3. /\ logged' \in [Requests -> Nat] /\ logged'[r] = FinalStatus(r)
      /\ \A q \in Requests \ {r} : logged'[q] = logged[q]
  BY <1>1, <1>2 DEF TypeOK
<1>4. ASSUME Relayed(r)
      PROVE  /\ Answered(r)'
             /\ wire' \in [Requests -> Seq(Heads)]
             /\ \A q \in Requests \ {r} : wire'[q] = wire[q]
  <2>1. wire[r] # <<>>
    <3>1. \A x : <<x>> # <<>>
      OBVIOUS
    <3> QED
      BY <1>4, <3>1 DEF Relayed
  <2>2. wire' = wire
    BY <2>1 DEF Finish, Wrote
  <2>3. FinalStatus(r) = outcome[r].status
    BY <1>4, <2>1 DEF FinalStatus, Relayed, Wrote
  <2>4. Answered(r)'
    BY <1>1, <1>3, <1>4, <2>2, <2>3 DEF Answered, Relayed, Held
  <2>5. wire' \in [Requests -> Seq(Heads)] /\ \A q \in Requests \ {r} : wire'[q] = wire[q]
    BY <1>1, <2>2 DEF TypeOK
  <2> QED
    BY <2>4, <2>5
<1>5. ASSUME wire[r] = <<>>, Panicked(r) \/ Aborted(r) \/ Refused(r)
      PROVE  /\ Answered(r)'
             /\ wire' \in [Requests -> Seq(Heads)]
             /\ \A q \in Requests \ {r} : wire'[q] = wire[q]
  <2>1. outcome[r].err # "none"
    BY <1>5 DEF Panicked, Aborted, Refused
  <2>2. wire' = [wire EXCEPT ![r] = Append(@, envelope)]
    BY <1>5, <2>1 DEF Finish, Wrote
  <2>3. envelope \in Heads
    BY <1>1, <1>2 DEF RHead, Heads
  <2>4. /\ wire' \in [Requests -> Seq(Heads)]
        /\ wire'[r] = <<envelope>>
        /\ \A q \in Requests \ {r} : wire'[q] = wire[q]
    BY <1>1, <1>5, <2>2, <2>3, FirstHead
  <2>5. Envelope(r, h)'
    BY <1>1, <1>3, <2>4 DEF Envelope
  <2>6. Answered(r)'
    <3>1. CASE Panicked(r)
      <4>1. FinalStatus(r) = 500 /\ h = hdr[r]
        BY <3>1 DEF Panicked, FinalStatus
      <4>2. Panicked(r)'
        BY <1>1, <3>1 DEF Panicked, Held
      <4>3. Envelope(r, hdr[r])'
        BY <1>1, <2>5, <4>1 DEF Envelope
      <4> QED
        BY <1>3, <4>1, <4>2, <4>3 DEF Answered
    <3>2. CASE Aborted(r)
      <4>1. FinalStatus(r) = 502 /\ h = 0
        BY <1>5, <3>2 DEF Aborted, FinalStatus, Wrote
      <4>2. Aborted(r)'
        BY <1>1, <3>2 DEF Aborted
      <4>3. Envelope(r, 0)'
        BY <1>1, <2>5, <4>1 DEF Envelope
      <4> QED
        BY <1>3, <4>1, <4>2, <4>3 DEF Answered
    <3>3. CASE Refused(r)
      <4>1. FinalStatus(r) = outcome[r].status /\ h = 0
        BY <3>3 DEF Refused, FinalStatus
      <4>2. Refused(r)'
        BY <1>1, <3>3 DEF Refused
      <4>3. Envelope(r, 0)'
        BY <1>1, <2>5, <4>1 DEF Envelope
      <4> QED
        BY <1>1, <1>3, <4>1, <4>2, <4>3 DEF Answered
    <3> QED
      BY <1>5, <3>1, <3>2, <3>3
  <2> QED
    BY <2>4, <2>6
<1>6. /\ Answered(r)'
      /\ wire' \in [Requests -> Seq(Heads)]
      /\ \A q \in Requests \ {r} : wire'[q] = wire[q]
  BY <1>1, <1>4, <1>5 DEF Local, Stage
<1>7. TypeOK'
  BY <1>1, <1>3, <1>6 DEF TypeOK, PCs
<1>8. Local(r)'
  <2>1. Stage(r)'
    BY <1>1, <1>6 DEF Stage
  <2>2. Budget(r)' /\ Placed(r)'
    BY <1>1 DEF Local, Budget, Placed
  <2> QED
    BY <2>1, <2>2 DEF Local
<1>9. \A q \in Requests \ {r} : Mine(q)' = Mine(q)
  BY <1>1, <1>3, <1>6, PcAt DEF Mine
<1>10. InFlightAccounts'
  BY <1>1, <1>9, GaugeKept DEF IInv, Open
<1> QED
  BY <1>7, <1>8, <1>9, <1>10, Assemble

------------------------------------------------------------------------------
\* The invariant holds before the first request.
LEMMA InitInv == Init => IInv
<1> SUFFICES ASSUME Init
             PROVE  IInv
  OBVIOUS
<1>1. EmptySnapshot \in Snapshot
  BY DEF EmptySnapshot, Snapshot, BackendState, Unprobed
<1>2. NoOutcome \in Outcomes
  BY ProxyAssumption DEF NoOutcome, Outcomes
<1>3. NoRoute \in Routes
  <2>1. NoPlan \in Plan
    BY SelectionAssumption DEF NoPlan, Plan, Selectors
  <2> QED
    BY <1>1, <2>1, ProxyAssumption DEF NoRoute, Routes
<1>4. TypeOK
  <2>1. \A r \in Requests : reported[r] = {} /\ tried[r] = {}
    BY DEF Init
  <2>2. /\ snap \in Snapshot /\ counter \in 0..(CounterWidth - 1)
        /\ inFlight \in [Backends -> Nat] /\ pc \in [Requests -> PCs]
        /\ input \in [Requests -> Inputs] /\ cancelled \in [Requests -> BOOLEAN]
    BY <1>1, ProxyAssumption DEF Init, PCs
  <2>3. /\ route \in [Requests -> Routes] /\ tried \in [Requests -> SUBSET Nat]
        /\ reported \in [Requests -> SUBSET Nat] /\ outcome \in [Requests -> Outcomes]
    BY <1>2, <1>3 DEF Init
  <2>4. /\ resp \in [Requests -> Nat] /\ hdr \in [Requests -> Nat]
        /\ wire \in [Requests -> Seq(Heads)] /\ logged \in [Requests -> Nat]
    BY DEF Init
  <2> QED
    BY <2>1, <2>2, <2>3, <2>4 DEF TypeOK
<1>5. InFlightAccounts
  <2>1. \A b \in Backends : {r \in Requests : Open(r) /\ CurrentBackend(r) = b} = {}
    BY DEF Init, Open
  <2> QED
    BY <2>1, FS_EmptySet DEF Init, InFlightAccounts
<1>6. ASSUME NEW r \in Requests
      PROVE  Stage(r) /\ Budget(r) /\ Placed(r)
  <2>1. Stage(r)
    BY DEF Init, Stage, Fresh
  <2>2. Budget(r)
    BY FS_EmptySet, ProxyAssumption DEF Init, Budget, NoOutcome
  <2>3. Placed(r)
    BY DEF Init, Placed, NoRoute, NoPlan
  <2> QED
    BY <2>1, <2>2, <2>3
<1> QED
  BY <1>4, <1>5, <1>6 DEF IInv

\* IInv is inductive.
LEMMA NextInv == IInv /\ [Next]_vars => IInv'
<1> SUFFICES ASSUME IInv, [Next]_vars
             PROVE  IInv'
  OBVIOUS
<1>1. CASE Publish
  BY <1>1, PublishInv
<1>2. ASSUME NEW r \in Requests, Own(r)
      PROVE  IInv'
  BY <1>2, ResolveInv, UnresolvedInv, SelectInv, NoneHealthyInv, DispatchInv, StopCancelledInv,
     ExhaustedInv, RelayPanicsInv, FinishInv DEF Own
<1>3. ASSUME NEW r \in Requests, Upstream(r)
      PROVE  IInv'
  BY <1>3, CallFailsInv, UnavailableInv, AnswerInv, OpenStreamInv, ReadFailsInv, RelayInv,
     StreamEndsInv DEF Upstream
<1>4. ASSUME NEW r \in Requests, Client(r)
      PROVE  IInv'
  BY <1>4, AcceptInv, RejectInv, CancelInv DEF Client
<1>5. CASE UNCHANGED vars
  <2>1. \A q : Mine(q)' = Mine(q)
    BY <1>5 DEF vars, local, Mine
  <2>2. \A q \in Requests : Local(q)'
    BY <2>1, Unmoved DEF IInv, Local
  <2>3. TypeOK'
    BY <1>5 DEF IInv, TypeOK, vars, local
  <2>4. InFlightAccounts'
    BY <1>5 DEF IInv, InFlightAccounts, Open, CurrentBackend, vars, local
  <2> QED
    BY <2>2, <2>3, <2>4 DEF IInv, Local
<1> QED
  BY <1>1, <1>2, <1>3, <1>4, <1>5 DEF Next

\* The inductive invariant holds in every reachable state.
THEOREM Invariance == Spec => []IInv
BY InitInv, NextInv, PTL DEF Spec

\* The state keeps its shape: the gauges stay natural numbers, the attempts
\* within the budget, the counter within its width.
THEOREM TypeCorrect == Spec => []TypeOK
<1>1. IInv => TypeOK
  BY DEF IInv
<1> QED
  BY <1>1, Invariance, PTL

\* No return path of Execute leaks an in-flight slot or frees one twice,
\* whatever the number of concurrent requests.
THEOREM GaugesExact == Spec => []InFlightAccounts
<1>1. IInv => InFlightAccounts
  BY DEF IInv
<1> QED
  BY <1>1, Invariance, PTL

\* Every handler that returns sent one response head, and none sends two.
THEOREM OneResponse == Spec => []SingleResponse
<1>1. ASSUME IInv, NEW r \in Requests
      PROVE  Len(wire[r]) <= 1 /\ (pc[r] = "done" => Len(wire[r]) = 1)
  <2>1. \A x : Len(<<x>>) = 1
    OBVIOUS
  <2>2. Relayed(r) => Len(wire[r]) = 1
    BY <2>1 DEF Relayed
  <2>3. Answered(r) => Len(wire[r]) = 1
    BY <2>1, <2>2 DEF Answered, Envelope
  <2>4. pc[r] \in PCs /\ Stage(r)
    BY <1>1 DEF IInv, TypeOK
  <2>5. wire[r] = <<>> \/ Len(wire[r]) = 1
    BY <2>1, <2>2, <2>3, <2>4 DEF Stage, Fresh, PCs
  <2>6. pc[r] = "done" => Len(wire[r]) = 1
    BY <2>3, <2>4 DEF Stage
  <2>7. Len(wire[r]) \in {0, 1}
    <3>1. Len(<<>>) = 0
      OBVIOUS
    <3> QED
      BY <2>5, <3>1
  <2> QED
    <3>1. \A n \in {0, 1} : n <= 1
      OBVIOUS
    <3> QED
      BY <2>6, <2>7, <3>1
<1>2. IInv => SingleResponse
  BY <1>1 DEF SingleResponse
<1> QED
  BY <1>2, Invariance, PTL

\* The attempts counted are the candidates tried, healthy ones, within the budget.
THEOREM AttemptsBounded == Spec => []FailoverBudget
<1>1. IInv => FailoverBudget
  BY DEF IInv, Budget, FailoverBudget
<1> QED
  BY <1>1, Invariance, PTL

\* What the stages say of the heads a client received.
LEMMA HeadsKnown ==
  ASSUME IInv, NEW r \in Requests, NEW k \in DOMAIN wire[r]
  PROVE  /\ k = 1
         /\ \/ /\ Relayed(r) \/ pc[r] = "streaming"
               /\ Held(r)
               /\ wire[r][k].kind \in {"unary", "stream"}
               /\ wire[r][k].hdr = outcome[r].cand /\ wire[r][k].from = outcome[r].cand
            \/ /\ pc[r] = "done" /\ Answered(r) /\ ~Relayed(r)
               /\ wire[r][k].kind = "envelope" /\ wire[r][k].from = 0
               /\ wire[r][k].status = logged[r]
               /\ wire[r][k].hdr # 0 => Panicked(r) /\ logged[r] = 500
<1>1. pc[r] \in PCs /\ Stage(r)
  BY DEF IInv, TypeOK
<1>2. \A x : DOMAIN <<x>> = {1} /\ <<x>>[1] = x
  OBVIOUS
<1>3. DOMAIN <<>> = {}
  OBVIOUS
<1>4. CASE Relayed(r) \/ pc[r] = "streaming"
  <2>1. Held(r)
    BY <1>1, <1>4 DEF Stage, Relayed
  <2>2. \E st, t : wire[r] = <<RHead(st, outcome[r].cand, outcome[r].cand, t)>>
                   /\ t \in {"unary", "stream"}
    BY <1>1, <1>4 DEF Stage, Relayed
  <2> QED
    BY <1>2, <1>4, <2>1, <2>2 DEF RHead
<1>5. CASE ~Relayed(r) /\ pc[r] # "streaming"
  <2>1. wire[r] # <<>>
    BY <1>3
  <2>2. pc[r] = "done" /\ Answered(r)
    BY <1>1, <1>5, <2>1 DEF Stage, Fresh, PCs
  <2>3. Envelope(r, 0) \/ (Envelope(r, hdr[r]) /\ Panicked(r) /\ logged[r] = 500)
    BY <1>5, <2>2 DEF Answered
  <2> QED
    BY <1>2, <1>5, <2>2, <2>3 DEF Envelope, RHead
<1> QED
  BY <1>4, <1>5

\* However many candidates were tried and buffered their names, the headers the
\* client reads name the one whose body it gets.
THEOREM HeadersTellTheTruth == Spec => []ProvenanceTruthful
<1>1. IInv => ProvenanceTruthful
  BY HeadsKnown DEF ProvenanceTruthful, Held
<1> QED
  BY <1>1, Invariance, PTL

\* Exactly the candidates the loop gave up on are reported to the health loop.
THEOREM BlameIsEarned == Spec => []BlameExactly
<1>1. ASSUME IInv, NEW r \in Requests
      PROVE  /\ tried[r] \ reported[r] \subseteq {outcome[r].cand}
             /\ pc[r] = "trying" \/ outcome[r].err = "api" => reported[r] = tried[r]
             /\ Open(r) \/ (\E k \in DOMAIN wire[r] : wire[r][k].from # 0) =>
                  outcome[r].cand \notin reported[r]
  <2>1. pc[r] \in PCs /\ Stage(r)
    BY <1>1 DEF IInv, TypeOK
  <2>2. \/ Fresh(r) \/ Relayed(r) \/ Panicked(r) \/ Aborted(r) \/ Refused(r)
        \/ pc[r] = "trying"
        \/ Held(r) /\ outcome[r].err = "none"
        \/ outcome[r] = NoOutcome /\ tried[r] = {} /\ reported[r] = {}
    BY <2>1 DEF Stage, Answered, PCs
  <2>3. pc[r] = "trying" => reported[r] = tried[r]
    BY <2>1 DEF Stage
  <2>4. tried[r] \ reported[r] \subseteq {outcome[r].cand}
    BY <2>2, <2>3 DEF Fresh, Relayed, Panicked, Aborted, Refused, Held
  <2>5. outcome[r].err = "api" => reported[r] = tried[r]
    BY <2>1, <2>2, <2>3 DEF Fresh, NoOutcome, Relayed, Panicked, Aborted, Refused, Held, Stage
  <2>6. Open(r) => outcome[r].cand \notin reported[r]
    BY <2>1 DEF Stage, Open, Held
  <2>7. ASSUME NEW k \in DOMAIN wire[r], wire[r][k].from # 0
        PROVE  outcome[r].cand \notin reported[r]
    BY <1>1, <2>7, HeadsKnown DEF Held
  <2> QED
    BY <2>3, <2>4, <2>5, <2>6, <2>7
<1>2. IInv => BlameExactly
  BY <1>1 DEF BlameExactly
<1> QED
  BY <1>2, Invariance, PTL

\* The router answers 502 or 503 of its own only when it had no choice.
THEOREM RefusalsJustified == Spec => []RefusalJustified
<1>1. ASSUME IInv, NEW r \in Requests, NEW k \in DOMAIN wire[r],
             wire[r][k].kind = "envelope"
      PROVE  LET h   == wire[r][k]
                 fit == Fit(route[r].view, route[r].plan)
             IN /\ h.status = 502 /\ ~cancelled[r] =>
                     reported[r] = tried[r] /\ (tried[r] = fit \/ outcome[r].sent = MaxAttempts)
                /\ h.status = 503 => fit = {}
                /\ h.status \in {404, 413, 400} => tried[r] = {}
  <2>1. Answered(r) /\ ~Relayed(r) /\ wire[r][k].status = logged[r]
    BY <1>1, HeadsKnown
  <2>2. \/ tried[r] = {} /\ logged[r] \in {400, 413}
        \/ cancelled[r] /\ logged[r] = 502
        \/ Refused(r) /\ logged[r] = outcome[r].status
        \/ logged[r] = 500
    BY <2>1 DEF Answered, Aborted
  <2> QED
    BY <2>1, <2>2 DEF Refused
<1>2. IInv => RefusalJustified
  BY <1>1 DEF RefusalJustified
<1> QED
  BY <1>2, Invariance, PTL

\* The log line's status is the one the client received, streams opened on a
\* 2xx other than 200 excepted.
THEOREM LogTellsTheTruth == Spec => []LoggedStatusSent
<1>1. ASSUME IInv, NEW r \in Requests, pc[r] = "done"
      PROVE  \/ logged[r] = wire[r][1].status
             \/ wire[r][1].kind = "stream" /\ Success(logged[r])
  <2>1. Answered(r)
    BY <1>1 DEF IInv, Stage
  <2>2. \A x : <<x>>[1] = x
    OBVIOUS
  <2> QED
    BY <2>1, <2>2 DEF Answered, Envelope, Relayed, RHead
<1>2. IInv => LoggedStatusSent
  BY <1>1 DEF LoggedStatusSent
<1> QED
  BY <1>2, Invariance, PTL

------------------------------------------------------------------------------
\* No step of the system dispatches or reports for a request whose client is gone.
LEMMA NobodyCalledAfterHangUp ==
  ASSUME IInv, [Next]_vars, NEW q \in Requests, cancelled[q]
  PROVE  tried'[q] = tried[q] /\ reported'[q] = reported[q]
<1>1. CASE Publish \/ UNCHANGED vars
  BY <1>1 DEF Publish, vars, local
<1>2. ASSUME NEW r \in Requests, Own(r)
      PROVE  tried'[q] = tried[q] /\ reported'[q] = reported[q]
  <2>1. CASE Dispatch(r)
    <3>1. r # q /\ reported' = reported
      BY <2>1 DEF Dispatch
    <3>2. PICK i : tried' = [tried EXCEPT ![r] = @ \cup {i}]
      BY <2>1 DEF Dispatch
    <3> QED
      BY <3>1, <3>2 DEF IInv, TypeOK
  <2>2. CASE ~Dispatch(r)
    BY <1>2, <2>2 DEF Own, Resolve, Unresolved, Select, NoneHealthy, StopCancelled, Exhausted,
       RelayPanics, Finish
  <2> QED
    BY <2>1, <2>2
<1>3. ASSUME NEW r \in Requests, Upstream(r)
      PROVE  tried'[q] = tried[q] /\ reported'[q] = reported[q]
  <2>1. CASE CallFails(r) \/ Unavailable(r) \/ ReadFails(r)
    <3>1. tried' = tried /\ FailOver(r)
      BY <2>1 DEF CallFails, Unavailable, ReadFails
    <3>2. \/ reported' = reported
          \/ r # q /\ reported' = [reported EXCEPT ![r] = @ \cup {outcome[r].cand}]
      BY <3>1 DEF FailOver
    <3> QED
      BY <3>1, <3>2 DEF IInv, TypeOK
  <2>2. CASE Answer(r) \/ OpenStream(r) \/ Relay(r) \/ StreamEnds(r)
    BY <2>2 DEF Answer, OpenStream, Relay, StreamEnds
  <2> QED
    BY <1>3, <2>1, <2>2 DEF Upstream
<1>4. ASSUME NEW r \in Requests, Client(r)
      PROVE  tried'[q] = tried[q] /\ reported'[q] = reported[q]
  BY <1>4 DEF Client, Accept, Reject, Cancel
<1> QED
  BY <1>1, <1>2, <1>3, <1>4 DEF Next

\* Once its client is gone a request calls nobody and blames nobody.
THEOREM HangUpIsFinal == Spec => AfterHangUp
<1>1. IInv /\ [Next]_vars =>
        [\A r \in Requests :
           cancelled[r] => tried'[r] = tried[r] /\ reported'[r] = reported[r]]_vars
  BY NobodyCalledAfterHangUp
<1> QED
  BY <1>1, Invariance, PTL DEF Spec, AfterHangUp

------------------------------------------------------------------------------
(***************************************************************************)
(* The failover engine implements ResponseContract.                        *)
(***************************************************************************)
\* The contract's view of the first head a client receives.
LEMMA AnswerOf ==
  \A r \in Requests : /\ wire[r] = <<>> => Answers[r] = <<>>
                      /\ \A h : wire[r] = <<h>> => Answers[r] = <<h.from>>
<1> TAKE r \in Requests
<1>1. Answers[r] = [k \in DOMAIN wire[r] |-> wire[r][k].from]
  BY DEF Answers
<1>2. wire[r] = <<>> => Answers[r] = <<>>
  BY <1>1
<1>3. \A h : wire[r] = <<h>> => Answers[r] = <<h.from>>
  BY <1>1
<1> QED
  BY <1>2, <1>3

\* A step that the contract cannot see is a stutter of it.
LEMMA ContractStutters ==
  ASSUME tried' = tried, wire' = wire,
         \A r \in Requests : outcome'[r].cand = outcome[r].cand,
         \A r \in Requests : outcome'[r].sent = outcome[r].sent,
         \A r \in Requests : pc'[r] = "done" <=> pc[r] = "done"
  PROVE  UNCHANGED RC!contractVars
BY DEF RC!contractVars, Calls, Latest, Answers, Closed

\* Dispatch is a call of the contract.
LEMMA DispatchCalls ==
  ASSUME IInv, NEW r \in Requests, Dispatch(r)
  PROVE  RC!ContractNext
<1>1. PICK i \in Todo(r) :
        /\ outcome' = [outcome EXCEPT ![r].cand = i,
                                      ![r].sent = @ + 1,
                                      ![r].failovers = IF outcome[r].sent > 0 THEN @ + 1 ELSE @]
        /\ tried' = [tried EXCEPT ![r] = @ \cup {i}]
  BY DEF Dispatch
<1>2. /\ pc[r] = "trying" /\ outcome[r].sent < MaxAttempts /\ wire[r] = <<>>
      /\ pc' = [pc EXCEPT ![r] = "calling"]
      /\ wire' = wire
      /\ Budget(r) /\ Placed(r)
      /\ outcome \in [Requests -> Outcomes] /\ pc \in [Requests -> PCs]
  BY DEF IInv, TypeOK, Dispatch, Goto, Stage
<1>3. i \in Positions /\ i \notin tried[r]
  BY <1>1, <1>2 DEF Todo, Fit, Placed
<1>4. /\ Latest' = [Latest EXCEPT ![r] = i]
      /\ Calls' = [Calls EXCEPT ![r] = Calls[r] + 1]
  BY <1>1, <1>2 DEF Latest, Calls, Outcomes
<1>5. Closed' = Closed /\ ~Closed[r]
  BY <1>2 DEF Closed
<1>6. Answers' = Answers /\ Answers[r] = <<>>
  BY <1>2, AnswerOf DEF Answers
<1>7. Calls[r] < MaxAttempts
  BY <1>2 DEF Calls
<1>8. RC!Call(r, i)
  <2>1. tried' = [tried EXCEPT ![r] = tried[r] \cup {i}]
    BY <1>1
  <2> QED
    <3>1. /\ ~Closed[r] /\ Answers[r] = <<>> /\ i \notin tried[r]
          /\ Calls[r] < MaxAttempts
      BY <1>3, <1>5, <1>6, <1>7
    <3>2. UNCHANGED <<Answers, Closed>>
      BY <1>5, <1>6
    <3> QED
      BY <1>4, <2>1, <3>1, <3>2 DEF RC!Call
<1> QED
  BY <1>3, <1>8 DEF RC!ContractNext

\* The contract's view of a step that gives the client of r its first head.
LEMMA AnswerPrime ==
  ASSUME NEW r \in Requests, NEW h \in Heads, TypeOK, wire[r] = <<>>,
         wire' = [wire EXCEPT ![r] = Append(@, h)]
  PROVE  Answers[r] = <<>> /\ Answers' = [Answers EXCEPT ![r] = <<h.from>>]
<1>1. wire'[r] = <<h>> /\ \A q \in Requests \ {r} : wire'[q] = wire[q]
  BY FirstHead
<1>2. Answers[r] = <<>>
  BY AnswerOf
<1>3. Answers'[r] = <<h.from>>
  <2>1. Answers'[r] = [k \in DOMAIN wire'[r] |-> wire'[r][k].from]
    BY DEF Answers
  <2> QED
    BY <1>1, <2>1
<1>4. \A q \in Requests \ {r} : Answers'[q] = Answers[q]
  BY <1>1 DEF Answers
<1>5. /\ Answers' = [q \in Requests |-> Answers'[q]]
      /\ Answers = [q \in Requests |-> Answers[q]]
  BY DEF Answers
<1> QED
  BY <1>2, <1>3, <1>4, <1>5

\* Opening a stream commits the answer of the latest candidate.
LEMMA OpenStreamCommits ==
  ASSUME IInv, NEW r \in Requests, OpenStream(r)
  PROVE  RC!ContractNext
<1>1. PICK st \in UpstreamStatuses : outcome' = [outcome EXCEPT ![r].status = st]
  BY DEF OpenStream
<1>2. /\ pc[r] = "calling" /\ wire[r] = <<>> /\ Held(r)
      /\ pc' = [pc EXCEPT ![r] = "streaming"]
      /\ wire' = [wire EXCEPT ![r] = Append(@, RHead(200, hdr'[r], outcome[r].cand, "stream"))]
      /\ tried' = tried
      /\ TypeOK
  BY DEF IInv, OpenStream, Goto, Stage
<1>3. /\ RHead(200, hdr'[r], outcome[r].cand, "stream") \in Heads
      /\ RHead(200, hdr'[r], outcome[r].cand, "stream").from = outcome[r].cand
  <2>1. hdr'[r] \in Nat /\ outcome[r].cand \in Nat
    BY <1>2, BufferHeadersTyped DEF OpenStream, TypeOK, Outcomes
  <2> QED
    BY <2>1 DEF RHead, Heads
<1>4. Latest' = Latest /\ Calls' = Calls
  BY <1>1, <1>2 DEF Latest, Calls, TypeOK, Outcomes
<1>5. Closed' = Closed /\ ~Closed[r]
  BY <1>2 DEF Closed, TypeOK
<1>6. Latest[r] = outcome[r].cand /\ Latest[r] \in tried[r]
  BY <1>2 DEF Latest, Held
<1>7. Answers[r] = <<>> /\ Answers' = [Answers EXCEPT ![r] = <<outcome[r].cand>>]
  <2> DEFINE head == RHead(200, hdr'[r], outcome[r].cand, "stream")
  <2>1. head \in Heads /\ head.from = outcome[r].cand
    BY <1>3
  <2>2. wire' = [wire EXCEPT ![r] = Append(@, head)] /\ wire[r] = <<>> /\ TypeOK
    BY <1>2
  <2> HIDE DEF head
  <2>3. Answers[r] = <<>> /\ Answers' = [Answers EXCEPT ![r] = <<head.from>>]
    BY <2>1, <2>2, AnswerPrime
  <2> QED
    BY <2>1, <2>3
<1>8. RC!Commit(r)
  BY <1>2, <1>4, <1>5, <1>6, <1>7 DEF RC!Commit
<1> QED
  BY <1>8 DEF RC!ContractNext

\* Relaying a unary answer commits the answer of the latest candidate.
LEMMA RelayCommits ==
  ASSUME IInv, NEW r \in Requests, Relay(r)
  PROVE  RC!ContractNext
<1>1. PICK e \in {"none", "internal"} : Return(r, resp[r], e)
  BY DEF Relay
<1>2. /\ pc[r] = "reading" /\ wire[r] = <<>> /\ Held(r)
      /\ wire' = [wire EXCEPT ![r] = Append(@, RHead(resp[r], hdr[r], outcome[r].cand, "unary"))]
      /\ tried' = tried
      /\ TypeOK /\ resp[r] \in Nat /\ e \in Errors
  BY DEF IInv, TypeOK, Relay, Stage, Errors
<1>3. /\ RHead(resp[r], hdr[r], outcome[r].cand, "unary") \in Heads
      /\ RHead(resp[r], hdr[r], outcome[r].cand, "unary").from = outcome[r].cand
  BY <1>2 DEF RHead, Heads, TypeOK, Outcomes
<1>4. /\ outcome'[r].cand = outcome[r].cand
      /\ outcome'[r].sent = outcome[r].sent
      /\ \A q \in Requests \ {r} : outcome'[q] = outcome[q]
      /\ pc' = [pc EXCEPT ![r] = "returned"]
  BY <1>1, <1>2, Returns
<1>5. Latest' = Latest /\ Calls' = Calls
  BY <1>4 DEF Latest, Calls
<1>6. Closed' = Closed /\ ~Closed[r]
  BY <1>2, <1>4 DEF Closed, TypeOK
<1>7. Latest[r] = outcome[r].cand /\ Latest[r] \in tried[r]
  BY <1>2 DEF Latest, Held
<1>8. Answers[r] = <<>> /\ Answers' = [Answers EXCEPT ![r] = <<outcome[r].cand>>]
  <2> DEFINE head == RHead(resp[r], hdr[r], outcome[r].cand, "unary")
  <2>1. head \in Heads /\ head.from = outcome[r].cand
    BY <1>3
  <2>2. wire' = [wire EXCEPT ![r] = Append(@, head)] /\ wire[r] = <<>> /\ TypeOK
    BY <1>2
  <2> HIDE DEF head
  <2>3. Answers[r] = <<>> /\ Answers' = [Answers EXCEPT ![r] = <<head.from>>]
    BY <2>1, <2>2, AnswerPrime
  <2> QED
    BY <2>1, <2>3
<1>9. RC!Commit(r)
  BY <1>2, <1>5, <1>6, <1>7, <1>8 DEF RC!Commit
<1> QED
  BY <1>9 DEF RC!ContractNext

\* A rejected body is a refusal.
LEMMA RejectRefuses ==
  ASSUME IInv, NEW r \in Requests, Reject(r)
  PROVE  RC!ContractNext
<1>1. PICK head \in Heads :
        /\ head.from = 0
        /\ wire' = [wire EXCEPT ![r] = Append(@, head)]
  <2>1. PICK st \in {400, 413} :
          wire' = [wire EXCEPT ![r] = Append(@, RHead(st, 0, 0, "envelope"))]
    BY DEF Reject
  <2>2. RHead(st, 0, 0, "envelope") \in Heads /\ RHead(st, 0, 0, "envelope").from = 0
    BY DEF RHead, Heads
  <2> QED
    BY <2>1, <2>2
<1>2. /\ pc[r] = "idle" /\ wire[r] = <<>> /\ TypeOK
      /\ pc' = [pc EXCEPT ![r] = "done"]
      /\ tried' = tried /\ outcome' = outcome
  BY DEF IInv, Reject, Goto, Stage, Fresh
<1>3. Latest' = Latest /\ Calls' = Calls
  BY <1>2 DEF Latest, Calls
<1>4. Closed' = [Closed EXCEPT ![r] = TRUE] /\ ~Closed[r]
  BY <1>2 DEF Closed, TypeOK
<1>5. Answers[r] = <<>> /\ Answers' = [Answers EXCEPT ![r] = <<0>>]
  <2>1. wire[r] = <<>> /\ TypeOK
    BY <1>2
  <2>2. Answers[r] = <<>> /\ Answers' = [Answers EXCEPT ![r] = <<head.from>>]
    BY <1>1, <2>1, AnswerPrime
  <2> QED
    BY <1>1, <2>2
<1>6. RC!Refuse(r)
  BY <1>2, <1>3, <1>4, <1>5 DEF RC!Refuse
<1> QED
  BY <1>6 DEF RC!ContractNext

\* Finish closes an answered request and refuses an unanswered one.
LEMMA FinishCloses ==
  ASSUME IInv, NEW r \in Requests, Finish(r)
  PROVE  RC!ContractNext
<1>1. /\ pc[r] = "returned" /\ TypeOK
      /\ pc' = [pc EXCEPT ![r] = "done"]
      /\ tried' = tried /\ outcome' = outcome
  BY DEF IInv, Finish, Goto
<1>2. Latest' = Latest /\ Calls' = Calls
  BY <1>1 DEF Latest, Calls
<1>3. Closed' = [Closed EXCEPT ![r] = TRUE] /\ ~Closed[r]
  BY <1>1 DEF Closed, TypeOK
<1>4. Relayed(r) \/ (wire[r] = <<>> /\ (Panicked(r) \/ Aborted(r) \/ Refused(r)))
  BY <1>1 DEF IInv, Stage
<1>5. CASE Relayed(r)
  <2>1. \A x : <<x>> # <<>>
    OBVIOUS
  <2>2. wire[r] # <<>> /\ Answers[r] # <<>>
    BY <1>5, <2>1, AnswerOf DEF Relayed
  <2>3. Answers' = Answers
    BY <2>2 DEF Finish, Wrote, Answers
  <2>4. RC!Close(r)
    BY <1>1, <1>2, <1>3, <2>2, <2>3 DEF RC!Close
  <2> QED
    BY <2>4 DEF RC!ContractNext
<1>6. CASE wire[r] = <<>> /\ (Panicked(r) \/ Aborted(r) \/ Refused(r))
  <2>1. outcome[r].err # "none"
    BY <1>6 DEF Panicked, Aborted, Refused
  <2>2. PICK st \in Nat, h \in Nat : wire' = [wire EXCEPT ![r] = Append(@, RHead(st, h, 0, "envelope"))]
    <3>1. FinalStatus(r) \in Nat /\ hdr[r] \in Nat
      BY <1>1 DEF FinalStatus, TypeOK, Outcomes
    <3> QED
      BY <1>6, <2>1, <3>1 DEF Finish, Wrote
  <2>3. RHead(st, h, 0, "envelope") \in Heads /\ RHead(st, h, 0, "envelope").from = 0
    BY DEF RHead, Heads
  <2>4. Answers[r] = <<>> /\ Answers' = [Answers EXCEPT ![r] = <<0>>]
    <3>1. PICK head \in Heads :
            /\ head.from = 0
            /\ wire' = [wire EXCEPT ![r] = Append(@, head)]
      BY <2>2, <2>3
    <3>2. wire[r] = <<>> /\ TypeOK
      BY <1>1, <1>6
    <3>3. Answers[r] = <<>> /\ Answers' = [Answers EXCEPT ![r] = <<head.from>>]
      BY <3>1, <3>2, AnswerPrime
    <3> QED
      BY <3>1, <3>3
  <2>5. RC!Refuse(r)
    BY <1>1, <1>2, <1>3, <2>4 DEF RC!Refuse
  <2> QED
    BY <2>5 DEF RC!ContractNext
<1> QED
  BY <1>4, <1>5, <1>6

\* Every step is a step of the contract, or none.
LEMMA ContractStep == IInv /\ [Next]_vars => [RC!ContractNext]_RC!contractVars
<1> SUFFICES ASSUME IInv, [Next]_vars
             PROVE  RC!ContractNext \/ UNCHANGED RC!contractVars
  BY DEF IInv
<1>1. TypeOK
  BY DEF IInv
<1>2. CASE Publish \/ UNCHANGED vars
  BY <1>2, ContractStutters DEF Publish, vars, local
<1>3. ASSUME NEW r \in Requests, Own(r)
      PROVE  RC!ContractNext \/ UNCHANGED RC!contractVars
  <2>1. CASE Dispatch(r) \/ Finish(r)
    BY <2>1, DispatchCalls, FinishCloses
  <2>2. CASE Resolve(r) \/ Select(r)
    BY <1>1, <2>2, ContractStutters DEF Resolve, Select, Goto, TypeOK
  <2>3. ASSUME NEW st, NEW e, Return(r, st, e), tried' = tried, wire' = wire, pc[r] # "done"
        PROVE  UNCHANGED RC!contractVars
    BY <1>1, <2>3, ContractStutters DEF Return, Goto, TypeOK, Outcomes
  <2>4. CASE Unresolved(r) \/ NoneHealthy(r) \/ StopCancelled(r) \/ Exhausted(r) \/ RelayPanics(r)
    BY <2>3, <2>4 DEF Unresolved, NoneHealthy, StopCancelled, Exhausted, RelayPanics
  <2> QED
    BY <1>3, <2>1, <2>2, <2>4 DEF Own
<1>4. ASSUME NEW r \in Requests, Upstream(r)
      PROVE  RC!ContractNext \/ UNCHANGED RC!contractVars
  <2>1. CASE OpenStream(r) \/ Relay(r)
    BY <2>1, OpenStreamCommits, RelayCommits
  <2>2. ASSUME NEW st, NEW e, Return(r, st, e), tried' = tried, wire' = wire, pc[r] # "done"
        PROVE  UNCHANGED RC!contractVars
    BY <1>1, <2>2, ContractStutters DEF Return, Goto, TypeOK, Outcomes
  <2>3. ASSUME FailOver(r), tried' = tried, wire' = wire, pc[r] # "done"
        PROVE  UNCHANGED RC!contractVars
    <3>1. CASE Return(r, outcome[r].status, "internal")
      BY <2>2, <2>3, <3>1
    <3>2. CASE Goto(r, "trying") /\ UNCHANGED outcome
      BY <1>1, <2>3, <3>2, ContractStutters DEF Goto, TypeOK
    <3> QED
      BY <2>3, <3>1, <3>2 DEF FailOver
  <2>4. CASE CallFails(r) \/ Unavailable(r) \/ ReadFails(r)
    BY <2>3, <2>4 DEF CallFails, Unavailable, ReadFails
  <2>5. CASE Answer(r)
    BY <1>1, <2>5, ContractStutters DEF Answer, Goto, TypeOK
  <2>6. CASE StreamEnds(r)
    BY <2>2, <2>6 DEF StreamEnds
  <2> QED
    BY <1>4, <2>1, <2>4, <2>5, <2>6 DEF Upstream
<1>5. ASSUME NEW r \in Requests, Client(r)
      PROVE  RC!ContractNext \/ UNCHANGED RC!contractVars
  <2>1. CASE Reject(r)
    BY <2>1, RejectRefuses
  <2>2. CASE Accept(r) \/ Cancel(r)
    BY <1>1, <2>2, ContractStutters DEF Accept, Cancel, Goto, TypeOK
  <2> QED
    BY <1>5, <2>1, <2>2 DEF Client
<1> QED
  BY <1>2, <1>3, <1>4, <1>5 DEF Next

\* A client is answered once, by the candidate called last or by the router;
\* candidates are called one after the other, each once, within the budget, and
\* none after the answer: the engine implements the contract.
THEOREM KeepsContract == Spec => AnswersOnce
<1>1. Init => RC!ContractInit
  <2> SUFFICES ASSUME Init
               PROVE  RC!ContractInit
    OBVIOUS
  <2>1. Answers = [r \in Requests |-> <<>>]
    BY DEF Init, Answers
  <2>2. /\ Latest = [r \in Requests |-> 0] /\ Calls = [r \in Requests |-> 0]
        /\ Closed = [r \in Requests |-> FALSE]
    BY DEF Init, Calls, Latest, Closed, NoOutcome
  <2> QED
    BY <2>1, <2>2 DEF Init, RC!ContractInit
<1> QED
  BY <1>1, ContractStep, Invariance, PTL DEF Spec, AnswersOnce, RC!Contract

------------------------------------------------------------------------------
(* The turns. *)

\* The requests that took a turn.
Turned == {r \in Requests : Rotated(r)}

\* How many turns were taken after that of r.
Age(r) ==
  IF route[r].turn < counter THEN counter - 1 - route[r].turn
  ELSE counter + CounterWidth - 1 - route[r].turn

\* The latest turns are those of the requests that took one, each of its own.
Turns ==
  /\ \A r \in Turned : Age(r) < Cardinality(Turned)
  /\ \A r, q \in Turned : r # q => Age(r) # Age(q)

\* A request goes by what its name stands for: an alias's own plan, or a direct
\* one; and before Execute it saw no snapshot.
Routed(r) ==
  /\ \/ route[r].plan = NoPlan
     \/ /\ input[r].model \in DOMAIN Aliases => route[r].plan = Aliases[input[r].model]
        /\ input[r].model \notin DOMAIN Aliases => route[r].plan.direct
  /\ pc[r] = "selecting" => route[r].view = EmptySnapshot

\* Inductive with IInv.
RInv == Turns /\ \A r \in Requests : Routed(r)

\* Without a healthy backend, or without candidates, there is no turn.
LEMMA NothingFits ==
  /\ \A plan \in Plan : Fit(EmptySnapshot, plan) = {}
  /\ \A s : Fit(s, NoPlan) = {}
<1>1. ASSUME NEW plan \in Plan
      PROVE  Fit(EmptySnapshot, plan) = {}
  <2>1. \A i \in DOMAIN plan.cands : plan.cands[i].backend \in Backends
    <3>1. plan.cands \in Seq(Candidate)
      BY DEF Plan
    <3>2. ASSUME NEW i \in DOMAIN plan.cands
          PROVE  plan.cands[i] \in Candidate
      BY <3>1
    <3> QED
      BY <3>2 DEF Candidate
  <2> QED
    BY <2>1 DEF Fit, EmptySnapshot, Unprobed
<1> QED
  BY <1>1 DEF Fit, NoPlan

\* A step that leaves the plans, the views and the counter alone.
LEMMA TurnsQuiet ==
  ASSUME RInv, UNCHANGED <<route, counter, input>>,
         \A r \in Requests : pc'[r] = "selecting" => pc[r] = "selecting"
  PROVE  RInv'
<1>1. \A r : Rotated(r)' = Rotated(r) /\ Age(r)' = Age(r)
  BY DEF Rotated, Age
<1>2. Turned' = Turned
  BY <1>1 DEF Turned
<1>3. Turns'
  BY <1>1, <1>2 DEF RInv, Turns
<1>4. \A r \in Requests : Routed(r)'
  BY DEF RInv, Routed
<1> QED
  BY <1>3, <1>4 DEF RInv

\* A step of one request that took no turn before and takes none now.
LEMMA TurnsKept ==
  ASSUME RInv, NEW r \in Requests, ~Rotated(r), ~Rotated(r)', counter' = counter,
         \A q \in Requests \ {r} : route'[q] = route[q]
  PROVE  Turns'
<1>1. \A q \in Requests : Rotated(q)' <=> Rotated(q)
  BY DEF Rotated
<1>2. Turned' = Turned /\ r \notin Turned
  BY <1>1 DEF Turned
<1>3. \A q \in Turned : Age(q)' = Age(q)
  BY <1>2 DEF Age, Turned
<1> QED
  BY <1>2, <1>3 DEF RInv, Turns

\* The names resolve to the plans that Routed asks for.
LEMMA PlansRouted ==
  ASSUME NEW s, NEW m, NEW p \in Plans(s, m)
  PROVE  /\ m \in DOMAIN Aliases => p = Aliases[m]
         /\ m \notin DOMAIN Aliases => p.direct
BY DEF Plans, DirectPlans

\* Resolving a name gives the plan, and no turn.
LEMMA ResolveTurns ==
  ASSUME IInv, IInv', RInv, NEW r \in Requests, Resolve(r)
  PROVE  RInv'
<1>1. PICK p \in Plans(snap, input[r].model) : route' = [route EXCEPT ![r].plan = p]
  BY DEF Resolve
<1>2. route \in [Requests -> Routes] /\ route' \in [Requests -> Routes]
  BY DEF IInv, TypeOK
<1>3. route[r] = NoRoute
  BY DEF Resolve, IInv, Stage
<1>4. /\ route'[r].plan = p /\ route'[r].view = EmptySnapshot
      /\ \A q \in Requests \ {r} : route'[q] = route[q]
  BY <1>1, <1>2, <1>3 DEF Routes, NoRoute
<1>5. ~Rotated(r) /\ ~Rotated(r)'
  BY <1>2, <1>3, <1>4, NothingFits DEF Rotated, Routes, NoRoute
<1>6. Turns'
  BY <1>4, <1>5, TurnsKept DEF Resolve
<1>7. \A q \in Requests \ {r} : Routed(q)'
  BY <1>4 DEF RInv, Routed, Resolve, Goto, IInv, TypeOK
<1>8. Routed(r)'
  <2>1. input' = input
    BY DEF Resolve
  <2>2. /\ input[r].model \in DOMAIN Aliases => p = Aliases[input[r].model]
        /\ input[r].model \notin DOMAIN Aliases => p.direct
    BY PlansRouted
  <2> QED
    BY <1>4, <2>1, <2>2 DEF Routed
<1> QED
  BY <1>6, <1>7, <1>8 DEF RInv

\* Finding nobody healthy takes no turn.
LEMMA NoneHealthyTurns ==
  ASSUME IInv, RInv, NEW r \in Requests, NoneHealthy(r)
  PROVE  RInv'
<1>1. route \in [Requests -> Routes]
  BY DEF IInv, TypeOK
<1>2. /\ route'[r].plan = route[r].plan /\ route'[r].view = snap
      /\ \A q \in Requests \ {r} : route'[q] = route[q]
  BY <1>1 DEF NoneHealthy, Routes
<1>3. ~Rotated(r) /\ ~Rotated(r)'
  <2>1. route[r].view = EmptySnapshot /\ route[r].plan \in Plan
    BY <1>1 DEF RInv, Routed, NoneHealthy, Routes
  <2> QED
    BY <1>2, <2>1, NothingFits DEF Rotated, NoneHealthy
<1>4. Turns'
  BY <1>2, <1>3, TurnsKept DEF NoneHealthy
<1>5. pc'[r] = "returned" /\ \A q \in Requests \ {r} : pc'[q] = pc[q]
  BY PcAt DEF NoneHealthy, Return, Goto, IInv
<1>6. \A q \in Requests : Routed(q)'
  BY <1>2, <1>5 DEF RInv, Routed, NoneHealthy
<1> QED
  BY <1>4, <1>6 DEF RInv
\* Reading the counter and adding one to it, in one step, is the latest turn.
LEMMA AgeSteps ==
  ASSUME NEW w \in Nat \ {0}, NEW c \in 0..(w - 1), NEW d, d = (c + 1) % w
  PROVE  /\ d \in 0..(w - 1)
         /\ (IF c < d THEN d - 1 - c ELSE d + w - 1 - c) = 0
<1>1. d = IF c + 1 < w THEN c + 1 ELSE c + 1 - w
  <2> DEFINE x == c + 1
  <2>1. x \in 0..(2 * w - 1)
    OBVIOUS
  <2> HIDE DEF x
  <2>2. x % w = IF x < w THEN x ELSE x - w
    BY <2>1, ReduceOnce
  <2> QED
    BY <2>2 DEF x
<1> QED
  BY <1>1

\* Every turn before it is one turn older.
LEMMA AgeGrows ==
  ASSUME NEW w \in Nat \ {0}, NEW c \in 0..(w - 1), NEW d, d = (c + 1) % w,
         NEW t \in 0..(w - 1),
         NEW before, before = IF t < c THEN c - 1 - t ELSE c + w - 1 - t,
         NEW after, after = IF t < d THEN d - 1 - t ELSE d + w - 1 - t
  PROVE  /\ before \in 0..(w - 1)
         /\ before < w - 1 => after = before + 1
<1>1. d \in 0..(w - 1) /\ (d = c + 1 \/ (c = w - 1 /\ d = 0))
  <2> DEFINE x == c + 1
  <2>1. x \in 0..(2 * w - 1)
    OBVIOUS
  <2> HIDE DEF x
  <2>2. x % w = IF x < w THEN x ELSE x - w
    BY <2>1, ReduceOnce
  <2> QED
    BY <2>2 DEF x
<1> QED
  BY <1>1

\* Select takes the latest turn; all the others become one turn older, and none
\* as old as the counter is wide.
LEMMA SelectTurns ==
  ASSUME Cardinality(Requests) <= CounterWidth, IInv, IInv', RInv, NEW r \in Requests, Select(r)
  PROVE  RInv'
<1>1. /\ route \in [Requests -> Routes] /\ route' \in [Requests -> Routes]
      /\ counter \in 0..(CounterWidth - 1) /\ snap \in Snapshot
  BY DEF IInv, TypeOK
<1>2. /\ route'[r].plan = route[r].plan /\ route'[r].view = snap /\ route'[r].turn = counter
      /\ \A q \in Requests \ {r} : route'[q] = route[q]
  <2> DEFINE new == [route[r] EXCEPT !.view = snap, !.turn = counter]
  <2>1. route' = [route EXCEPT ![r] = new]
    BY <1>1 DEF Select
  <2>2. new.plan = route[r].plan /\ new.view = snap /\ new.turn = counter
    BY <1>1 DEF Routes
  <2> HIDE DEF new
  <2> QED
    BY <1>1, <2>1, <2>2
<1>3. ~Rotated(r)
  <2>1. route[r].view = EmptySnapshot /\ route[r].plan \in Plan
    BY <1>1 DEF RInv, Routed, Select, Routes
  <2> QED
    BY <2>1, NothingFits DEF Rotated
<1>4. Turns'
  <2>1. CASE route[r].plan.selector # "round_robin"
    <3>1. ~Rotated(r)' /\ counter' = counter
      BY <1>2, <2>1 DEF Rotated, Select
    <3> QED
      BY <1>2, <1>3, <3>1, TurnsKept
  <2>2. CASE route[r].plan.selector = "round_robin"
    <3>1. Rotated(r)' /\ counter' = (counter + 1) % CounterWidth
      BY <1>2, <2>2 DEF Rotated, Select
    <3>2. \A q \in Requests \ {r} : Rotated(q)' <=> Rotated(q)
      BY <1>2 DEF Rotated
    <3>3. Turned' = Turned \cup {r} /\ r \notin Turned /\ Turned \subseteq Requests
      BY <1>3, <3>1, <3>2 DEF Turned
    <3>4. /\ Cardinality(Turned) \in Nat
          /\ Cardinality(Turned') = Cardinality(Turned) + 1
          /\ Cardinality(Turned) < CounterWidth
      <4>1. IsFiniteSet(Requests) /\ CounterWidth \in Nat
        BY ProxyAssumption
      <4>2. IsFiniteSet(Turned) /\ Cardinality(Turned) \in Nat
        BY <3>3, <4>1, FS_Subset, FS_CardinalityType
      <4>3. Cardinality(Turned \cup {r}) = Cardinality(Turned) + 1
        BY <3>3, <4>2, FS_AddElement
      <4>4. /\ Cardinality(Turned \cup {r}) <= Cardinality(Requests)
            /\ Cardinality(Requests) \in Nat
        BY <3>3, <4>1, FS_Subset, FS_CardinalityType
      <4> QED
        BY <3>3, <4>1, <4>2, <4>3, <4>4
    <3>5. Age(r)' = 0
      <4>1. Age(r)' = IF counter < counter' THEN counter' - 1 - counter
                      ELSE counter' + CounterWidth - 1 - counter
        BY <1>2 DEF Age
      <4> QED
        BY <1>1, <3>1, <4>1, ProxyAssumption, AgeSteps
    <3>6. ASSUME NEW q \in Turned
          PROVE  Age(q) \in Nat /\ Age(q)' = Age(q) + 1 /\ Age(q) < Cardinality(Turned)
      <4> DEFINE t      == route[q].turn
                 before == IF t < counter THEN counter - 1 - t ELSE counter + CounterWidth - 1 - t
                 after  == IF t < counter' THEN counter' - 1 - t
                           ELSE counter' + CounterWidth - 1 - t
      <4>1. t \in 0..(CounterWidth - 1)
        BY <1>1, <3>3 DEF Routes
      <4>2. Age(q) = before /\ Age(q)' = after
        <5>1. route'[q] = route[q]
          BY <1>2, <3>3
        <5> QED
          BY <5>1 DEF Age
      <4>3. Age(q) < Cardinality(Turned)
        BY DEF RInv, Turns
      <4>4. before \in 0..(CounterWidth - 1) /\ (before < CounterWidth - 1 => after = before + 1)
        <5> HIDE DEF before, after, t
        <5>1. CounterWidth \in Nat \ {0}
          BY ProxyAssumption
        <5> QED
          BY <1>1, <3>1, <4>1, <5>1, AgeGrows DEF before, after
      <4> HIDE DEF before, after
      <4> QED
        BY <3>4, <4>2, <4>3, <4>4, ProxyAssumption
    <3>7. \A q \in Turned' : Age(q)' < Cardinality(Turned')
      BY <3>3, <3>4, <3>5, <3>6
    <3>8. \A q, p \in Turned' : q # p => Age(q)' # Age(p)'
      <4>1. \A q, p \in Turned : q # p => Age(q) # Age(p)
        BY DEF RInv, Turns
      <4>2. \A q, p \in Turned : q # p => Age(q)' # Age(p)'
        BY <3>6, <4>1
      <4>3. \A q \in Turned : Age(q)' # Age(r)'
        BY <3>5, <3>6
      <4> QED
        BY <3>3, <4>2, <4>3
    <3> QED
      BY <3>7, <3>8 DEF Turns
  <2> QED
    BY <2>1, <2>2
<1>5. pc'[r] = "trying" /\ \A q \in Requests \ {r} : pc'[q] = pc[q]
  BY PcAt DEF Select, Goto, IInv
<1>6. \A q \in Requests : Routed(q)'
  BY <1>2, <1>5 DEF RInv, Routed, Select
<1> QED
  BY <1>4, <1>6 DEF RInv
\* At first nobody took a turn.
LEMMA TurnsInit == Init => RInv
<1> SUFFICES ASSUME Init
             PROVE  RInv
  OBVIOUS
<1>1. \A r \in Requests : route[r] = NoRoute /\ pc[r] = "idle"
  BY DEF Init
<1>2. \A r \in Requests : ~Rotated(r) /\ Routed(r)
  BY <1>1, NothingFits DEF Rotated, Routed, NoRoute
<1>3. Turned = {}
  BY <1>2 DEF Turned
<1> QED
  BY <1>2, <1>3 DEF RInv, Turns

\* Whatever else happens, nobody's turn, plan or first look at the health changes.
LEMMA OthersQuiet ==
  ASSUME IInv, NEW r \in Requests,
         \/ Unresolved(r) \/ Dispatch(r) \/ StopCancelled(r) \/ Exhausted(r) \/ RelayPanics(r)
         \/ Finish(r) \/ Upstream(r) \/ Client(r)
  PROVE  /\ UNCHANGED <<route, counter, input>>
         /\ \A q \in Requests : pc'[q] = "selecting" => pc[q] = "selecting"
<1> USE DEF IInv, TypeOK, Goto, Return
<1>1. CASE Unresolved(r)
  BY <1>1 DEF Unresolved
<1>2. CASE Dispatch(r)
  BY <1>2 DEF Dispatch
<1>3. CASE StopCancelled(r)
  BY <1>3 DEF StopCancelled
<1>4. CASE Exhausted(r)
  BY <1>4 DEF Exhausted
<1>5. CASE RelayPanics(r)
  BY <1>5 DEF RelayPanics
<1>6. CASE Finish(r)
  BY <1>6 DEF Finish
<1>7. CASE Upstream(r)
  BY <1>7 DEF Upstream, CallFails, Unavailable, Answer, OpenStream, ReadFails, Relay, StreamEnds,
              FailOver
<1>8. CASE Client(r)
  BY <1>8 DEF Client, Accept, Reject, Cancel
<1> QED
  BY <1>1, <1>2, <1>3, <1>4, <1>5, <1>6, <1>7, <1>8

\* So RInv is inductive, given IInv.
LEMMA TurnsNext ==
  ASSUME Cardinality(Requests) <= CounterWidth, IInv, IInv', RInv, [Next]_vars
  PROVE  RInv'
<1>1. CASE Publish
  BY <1>1, TurnsQuiet DEF Publish, local
<1>2. ASSUME NEW r \in Requests, Own(r) \/ Upstream(r) \/ Client(r)
      PROVE  RInv'
  <2>1. CASE Resolve(r)
    BY <2>1, ResolveTurns
  <2>2. CASE Select(r)
    BY <2>2, SelectTurns
  <2>3. CASE NoneHealthy(r)
    BY <2>3, NoneHealthyTurns
  <2>4. CASE ~Resolve(r) /\ ~Select(r) /\ ~NoneHealthy(r)
    BY <1>2, <2>4, OthersQuiet, TurnsQuiet DEF Own
  <2> QED
    BY <2>1, <2>2, <2>3, <2>4
<1>3. CASE UNCHANGED vars
  BY <1>3, TurnsQuiet DEF vars, local
<1> QED
  BY <1>1, <1>2, <1>3 DEF Next

------------------------------------------------------------------------------
\* With candidates of one protocol a rotation starts at the place that the turn
\* names.
LEMMA FirstIs ==
  ASSUME TypeOK, NEW r \in Requests, Rotated(r), Cardinality({ProtocolOf[b] : b \in Hosts(r)}) = 1
  PROVE  LET fit == Fit(route[r].view, route[r].plan)
         IN First(r) \in fit /\ Place(fit, First(r)) = (route[r].turn % Cardinality(fit)) + 1
<1> DEFINE s    == route[r].view
           plan == route[r].plan
           turn == route[r].turn
           fit  == Fit(s, plan)
           consumer == input[r].consumer
           override == input[r].override
           before(i, j) == Precedes(s, plan, turn, consumer, override, i, j)
<1>1. s \in Snapshot /\ plan \in Plan /\ turn \in Nat /\ override \in Int
  <2>1. route[r] \in Routes /\ input[r] \in Inputs
    BY DEF TypeOK
  <2>2. turn \in 0..(CounterWidth - 1)
    BY <2>1 DEF Routes
  <2> QED
    BY <2>1, <2>2, ProxyAssumption DEF Routes, Input
<1>2. fit # {} /\ plan.selector = "round_robin"
  BY DEF Rotated
<1>3. \E i \in fit : \A j \in fit \ {i} : before(i, j)
  <2>1. fit \in SUBSET fit
    OBVIOUS
  <2>2. \E i \in fit : \A j \in fit \ {i} : before(i, j) /\ ~before(j, i)
    <3> HIDE DEF s, plan, turn, consumer, override
    <3> QED
      BY <1>1, <1>2, <2>1, OneNext
  <2> QED
    BY <2>2
<1>4. First(r) \in fit /\ \A j \in fit \ {First(r)} : before(First(r), j)
  <2>1. First(r) = CHOOSE i \in fit : \A j \in fit \ {i} : before(i, j)
    BY DEF First
  <2> HIDE DEF before, fit
  <2> QED
    BY <1>3, <2>1
<1>5. \A i, j \in fit : ProtocolOf[plan.cands[i].backend] = ProtocolOf[plan.cands[j].backend]
  <2> DEFINE P == {ProtocolOf[b] : b \in Hosts(r)}
  <2>1. IsFiniteSet(P)
    <3>1. IsFiniteSet(fit)
      BY <1>1, FitIs
    <3>2. IsFiniteSet(Hosts(r))
      <4>1. IsFiniteSet({plan.cands[i].backend : i \in fit})
        <5> DEFINE f == [i \in fit |-> plan.cands[i].backend]
                   H == {plan.cands[i].backend : i \in fit}
        <5>1. f \in Surjection(fit, H)
          BY DEF Surjection
        <5> HIDE DEF f, H, fit
        <5> QED
          BY <3>1, <5>1, FS_Surjection DEF H
      <4> QED
        BY <4>1 DEF Hosts
    <3> DEFINE g == [b \in Hosts(r) |-> ProtocolOf[b]]
    <3>3. g \in Surjection(Hosts(r), P)
      BY DEF Surjection
    <3> HIDE DEF g, P
    <3> QED
      BY <3>2, <3>3, FS_Surjection
  <2>2. \A i \in fit : ProtocolOf[plan.cands[i].backend] \in P
    BY DEF Hosts
  <2>3. \E p : P = {p}
    BY <2>1, FS_Singleton
  <2> QED
    BY <2>2, <2>3
<1>6. \A i, j \in fit : before(i, j) => Shift(s, plan, turn, i) < Shift(s, plan, turn, j)
  BY <1>2, <1>5 DEF Precedes, RoundRobinBefore
<1>7. PICK z \in fit : Shift(s, plan, turn, z) = 0
  BY <1>1, <1>2, FitIs, ShiftIs, DistanceStarts
<1>8. Shift(s, plan, turn, First(r)) = 0
  <2>1. CASE First(r) = z
    BY <1>7, <2>1
  <2>2. CASE First(r) # z
    <3>1. Shift(s, plan, turn, First(r)) < 0
      BY <1>4, <1>6, <1>7, <2>2
    <3>2. Shift(s, plan, turn, First(r)) \in Nat
      BY <1>1, <1>4, FitIs, ShiftIs, DistanceNat
    <3> QED
      BY <3>1, <3>2
  <2> QED
    BY <2>1, <2>2
<1> QED
  BY <1>1, <1>2, <1>4, <1>8, FitIs, ShiftIs, DistanceStarts

\* Different ages are different turns; and successive turns of one alias name
\* different places among the same survivors.
LEMMA TurnsSpread == IInv /\ RInv => AliasRotationSpreads
<1> SUFFICES ASSUME IInv, RInv, NEW r \in Requests, NEW q \in Requests,
                    Rotated(r), Rotated(q), r # q
             PROVE  /\ route[r].turn # route[q].turn
                    /\ ~route[r].plan.direct /\ TookTurns(r, q) =>
                         /\ First(r) # First(q)
                         /\ OnePerHost(r) => FirstBackend(r) # FirstBackend(q)
  BY DEF AliasRotationSpreads
<1>1. route[r].turn # route[q].turn
  BY DEF RInv, Turns, Turned, Age
<1>2. ASSUME ~route[r].plan.direct, TookTurns(r, q)
      PROVE  /\ First(r) # First(q)
             /\ OnePerHost(r) => FirstBackend(r) # FirstBackend(q)
  <2> DEFINE plan == route[r].plan
             fit  == Fit(route[r].view, plan)
             n    == Cardinality(fit)
             t    == route[r].turn
  <2>1. TypeOK /\ route[r] \in Routes /\ route[q] \in Routes
    BY DEF IInv, TypeOK
  <2>2. plan \in Plan /\ route[r].view \in Snapshot /\ t \in Nat
    <3>1. t \in 0..(CounterWidth - 1)
      BY <2>1 DEF Routes
    <3> QED
      BY <2>1, <3>1 DEF Routes
  <2>3. route[q].plan = plan
    <3>1. plan # NoPlan /\ route[q].plan # NoPlan
      BY NothingFits DEF Rotated
    <3>2. input[r].model = input[q].model
      BY <1>2 DEF TookTurns
    <3>3. input[r].model \in DOMAIN Aliases
      BY <1>2, <3>1 DEF RInv, Routed
    <3> QED
      BY <3>1, <3>2, <3>3 DEF RInv, Routed
  <2>4. Fit(route[q].view, plan) = fit
    <3>1. Hosts(r) = Hosts(q)
      BY <1>2 DEF TookTurns
    <3>2. ASSUME NEW i \in DOMAIN plan.cands
          PROVE  /\ i \in fit <=> plan.cands[i].backend \in Hosts(r)
                 /\ i \in Fit(route[q].view, plan) <=> plan.cands[i].backend \in Hosts(q)
      BY <2>3 DEF Fit, Hosts
    <3>3. fit \subseteq DOMAIN plan.cands /\ Fit(route[q].view, plan) \subseteq DOMAIN plan.cands
      BY DEF Fit
    <3> QED
      BY <3>1, <3>2, <3>3
  <2>5. n \in Nat /\ n > 1
    <3>1. fit # {} /\ IsFiniteSet(fit) /\ n \in Nat
      BY <2>2, FitIs, FS_CardinalityType DEF Rotated
    <3>2. n # 0
      BY <3>1, FS_EmptySet
    <3>3. ASSUME n = 1
          PROVE  FALSE
      <4>1. PICK i : fit = {i}
        BY <3>1, <3>3, FS_Singleton
      <4>2. Hosts(r) = {plan.cands[i].backend}
        BY <4>1 DEF Hosts
      <4>3. Cardinality(Hosts(r)) = 1
        BY <4>2, FS_Singleton
      <4> QED
        BY <1>2, <4>3 DEF TookTurns
    <3> QED
      BY <3>1, <3>2, <3>3
  <2>6. /\ Cardinality({ProtocolOf[b] : b \in Hosts(r)}) = 1
        /\ Cardinality({ProtocolOf[b] : b \in Hosts(q)}) = 1
        /\ route[q].turn = t + 1
    BY <1>2 DEF TookTurns
  <2>7. First(r) \in fit /\ Place(fit, First(r)) = (t % n) + 1
    BY <2>1, <2>6, FirstIs
  <2>8. First(q) \in fit /\ Place(fit, First(q)) = ((t + 1) % n) + 1
    BY <2>1, <2>3, <2>4, <2>6, FirstIs
  <2>9. (t + 1) % n # t % n /\ t % n \in Nat /\ (t + 1) % n \in Nat
    <3>1. n \in Nat \ {0} /\ t + 1 \in Nat
      BY <2>2, <2>5
    <3> HIDE DEF n, t
    <3>2. t % n \in 0..(n - 1) /\ (t + 1) % n \in 0..(n - 1)
      BY <2>2, <3>1, Division
    <3>3. (t + 1) % n # t % n
      BY <2>2, <2>5, Successive
    <3> QED
      BY <3>1, <3>2, <3>3
  <2>10. First(r) # First(q)
    BY <2>7, <2>8, <2>9
  <2>11. OnePerHost(r) => FirstBackend(r) # FirstBackend(q)
    BY <2>3, <2>7, <2>8, <2>10 DEF OnePerHost, FirstBackend
  <2> QED
    BY <2>10, <2>11
<1> QED
  BY <1>1, <1>2

\* No two requests take the same turn of the rotation, however they interleave,
\* and successive turns of an alias start with different candidates, as long as
\* the process serves no more requests than the counter has values.
THEOREM TurnsKeptApart ==
  ASSUME Cardinality(Requests) <= CounterWidth
  PROVE  Spec => []AliasRotationSpreads
<1>1. Init => RInv
  BY TurnsInit
<1>2. IInv /\ IInv' /\ RInv /\ [Next]_vars => RInv'
  BY TurnsNext
<1>3. IInv /\ RInv => AliasRotationSpreads
  BY TurnsSpread
<1> QED
  BY <1>1, <1>2, <1>3, Invariance, PTL DEF Spec
------------------------------------------------------------------------------
\* Whenever a request has a healthy candidate left that the loop has not
\* reached, exactly one is the next: the loop of Execute is never stuck between
\* two candidates, and never has a choice.
THEOREM NextCandidateKnown ==
  Spec => [](\A r \in Requests : Todo(r) # {} =>
               \E i \in Todo(r) : \A j : IsNextCandidate(r, j) <=> j = i)
<1> DEFINE Known == \A r \in Requests : Todo(r) # {} =>
                      \E i \in Todo(r) : \A j : IsNextCandidate(r, j) <=> j = i
<1>1. IInv => Known
  <2> SUFFICES ASSUME IInv, NEW r \in Requests, Todo(r) # {}
               PROVE  \E i \in Todo(r) : \A j : IsNextCandidate(r, j) <=> j = i
    OBVIOUS
  <2> DEFINE s        == route[r].view
             plan     == route[r].plan
             turn     == route[r].turn
             consumer == input[r].consumer
             override == input[r].override
             T        == Todo(r)
             before(i, j) == Precedes(s, plan, turn, consumer, override, i, j)
  <2>1. s \in Snapshot /\ plan \in Plan /\ turn \in Nat /\ override \in Int
    <3>1. route[r] \in Routes /\ input[r] \in Inputs
      BY DEF IInv, TypeOK
    <3>2. turn \in 0..(CounterWidth - 1)
      BY <3>1 DEF Routes
    <3> QED
      BY <3>1, <3>2, ProxyAssumption DEF Routes, Input
  <2>2. T \in SUBSET Fit(s, plan) /\ T # {}
    BY DEF Todo
  <2>3. PICK i \in T : \A j \in T \ {i} : before(i, j) /\ ~before(j, i)
    <3> HIDE DEF s, plan, turn, consumer, override, T
    <3> QED
      BY <2>1, <2>2, OneNext
  <2>4. \A j : IsNextCandidate(r, j) <=> j \in T /\ \A k \in T \ {j} : before(j, k)
    BY DEF IsNextCandidate
  <2> HIDE DEF before, T
  <2>5. \A j : IsNextCandidate(r, j) <=> j = i
    BY <2>3, <2>4
  <2> QED
    BY <2>3, <2>5 DEF T
<1> QED
  BY <1>1, Invariance, PTL
==============================================================================
