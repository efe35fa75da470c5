------------------------------ MODULE Selection ------------------------------
(***************************************************************************)
(* How a request name becomes an ordered list of candidates                *)
(* (internal/router/resolve.go and selector.go, and preferSameProtocol in  *)
(* proxy.go).                                                              *)
(*                                                                         *)
(* A plan carries its candidates as a sequence.  The order the code        *)
(* produces by filtering, rotating, sorting and partitioning slices is     *)
(* stated here as a relation between positions of that sequence: Fit says  *)
(* which positions survive the health filter and Precedes which of two     *)
(* survivors is tried first.  Selectors.tla translates the slice algorithm *)
(* itself and checks that it sorts by this relation.                       *)
(***************************************************************************)
EXTENDS Fleet, Sequences

CONSTANTS Protocols,        \* the wire protocols: OpenAI, Anthropic
          ProtocolOf,       \* the protocol each backend speaks
          Aliases,          \* alias name -> its plan (proxy aliases only)
          MaxQuality        \* bound of the quality scores

ASSUME SelectionAssumption ==
  /\ ProtocolOf \in [Backends -> Protocols]
  /\ MaxQuality \in Nat

Selectors == {"round_robin", "pareto"}

Candidate == [model : Models, backend : Backends, quality : 0..MaxQuality]

Plan == [selector   : Selectors,
         minQuality : 0..MaxQuality,
         cands      : Seq(Candidate),
         direct     : BOOLEAN]         \* the code's empty Alias field

NoPlan == [selector |-> "round_robin", minQuality |-> 0, cands |-> <<>>, direct |-> FALSE]

\* Every way of listing the set S without repetition: the order in which Go
\* ranges over a map is unspecified.
Listings(S) == {f \in [1..Cardinality(S) -> S] : \A b \in S : \E i \in DOMAIN f : f[i] = b}

\* An upstream id maps to the backends that are healthy and list it, in any order.
DirectPlans(s, m) ==
  {[selector |-> "round_robin", minQuality |-> 0, direct |-> TRUE,
    cands |-> [i \in DOMAIN f |-> [model |-> m, backend |-> f[i], quality |-> 0]]]
     : f \in Listings(BackendsServing(s, m))}

\* What the name m resolves to under the snapshot s, alias first: the alias's
\* own plan, whose candidates are kept healthy or not, or a direct plan; nothing
\* when no healthy backend serves the id.
Plans(s, m) ==
  IF m \in DOMAIN Aliases THEN {Aliases[m]}
  ELSE IF BackendsServing(s, m) # {} THEN DirectPlans(s, m)
  ELSE {}

\* The quality bar of a request: its own override, or the alias's default.
Bar(plan, override) == IF override \in Nat THEN override ELSE plan.minQuality

\* The positions whose backend is healthy in the snapshot.
Fit(s, plan) == {i \in DOMAIN plan.cands : s[plan.cands[i].backend].healthy}

\* Local cost of a candidate, in half seconds: a second of p50 latency weighs
\* twice an open request.
Cost(s, c) == 2 * s[c.backend].p50 + s[c.backend].inFlight

\* How far behind the rotation's starting point the survivor i comes.
Shift(s, plan, turn, i) ==
  LET n     == Cardinality(Fit(s, plan))
      place == Cardinality({j \in Fit(s, plan) : j < i})
  IN (place + n - (turn % n)) % n

RoundRobinBefore(s, plan, turn, consumer, i, j) ==
  LET same(k) == ProtocolOf[plan.cands[k].backend] = consumer
  IN \/ same(i) /\ ~same(j)
     \/ /\ same(i) <=> same(j)
        /\ Shift(s, plan, turn, i) < Shift(s, plan, turn, j)

ParetoBefore(s, plan, bar, i, j) ==
  LET inTier(k) == plan.cands[k].quality >= bar
      cost(k)   == Cost(s, plan.cands[k])
  IN \/ inTier(i) /\ ~inTier(j)
     \/ /\ inTier(i) <=> inTier(j)
        /\ cost(i) < cost(j) \/ (cost(i) = cost(j) /\ i < j)

\* Position i of the plan is tried before position j.  The protocol
\* preference never overrides the cost order of a pareto plan.
Precedes(s, plan, turn, consumer, override, i, j) ==
  IF plan.selector = "pareto"
  THEN ParetoBefore(s, plan, Bar(plan, override), i, j)
  ELSE RoundRobinBefore(s, plan, turn, consumer, i, j)
==============================================================================
