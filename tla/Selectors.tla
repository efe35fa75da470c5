------------------------------ MODULE Selectors ------------------------------
(***************************************************************************)
(* From a configuration file to the order in which Execute tries its       *)
(* candidates: the program starts with the file or refuses it (Config),    *)
(* and a request for one of its proxy aliases is resolved and its          *)
(* candidates ordered slice by slice, by the Selectors of                  *)
(* internal/router/selector.go and preferSameProtocol of proxy.go.  The    *)
(* requests take their turns one after the other.  The slice holds         *)
(* positions of the plan's list of candidates.                             *)
(*                                                                         *)
(* Proxy orders candidates by the relation Precedes of Selection instead;  *)
(* this module checks that the slices come out sorted by it.               *)
(*                                                                         *)
(* stage: read      the file is read, nothing runs                         *)
(*        refused   the program exits                                      *)
(*        started   it serves                                              *)
(*        given     the plan's candidates as resolve listed them           *)
(*        healthy   the selector has filtered them                         *)
(*        arranged  the selector has returned them                         *)
(*        ordered   the failover loop may start                            *)
(***************************************************************************)
EXTENDS Config

CONSTANTS Files,         \* configuration files
          Fleets,        \* the snapshots the health loop may publish
          Overrides,     \* per-request quality bars, -1 for none
          CounterWidth   \* 2^64 in the code: the rotation counter wraps

ASSUME SelectorsAssumption ==
  /\ Fleets \subseteq Snapshot
  /\ Overrides \subseteq Int /\ -1 \in Overrides
  /\ CounterWidth \in Nat \ {0}
  /\ Protocols # {}
  /\ NotSet \notin Models \cup Backends
  /\ \A f \in Files :
       /\ f \in FileType(DOMAIN f.aliases)
       /\ \A i \in DOMAIN f.backends :   \* what speaks Anthropic is marked so
            LET b == f.backends[i]
            IN b.name # NotSet /\ b.protocol \in {NotSet, "openai", "anthropic"} =>
                 ProtocolOf[b.name] = IF b.protocol = "anthropic" THEN "anthropic" ELSE "openai"

VARIABLES file,
          counter,    \* roundRobinSelector.counter
          stage,
          view,       \* the snapshot Execute read
          plan,
          consumer,   \* protocol of the request
          override,
          turn,       \* the counter's value this request took
          slice

request == <<view, plan, consumer, override>>
vars    == <<file, counter, stage, request, turn, slice>>

BackendOf(i) == plan.cands[i].backend
CostOf(i)    == Cost(view, plan.cands[i])

------------------------------------------------------------------------------
FilterHealthy(s) == Kept(s, {k \in DOMAIN s : view[BackendOf(s[k])].healthy})

\* The n survivors from the one at start on, around the end of the slice.
RotatedBy(s, start) == [k \in DOMAIN s |-> s[((start + k - 1) % Len(s)) + 1]]

\* Mutant: the sort is not stable.
GoesUnstable(s, h, k) ==
  \/ CostOf(s[h]) < CostOf(s[k])
  \/ CostOf(s[h]) = CostOf(s[k]) /\ h >= k

\* Where a stable sort by cost puts the entry h of s relative to the entry k: at
\* the same place or before it.
Goes(s, h, k) ==
  \/ CostOf(s[h]) < CostOf(s[k])
  \/ CostOf(s[h]) = CostOf(s[k]) /\ h <= k

RankByCost(s) ==
  LET at == Listed(DOMAIN s, {p \in (DOMAIN s) \X (DOMAIN s) : Goes(s, p[1], p[2])})
  IN [k \in DOMAIN at |-> s[at[k]]]

\* The entries of s above the bar, and those of the consumer's protocol.
GoodEnough(s) == {k \in DOMAIN s : plan.cands[s[k]].quality >= Bar(plan, override)}

Speaking(s) == {k \in DOMAIN s : ProtocolOf[BackendOf(s[k])] = consumer}

------------------------------------------------------------------------------
Init ==
  /\ file \in Files
  /\ counter = 0
  /\ stage = "read"
  /\ view = EmptySnapshot /\ plan = NoPlan
  /\ consumer = CHOOSE p \in Protocols : TRUE
  /\ override = -1
  /\ turn = 0
  /\ slice = <<>>

\* main loads the file before anything listens; on an error the program ends.
Load ==
  /\ stage = "read"
  /\ stage' = IF Accepted(file) THEN "started" ELSE "refused"
  /\ UNCHANGED <<file, counter, request, turn, slice>>

Proxies ==
  LET aliases == WithDefaults(file).aliases
  IN {aliases[a] : a \in {x \in DOMAIN aliases : aliases[x].type = "proxy"}}

\* A request is resolved.  The first one finds any snapshot; bound: it stays as
\* it is for the ones after it.
Request ==
  /\ stage \in {"started", "ordered"}
  /\ stage' = "given"
  /\ view' \in IF stage = "started" THEN Fleets ELSE {view}
  /\ \E alias \in Proxies : plan' = PlanOf(alias)
  /\ consumer' \in Protocols /\ override' \in Overrides
  /\ turn' = 0
  /\ slice' = [i \in DOMAIN plan'.cands |-> i]
  /\ UNCHANGED <<file, counter>>

\* Both selectors begin here; a slice with no survivor is returned as it is.
Filter ==
  /\ stage = "given"
  /\ slice' = FilterHealthy(slice)
  /\ stage' = IF slice' = <<>> THEN "ordered" ELSE "healthy"
  /\ UNCHANGED <<file, counter, request, turn>>

\* roundRobinSelector takes a turn of the shared counter.
Rotate ==
  /\ stage = "healthy"
  /\ plan.selector = "round_robin"
  /\ turn' = counter
  /\ counter' = (counter + 1) % CounterWidth
  /\ slice' = RotatedBy(slice, turn' % Len(slice))
  /\ stage' = "arranged"
  /\ UNCHANGED <<file, request>>

\* paretoSelector: the good enough by cost, then the others by cost.
Rank ==
  /\ stage = "healthy"
  /\ plan.selector = "pareto"
  /\ slice' = RankByCost(Kept(slice, GoodEnough(slice)))
                \o RankByCost(Kept(slice, DOMAIN slice \ GoodEnough(slice)))
  /\ stage' = "arranged"
  /\ UNCHANGED <<file, counter, request, turn>>

\* Mutant: the candidates of the other protocol are dropped.
PreferSameProtocolOnly ==
  /\ stage = "arranged"
  /\ slice' = IF plan.selector = "pareto" THEN slice ELSE Kept(slice, Speaking(slice))
  /\ stage' = "ordered"
  /\ UNCHANGED <<file, counter, request, turn>>

\* Execute lets the consumer's protocol go first, but in no pareto order.
PreferSameProtocol ==
  /\ stage = "arranged"
  /\ slice' = IF plan.selector = "pareto" THEN slice
              ELSE Kept(slice, Speaking(slice)) \o Kept(slice, DOMAIN slice \ Speaking(slice))
  /\ stage' = "ordered"
  /\ UNCHANGED <<file, counter, request, turn>>

Next == Load \/ Request \/ Filter \/ Rotate \/ Rank \/ PreferSameProtocol

Spec == Init /\ [][Next]_vars

------------------------------------------------------------------------------
\* Shape of the state: the slice lists candidates of the plan, none twice.
TypeOK ==
  /\ counter \in 0..(CounterWidth - 1) /\ turn \in 0..(CounterWidth - 1)
  /\ stage \in {"read", "refused", "started", "given", "healthy", "arranged", "ordered"}
  /\ view \in Fleets \cup {EmptySnapshot} /\ plan \in Plan
  /\ consumer \in Protocols /\ override \in Overrides
  /\ slice \in Seq(DOMAIN plan.cands) /\ IsInjective(slice)
  /\ stage \in {"healthy", "arranged", "ordered"} => ToSet(slice) = Fit(view, plan)

\* The failover loop walks the healthy candidates in the order of Precedes: the
\* slice operations of the selectors and of preferSameProtocol sort by it.
SortedByPrecedence ==
  stage = "ordered" =>
    \A i, j \in DOMAIN slice :
      i < j => Precedes(view, plan, turn, consumer, override, slice[i], slice[j])

\* Of the configured backends only b is up, and with no load.
Alone(b) ==
  [x \in Backends |-> [Unprobed EXCEPT !.healthy = x = b /\ x \in Defined(WithDefaults(file))]]

\* Each backend that an alias names for a role can fill the role when all others
\* are down.
Staffed(role) ==
  /\ role.model \in Models
  /\ role.backends # <<>>
  /\ \A i \in DOMAIN role.backends : Healthy(Alone(role.backends[i]), role.backends) # {}

\* What resolve makes of the alias serves, as long as its backends are up: any of
\* a plan's candidates alone can be the slice, and a whole panel meets a quorum
\* of at least one.
Servable(alias) ==
  CASE alias.type = "proxy" ->
         LET p == PlanOf(alias)
         IN /\ p \in Plan /\ p.cands # <<>>
            /\ \A i \in DOMAIN p.cands : i \in Fit(Alone(p.cands[i].backend), p)
            /\ p.selector = "pareto" => \A i \in DOMAIN alias.pool : Staffed(alias.pool[i])
    [] alias.type = "fusion" ->
         LET c  == CouncilOf(alias)
             up == [x \in Backends |-> [Unprobed EXCEPT !.healthy = TRUE]]
         IN /\ c \in Council
            /\ Len(PinnedPanel(up, c.panel)) \in c.minPanel..MaxPanel
            /\ \A i \in DOMAIN alias.panel : Staffed(alias.panel[i])
            /\ Staffed(alias.judge) /\ Staffed(alias.synthesis)
    [] OTHER -> FALSE

\* Validation and resolution agree: every alias of a file the program starts with
\* can be served and its backends speak the protocol the router takes them to
\* speak, and no file whose backends are in order is refused for its aliases
\* unless one of them could not be.
ConfigServes ==
  LET cfg == WithDefaults(file)
      aliases == cfg.aliases
      servable == \A a \in DOMAIN aliases : aliases[a].selector \in Selectors /\ Servable(aliases[a])
  IN /\ stage \notin {"read", "refused"} =>
          servable /\ \A i \in DOMAIN cfg.backends :
                        cfg.backends[i].protocol = ProtocolOf[cfg.backends[i].name]
     /\ stage = "refused" =>
          ~servable \/ ~BackendsValid(cfg.backends) \/ ~cfg.parses \/ cfg.blankToken \/ cfg.audio = "invalid"
==============================================================================
