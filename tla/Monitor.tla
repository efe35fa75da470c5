------------------------------- MODULE Monitor -------------------------------
(***************************************************************************)
(* The health and discovery loop, internal/backend/health.go.  One         *)
(* goroutine owns the latency history, probes every backend on start and   *)
(* on every tick, probes one backend when the request path suspects it,    *)
(* and publishes an immutable snapshot after each round.  Requests reach   *)
(* it only through the snapshot they read and the bounded suspect channel. *)
(*                                                                         *)
(* phase: boot      the first round, before the ticker is created          *)
(*        probing   the probes of a later round are under way              *)
(*        select    the loop waits for a tick, a suspect or cancellation   *)
(*        stopped   the goroutine returned                                 *)
(*                                                                         *)
(* The onHealth callback of fold feeds the metrics: see Service, which     *)
(* composes the rest of the router with HealthLoop, the promise that this  *)
(* module implements.                                                      *)
(***************************************************************************)
EXTENDS Fleet, Sequences

CONSTANTS SuspectBuffer,   \* capacity of the suspect channel, 64 in the code
          LatencyWindow,   \* successful probes remembered, 20 in the code
          Latencies,       \* round-trip times a probe may measure
          Loads            \* in-flight counts a probe may sample

ASSUME MonitorAssumption ==
  /\ SuspectBuffer \in Nat \ {0}
  /\ LatencyWindow \in Nat \ {0}
  /\ Latencies \subseteq Nat \ {0}
  /\ Loads \subseteq Nat /\ Loads # {}

VARIABLES snap,       \* the published snapshot
          history,    \* latencies of the recent successful probes of a backend
          suspect,    \* the channel of names to re-probe
          phase,
          targets,    \* backends of the current round
          waiting,    \* those of them whose probe is still out
          results,    \* what the others' probes brought back
          ticked,     \* a tick waits in the ticker's channel
          running,    \* the root context is not cancelled
          up,         \* the backend answers probes within the timeout
          lost        \* backends whose suspicion was dropped and not made up for

loopVars == <<snap, history, phase, targets, waiting, results>>
vars     == <<loopVars, up, suspect, ticked, running, lost>>

------------------------------------------------------------------------------
Pending == {suspect[i] : i \in DOMAIN suspect}

ProbeResult == [healthy : BOOLEAN, models : SUBSET Models, latency : Nat, inFlight : Nat]

NoAnswer == [healthy |-> FALSE, models |-> {}, latency |-> 0, inFlight |-> 0]

\* The rank of each sample in the sorted copy, equal samples in any order.
Rank(h, i) == Cardinality({j \in DOMAIN h : h[j] < h[i] \/ (h[j] = h[i] /\ j < i)})

\* The upper middle of the samples, 0 for none.
Median(h) ==
  IF h = <<>> THEN 0 ELSE h[CHOOSE i \in DOMAIN h : Rank(h, i) = Len(h) \div 2]

\* Mutant: the window is trimmed one sample late.
RecentLate(h, l) ==
  LET longer == Append(h, l)
  IN IF Len(longer) > LatencyWindow + 1 THEN Tail(longer) ELSE longer

\* A successful probe's latency joins the window; the oldest sample leaves it.
Recent(h, l) ==
  LET longer == Append(h, l)
  IN IF Len(longer) > LatencyWindow THEN Tail(longer) ELSE longer

FoldHistory(h, res) == IF res.healthy THEN Recent(h, res.latency) ELSE h

\* Mutant: a failed probe wipes the catalog.
FoldWiped(old, h, res) ==
  [healthy |-> res.healthy, models |-> res.models, p50 |-> Median(FoldHistory(h, res)),
   inFlight |-> res.inFlight]

\* Mutant: the signal is computed before the new sample joins the window.
FoldStale(old, h, res) ==
  [healthy |-> res.healthy, models |-> IF res.healthy THEN res.models ELSE old.models,
   p50 |-> Median(h), inFlight |-> res.inFlight]

\* One backend's next state: a failed probe keeps the last known catalog.
Fold(old, h, res) ==
  [healthy  |-> res.healthy,
   models   |-> IF res.healthy THEN res.models ELSE old.models,
   p50      |-> Median(FoldHistory(h, res)),
   inFlight |-> res.inFlight]

------------------------------------------------------------------------------
Init ==
  /\ snap = EmptySnapshot
  /\ history = [b \in Backends |-> <<>>]
  /\ suspect = <<>>
  /\ phase = "boot"
  /\ targets = Backends
  /\ waiting = Backends
  /\ results = [b \in Backends |-> NoAnswer]
  /\ ticked = FALSE
  /\ running = TRUE
  /\ up \in [Backends -> BOOLEAN]
  /\ lost = {}

------------------------------------------------------------------------------
(* The loop. *)

StartRound(S) ==
  /\ phase' = "probing"
  /\ targets' = S
  /\ waiting' = S
  /\ lost' = lost \ S
  /\ UNCHANGED <<snap, history, results, up, running>>

\* Mutant: the tick looks after the rotation only.
TakeTickRotation ==
  /\ phase = "select"
  /\ ticked
  /\ ticked' = FALSE
  /\ StartRound({b \in Backends : snap[b].healthy})
  /\ UNCHANGED suspect

\* Of several ready cases select takes any.
TakeTick ==
  /\ phase = "select"
  /\ ticked
  /\ ticked' = FALSE
  /\ StartRound(Backends)
  /\ UNCHANGED suspect

TakeSuspect ==
  /\ phase = "select"
  /\ suspect # <<>>
  /\ suspect' = Tail(suspect)
  /\ StartRound({Head(suspect)})
  /\ UNCHANGED ticked

Stop ==
  /\ phase = "select"
  /\ ~running
  /\ phase' = "stopped"
  /\ UNCHANGED <<snap, history, targets, waiting, results, up, suspect, ticked,
                 running, lost>>

\* What a probe of b may bring back: the models the backend lists now, or a failure
\* by the probe's timeout, by the backend or by the cancelled root context.
ProbeOutcomes(b) ==
  (IF up[b] THEN {[healthy |-> TRUE, models |-> ms, latency |-> l, inFlight |-> n]
                    : ms \in SUBSET Models, l \in Latencies, n \in Loads}
            ELSE {})
  \cup
  (IF ~up[b] \/ ~running THEN {[NoAnswer EXCEPT !.inFlight = n] : n \in Loads} ELSE {})

ProbeEnds(b) ==
  /\ b \in waiting
  /\ waiting' = waiting \ {b}
  /\ \E res \in ProbeOutcomes(b) : results' = [results EXCEPT ![b] = res]
  /\ UNCHANGED <<snap, history, phase, targets, up, suspect, ticked, running,
                 lost>>

\* Mutant: a round in which every probe failed is taken for a network blip.
PublishUnlessAllFailed ==
  /\ phase \in {"boot", "probing"}
  /\ waiting = {}
  /\ snap' = IF \A b \in targets : ~results[b].healthy THEN snap
             ELSE [b \in Backends |-> IF b \in targets THEN Fold(snap[b], history[b], results[b])
                                      ELSE snap[b]]
  /\ history' = [b \in Backends |-> IF b \in targets THEN FoldHistory(history[b], results[b])
                                    ELSE history[b]]
  /\ results' = [b \in Backends |-> NoAnswer]
  /\ targets' = {}
  /\ phase' = "select"
  /\ UNCHANGED <<waiting, up, suspect, ticked, running, lost>>

\* Mutant: a round publishes its own backends only.
PublishRoundOnly ==
  /\ phase \in {"boot", "probing"}
  /\ waiting = {}
  /\ snap' = [b \in Backends |-> IF b \in targets THEN Fold(snap[b], history[b], results[b])
                                 ELSE Unprobed]
  /\ history' = [b \in Backends |-> IF b \in targets THEN FoldHistory(history[b], results[b])
                                    ELSE history[b]]
  /\ results' = [b \in Backends |-> NoAnswer]
  /\ targets' = {}
  /\ phase' = "select"
  /\ UNCHANGED <<waiting, up, suspect, ticked, running, lost>>

\* Every probe of the round is in: fold the results over the published
\* snapshot, carry the other backends forward, publish, and go back to select.
Publish ==
  /\ phase \in {"boot", "probing"}
  /\ waiting = {}
  /\ snap' = [b \in Backends |-> IF b \in targets THEN Fold(snap[b], history[b], results[b])
                                 ELSE snap[b]]
  /\ history' = [b \in Backends |-> IF b \in targets THEN FoldHistory(history[b], results[b])
                                    ELSE history[b]]
  /\ results' = [b \in Backends |-> NoAnswer]
  /\ targets' = {}
  /\ phase' = "select"
  /\ UNCHANGED <<waiting, up, suspect, ticked, running, lost>>

------------------------------------------------------------------------------
(* The request path and the world. *)

\* Monitor.Suspect: a non-blocking send; a full buffer drops the name.
Suspect(b) ==
  /\ \/ /\ Len(suspect) < SuspectBuffer
        /\ suspect' = Append(suspect, b)
        /\ UNCHANGED lost
     \/ /\ Len(suspect) = SuspectBuffer
        /\ lost' = IF b \in Pending \cup waiting THEN lost ELSE lost \cup {b}
        /\ UNCHANGED suspect
  /\ UNCHANGED <<loopVars, up, ticked, running>>

\* The ticker's channel holds one tick and drops the ones that find it full.
Tick ==
  /\ phase \in {"probing", "select"}
  /\ ticked' = TRUE
  /\ UNCHANGED <<loopVars, up, suspect, running, lost>>

\* The root context is cancelled.
Shutdown ==
  /\ running' = FALSE
  /\ UNCHANGED <<loopVars, up, suspect, ticked, lost>>

\* A backend goes down or comes up.
Change(b) ==
  /\ up' = [up EXCEPT ![b] = ~@]
  /\ UNCHANGED <<loopVars, suspect, ticked, running, lost>>

------------------------------------------------------------------------------
Loop == TakeTick \/ TakeSuspect \/ Stop \/ Publish \/ \E b \in Backends : ProbeEnds(b)

Next == Loop \/ Tick \/ Shutdown \/ \E b \in Backends : Suspect(b) \/ Change(b)

Spec == Init /\ [][Next]_vars

\* The timeout of each probe ends it, the ticker fires, the goroutine runs.
\* select chooses uniformly among the ready cases, so that a case that is
\* ready again and again is taken in the end: strong fairness of each case.
Fairness ==
  /\ WF_vars(Publish) /\ WF_vars(Tick)
  /\ \A b \in Backends : WF_vars(ProbeEnds(b))
  /\ SF_vars(TakeTick) /\ SF_vars(TakeSuspect) /\ SF_vars(Stop)

FairSpec == Spec /\ Fairness

------------------------------------------------------------------------------
(***************************************************************************)
(* Properties.                                                             *)
(***************************************************************************)
\* Shape of the state; the channel and the latency window keep their bounds.
TypeOK ==
  /\ snap \in Snapshot
  /\ history \in [Backends -> Seq(Nat)]
  /\ \A b \in Backends : Len(history[b]) <= LatencyWindow
  /\ suspect \in Seq(Backends) /\ Len(suspect) <= SuspectBuffer
  /\ phase \in {"boot", "probing", "select", "stopped"}
  /\ waiting \subseteq targets /\ targets \subseteq Backends
  /\ phase \in {"select", "stopped"} => targets = {}
  /\ results \in [Backends -> ProbeResult]
  /\ ticked \in BOOLEAN /\ running \in BOOLEAN
  /\ up \in [Backends -> BOOLEAN]
  /\ lost \subseteq Backends

\* The latency signal is the upper median of the remembered samples: more than
\* half are no larger, and at least half are no smaller.  It is 0, the cheapest
\* there is, only for a backend out of rotation: pareto never compares a
\* measured backend with one that was not.
MedianOfWindow ==
  \A b \in Backends :
    LET h == history[b]
    IN IF h = <<>> THEN snap[b].p50 = 0 /\ ~snap[b].healthy
       ELSE /\ \E i \in DOMAIN h : h[i] = snap[b].p50
            /\ 2 * Cardinality({i \in DOMAIN h : h[i] <= snap[b].p50}) > Len(h)
            /\ 2 * Cardinality({i \in DOMAIN h : h[i] >= snap[b].p50}) >= Len(h)

\* A failed probe never changes what is known of a backend's models, so an id
\* it advertised stays known (503) rather than unknown (404) while it is down.
CatalogSurvives ==
  [][\A b \in Backends : snap'[b].models # snap[b].models => snap'[b].healthy]_vars

\* A backend whose suspicion was dropped is still probed again, by the next
\* tick, unless the router stops.
LostIsMadeUpFor == \A b \in Backends : b \in lost ~> b \notin lost \/ ~running

\* A backend that stays down leaves the rotation for good and one that stays up
\* joins it for good, however many suspects compete with the tick.
RotationConverges ==
  \A b \in Backends : \A v \in BOOLEAN :
    <>[](up[b] = v /\ running) => <>[](snap[b].healthy = v)

HL == INSTANCE HealthLoop WITH
        known    <- IF phase = "boot" THEN {} ELSE Backends,
        rotation <- {b \in Backends : snap[b].healthy},
        round    <- targets,
        heard    <- {b \in targets \ waiting : results[b].healthy},
        stopped  <- phase = "stopped"

\* The loop keeps the promise of HealthLoop: whatever its queues hold and in
\* whatever order the probes of a round end, a round changes the health of the
\* backends it asked, by what they answered, and of no other.
RoundsDecide == HL!HealthSpec
==============================================================================
