-------------------------------- MODULE Fleet --------------------------------
(***************************************************************************)
(* What the router knows of its backends: the immutable health snapshot    *)
(* (internal/model/snapshot.go) that the health loop publishes and every   *)
(* request reads without a lock.                                           *)
(*                                                                         *)
(* A Go map without an entry for a backend reads as the zero BackendState, *)
(* and every reader in the router treats a missing backend exactly like an *)
(* unhealthy one that advertises nothing, so a snapshot is a total         *)
(* function and a backend that was never probed is Unprobed.               *)
(***************************************************************************)
EXTENDS Integers, FiniteSets

CONSTANTS Backends,  \* names of the configured backends
          Models     \* upstream model ids the backends may advertise

ASSUME FleetAssumption == IsFiniteSet(Backends)

BackendState == [healthy  : BOOLEAN,        \* the most recent probe succeeded
                 models   : SUBSET Models,  \* last known catalog
                 p50      : Nat,            \* recent probe latency
                 inFlight : Nat]            \* open calls when it was probed

Snapshot == [Backends -> BackendState]

Unprobed == [healthy |-> FALSE, models |-> {}, p50 |-> 0, inFlight |-> 0]

\* The snapshot before the first probe: nothing is in rotation.
EmptySnapshot == [b \in Backends |-> Unprobed]

Serves(s, b, m) == s[b].healthy /\ m \in s[b].models

BackendsServing(s, m) == {b \in Backends : Serves(s, b, m)}

\* Some backend, up or down, lists m: the difference between 503 and 404.
AnyAdvertises(s, m) == \E b \in Backends : m \in s[b].models
==============================================================================
