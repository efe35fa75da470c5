----------------------------- MODULE HealthLoop -----------------------------
(***************************************************************************)
(* What the health loop of internal/backend/health.go promises to the rest *)
(* of the router, whatever its queues and windows do.  It decides in       *)
(* rounds: a round asks some backends and then decides about exactly those *)
(* it asked, by which of them answered; the loop stops between rounds only *)
(* and only when the root context is cancelled.                            *)
(*                                                                         *)
(* Monitor implements this module; Service composes it with the handlers,  *)
(* the metrics owner and the process's lifecycle.                          *)
(***************************************************************************)
CONSTANT Backends   \* names of the configured backends

VARIABLES known,     \* the backends the published snapshot has an entry for
          rotation,  \* those it calls healthy
          round,     \* the backends of the current round, none between rounds
          waiting,   \* those of them whose probe is still out
          heard,     \* those of the others that answered
          stopped,   \* the goroutine returned
          running    \* the root context is not cancelled

roundVars == <<round, waiting, heard>>
healthVars == <<known, rotation, roundVars, stopped, running>>

\* The first round starts with the loop and is over all backends.
HealthInit ==
  /\ known = {} /\ rotation = {}
  /\ round = Backends /\ waiting = Backends /\ heard = {}
  /\ stopped = FALSE /\ running = TRUE

\* A tick starts a round over all backends, a suspicion one over its backend.
Begin(S) ==
  /\ round = {} /\ ~stopped
  /\ round' = S /\ waiting' = S
  /\ UNCHANGED <<known, rotation, heard, stopped, running>>

\* A probe ends, answered or not.
ProbeEnds(b) ==
  /\ b \in waiting
  /\ waiting' = waiting \ {b}
  /\ heard' \in {heard, heard \cup {b}}
  /\ UNCHANGED <<known, rotation, round, stopped, running>>

\* The round is over: decide about its backends and publish.
Decide ==
  /\ round # {} /\ waiting = {}
  /\ known' = known \cup round
  /\ rotation' = (rotation \ round) \cup heard
  /\ round' = {} /\ heard' = {}
  /\ UNCHANGED <<waiting, stopped, running>>

\* The loop sees the cancelled root context between two rounds.
StopLoop ==
  /\ round = {} /\ ~stopped /\ ~running
  /\ stopped' = TRUE
  /\ UNCHANGED <<known, rotation, roundVars, running>>

\* The root context is cancelled.
CancelRoot ==
  /\ running' = FALSE
  /\ UNCHANGED <<known, rotation, roundVars, stopped>>

Rounds == {Backends} \cup {{b} : b \in Backends}

LoopNext == (\E S \in Rounds : Begin(S)) \/ Decide \/ StopLoop \/ \E b \in Backends : ProbeEnds(b)

HealthSpec == HealthInit /\ [][LoopNext \/ CancelRoot]_healthVars
==============================================================================
