------------------------------- MODULE Service -------------------------------
(***************************************************************************)
(* The process around the request path: the handlers of internal/server,   *)
(* the metrics owner of internal/observability/metrics.go, the health loop *)
(* and the life of the process (cmd/router/main.go), as they meet in the   *)
(* metrics channel, the snapshot and the root context.                     *)
(*                                                                         *)
(* The health loop is the one promised by HealthLoop, with the callback    *)
(* onHealth that fold makes for every backend of a round.  What a chat     *)
(* does between two of these meetings is Proxy's; here it may be answered, *)
(* refused, or go on to another candidate, at most Retries times.          *)
(*                                                                         *)
(* pc of a request:                                                        *)
(*   absent     it has not arrived                                         *)
(*   reading    a chat, counted as in flight: its body is read             *)
(*   calling    a chat at its backend                                      *)
(*   relaying   an audio request at the gateway, no final head passed on   *)
(*   copying    the gateway's answer is passed on                          *)
(*   ending     about to send its record                                   *)
(*   leaving    about to leave the in-flight gauge                         *)
(*   refreshing a scrape that sends the health it read                     *)
(*   waiting    a scrape whose question is in the channel                  *)
(*   done                                                                  *)
(***************************************************************************)
EXTENDS HealthLoop, Integers, FiniteSets, Sequences

CONSTANTS Requests,   \* the HTTP requests that may arrive
          Mixes,      \* which kinds of requests may come together
          QueueSize,  \* capacity of the metrics channel, 8192 in the code
          Retries,    \* failovers of one chat
          Rejections, \* statuses of the errors of a chat that is not routed
          Heads,      \* final statuses the audio gateway may answer with
          GatewayErrors  \* statuses of the proxy's own errors: 413, 502

Kinds == {"chat", "audio", "scrape", "none"}

ASSUME ServiceAssumption ==
  /\ IsFiniteSet(Requests) /\ IsFiniteSet(Backends) /\ Backends # {}
  /\ Mixes \subseteq [Requests -> Kinds]
  /\ QueueSize \in Nat \ {0}
  /\ Retries \in Nat
  /\ Rejections \cup Heads \cup GatewayErrors \subseteq Nat \ {0}

VARIABLES folded,     \* backends of the round whose onHealth was called
          ops,        \* the metrics channel
          owner,      \* the metrics owner: "serving" or "stopped"
          counted,    \* its counters and its in-flight gauge
          gauge,      \* its health gauges: 1, 0, or -1 for none
          kind,       \* of each request, which no action changes
          pc,
          retries,    \* failovers of each chat
          status,     \* what its handler will record
          wire,       \* the final status its client was sent, 0 for none
          hinted,     \* an informational response was passed on before
          todo,       \* backends whose health a scrape has still to send
          view,       \* the rotation a scrape read
          main,       \* "serving", "draining" or "exited"
          listener,   \* "starting", "open", "shut", or "unbound": never opened
          failed,     \* ListenAndServe has reported an error
          exitCode,
          dropped,    \* history: the updates that found the channel full
          missed,     \* history: backends whose gauge a scrape did not refresh
          since       \* history: the health of a backend since a scrape, or one
                      \* it overlaps with, read the snapshot

metricVars  == <<ops, owner, counted, gauge>>
requestVars == <<kind, pc, retries, status, wire, hinted, todo, view>>
mainVars    == <<main, listener, failed, exitCode>>
history     == <<dropped, missed, since>>
vars == <<healthVars, folded, metricVars, requestVars, mainVars, history>>

------------------------------------------------------------------------------
Statuses == Rejections \cup Heads \cup GatewayErrors \cup {103, 200, 502, 503}

\* The metrics: one counter of requests for each status, the counter of
\* failovers and the gauge of requests in flight.
Done(s)  == <<"requests", s>>
Failover == <<"failovers", 0>>
Open     == <<"in_flight", 0>>
Counters == {Done(s) : s \in Statuses} \cup {Failover, Open}

Update(c, n) == [op |-> "count", of |-> c, by |-> n]
Health(b, v) == [op |-> "health", of |-> b, by |-> v]
Scrape(r)    == [op |-> "scrape", of |-> r, by |-> 0]

\* The value of a backend's health gauge.
Bit(b, S) == IF b \in S THEN 1 ELSE 0

Fits == Len(ops) < QueueSize

\* Mutant: the channel grows instead of dropping.
SendUnbounded(op) == ops' = Append(ops, op)

\* Metrics.send does not block: an update that finds the channel full is dropped.
Send(op) == ops' = IF Fits THEN Append(ops, op) ELSE ops

\* A counter's update, remembered when it is dropped.
Tally(c, n) ==
  /\ Send(Update(c, n))
  /\ dropped' = IF Fits THEN dropped ELSE [dropped EXCEPT ![c] = @ + n]

Zero   == [c \in Counters |-> 0]
Unseen == [b \in Backends |-> {}]

InFlight == {r \in Requests : pc[r] \in {"reading", "calling", "relaying", "copying", "ending",
                                         "leaving"}}

Scraping == {r \in Requests : pc[r] \in {"refreshing", "waiting"}}

Active == InFlight \cup Scraping

Alive == main # "exited"

Init ==
  /\ HealthInit /\ folded = {}
  /\ ops = <<>> /\ owner = "serving"
  /\ counted = Zero
  /\ gauge = [b \in Backends |-> -1]
  /\ kind \in Mixes
  /\ pc = [r \in Requests |-> "absent"]
  /\ retries = [r \in Requests |-> 0]
  /\ status = [r \in Requests |-> 200]
  /\ wire = [r \in Requests |-> 0]
  /\ hinted = [r \in Requests |-> FALSE]
  /\ todo = [r \in Requests |-> {}] /\ view = [r \in Requests |-> {}]
  /\ main = "serving" /\ listener = "starting" /\ failed = FALSE /\ exitCode = 0
  /\ dropped = Zero
  /\ missed = [r \in Requests |-> {}]
  /\ since = [r \in Requests |-> Unseen]

------------------------------------------------------------------------------
(* The metrics owner. *)

\* A scrape's handler returns, and its locals are gone.
ScrapeReturns(r) ==
  /\ pc' = [pc EXCEPT ![r] = "done"]
  /\ view' = [view EXCEPT ![r] = {}]
  /\ missed' = [missed EXCEPT ![r] = {}]
  /\ since' = [since EXCEPT ![r] = Unseen]
  /\ UNCHANGED <<kind, retries, status, wire, hinted, todo>>

\* The next operation of the channel; the page of a scrape is handed over
\* through a channel of its own that has room for it.
Serve ==
  /\ Alive /\ owner = "serving" /\ ops # <<>>
  /\ ops' = Tail(ops)
  /\ LET o == Head(ops)
     IN \/ /\ o.op = "count"
           /\ counted' = [counted EXCEPT ![o.of] = @ + o.by]
           /\ UNCHANGED <<gauge, requestVars, missed, since>>
        \/ /\ o.op = "health"
           /\ gauge' = [gauge EXCEPT ![o.of] = o.by]
           /\ UNCHANGED <<counted, requestVars, missed, since>>
        \/ /\ o.op = "scrape"
           /\ ScrapeReturns(o.of)
           /\ UNCHANGED <<counted, gauge>>
  /\ UNCHANGED <<healthVars, folded, owner, mainVars, dropped>>

\* Mutant: an owner with nothing to do returns.
StopOwnerIdle ==
  /\ Alive /\ owner = "serving" /\ (~running \/ ops = <<>>)
  /\ owner' = "stopped"
  /\ UNCHANGED <<healthVars, folded, ops, counted, gauge, requestVars, mainVars, history>>

\* Of a cancelled context and a waiting operation select takes either one.
StopOwner ==
  /\ Alive /\ owner = "serving" /\ ~running
  /\ owner' = "stopped"
  /\ UNCHANGED <<healthVars, folded, ops, counted, gauge, requestVars, mainVars, history>>

------------------------------------------------------------------------------
(* The health loop. *)

LoopStep(A) ==
  /\ Alive /\ A
  /\ UNCHANGED <<folded, metricVars, requestVars, mainVars, history>>

\* fold calls onHealth for each result, in any order, before it is published.
Fold(b) ==
  /\ Alive
  /\ b \in round \ folded /\ waiting = {}
  /\ folded' = folded \cup {b}
  /\ Send(Health(b, Bit(b, heard)))
  /\ since' = [r \in Requests |->
                 IF r \in Scraping THEN [since[r] EXCEPT ![b] = @ \cup {Bit(b, heard)}] ELSE since[r]]
  /\ UNCHANGED <<healthVars, owner, counted, gauge, requestVars, mainVars, dropped, missed>>

Publish ==
  /\ Alive
  /\ folded = round /\ Decide
  /\ folded' = {}
  /\ since' = [r \in Requests |-> [b \in Backends |->
                  IF r \in Scraping THEN since[r][b] \cup {Bit(b, rotation')} ELSE since[r][b]]]
  /\ UNCHANGED <<metricVars, requestVars, mainVars, dropped, missed>>

------------------------------------------------------------------------------
(* A chat: handleChat and, in outline, Route. *)

\* A request may come in on a connection that was accepted before the listener
\* closed.
Arrives(r, k, next) ==
  /\ Alive /\ listener \in {"open", "shut"}
  /\ pc[r] = "absent" /\ kind[r] = k
  /\ pc' = [pc EXCEPT ![r] = next]

ArriveChat(r) ==
  /\ Arrives(r, "chat", "reading")
  /\ Tally(Open, 1)
  /\ UNCHANGED <<healthVars, folded, owner, counted, gauge, kind, retries, status, wire, hinted, todo,
                 view, mainVars, missed, since>>

\* Mutant: the deferred record takes the status the handler began with.
EndsStale(r, s) ==
  /\ pc' = [pc EXCEPT ![r] = "ending"]
  /\ wire' = [wire EXCEPT ![r] = s]
  /\ UNCHANGED <<healthVars, folded, metricVars, kind, retries, status, hinted, todo, view,
                 mainVars, history>>

\* The chat's handler has decided what its client gets and will record it.
Ends(r, s) ==
  /\ pc' = [pc EXCEPT ![r] = "ending"]
  /\ status' = [status EXCEPT ![r] = s]
  /\ wire' = [wire EXCEPT ![r] = s]
  /\ UNCHANGED <<healthVars, folded, metricVars, kind, retries, hinted, todo, view,
                 mainVars, history>>

\* The body cannot be read, is too large or does not decode, the name is
\* unknown, or the handler panics.
Reject(r) ==
  /\ Alive /\ pc[r] = "reading"
  /\ \E s \in Rejections : Ends(r, s)

\* None of the name's backends is in rotation.
Refuse(r) ==
  /\ Alive /\ pc[r] = "reading"
  /\ rotation # Backends
  /\ Ends(r, 503)

Route(r) ==
  /\ Alive /\ pc[r] = "reading"
  /\ rotation # {}
  /\ pc' = [pc EXCEPT ![r] = "calling"]
  /\ UNCHANGED <<healthVars, folded, metricVars, kind, retries, status, wire, hinted, todo, view,
                 mainVars, history>>

Answer(r) ==
  /\ Alive /\ pc[r] = "calling"
  /\ \E s \in {200, 502} : Ends(r, s)

\* The next candidate's turn, counted as a failover.
FailOver(r) ==
  /\ Alive /\ pc[r] = "calling"
  /\ retries[r] < Retries
  /\ retries' = [retries EXCEPT ![r] = @ + 1]
  /\ Tally(Failover, 1)
  /\ UNCHANGED <<healthVars, folded, owner, counted, gauge, kind, pc, status, wire, hinted, todo,
                 view, mainVars, missed, since>>
------------------------------------------------------------------------------
(* The audio passthrough: audioHandler around net/http's ReverseProxy. *)

ArriveAudio(r) ==
  /\ Arrives(r, "audio", "relaying")
  /\ Tally(Open, 1)
  /\ UNCHANGED <<healthVars, folded, owner, counted, gauge, kind, retries, status, wire, hinted, todo,
                 view, mainVars, missed, since>>

\* statusRecorder keeps the first status it is given, an informational one too.
Recorded(r, s) == IF hinted[r] THEN status[r] ELSE s

\* The gateway sends early hints, which the proxy passes on.
Hint(r) ==
  /\ Alive /\ pc[r] = "relaying" /\ ~hinted[r]
  /\ status' = [status EXCEPT ![r] = Recorded(r, 103)]
  /\ hinted' = [hinted EXCEPT ![r] = TRUE]
  /\ UNCHANGED <<healthVars, folded, metricVars, kind, pc, retries, wire, todo, view,
                 mainVars, history>>

\* A final head goes through the recorder to the client; one that net/http
\* cannot write panics after it was recorded.
PassOn(r, s, next) ==
  /\ status' = [status EXCEPT ![r] = Recorded(r, s)]
  /\ wire' = IF s \in 100..999 THEN [wire EXCEPT ![r] = s] ELSE wire
  /\ pc' = [pc EXCEPT ![r] = IF s \in 100..999 THEN next ELSE "ending"]
  /\ UNCHANGED <<healthVars, folded, metricVars, kind, retries, hinted, todo, view,
                 mainVars, history>>

GatewayAnswers(r) ==
  /\ Alive /\ pc[r] = "relaying"
  /\ \E s \in Heads : PassOn(r, s, "copying")

\* The proxy's own answer: the gateway failed, or the body is too large.
GatewayFails(r) ==
  /\ Alive /\ pc[r] = "relaying"
  /\ \E s \in GatewayErrors : PassOn(r, s, "ending")

\* The body is copied to its end, or the copy fails and the handler panics.
CopyEnds(r) ==
  /\ Alive /\ pc[r] = "copying"
  /\ pc' = [pc EXCEPT ![r] = "ending"]
  /\ UNCHANGED <<healthVars, folded, metricVars, kind, retries, status, wire, hinted, todo, view,
                 mainVars, history>>

------------------------------------------------------------------------------
(* The deferred calls of both handlers, in the order they run. *)

\* One record of the status, whatever became of the request.
Record(r) ==
  /\ Alive /\ pc[r] = "ending"
  /\ pc' = [pc EXCEPT ![r] = "leaving"]
  /\ Tally(Done(status[r]), 1)
  /\ UNCHANGED <<healthVars, folded, owner, counted, gauge, kind, retries, status, wire, hinted,
                 todo, view, mainVars, missed, since>>

\* Mutant: only a request that was answered leaves the gauge.
LeaveAnswered(r) ==
  /\ Alive /\ pc[r] = "leaving"
  /\ pc' = [pc EXCEPT ![r] = "done"]
  /\ wire' = [wire EXCEPT ![r] = 0]
  /\ hinted' = [hinted EXCEPT ![r] = FALSE]
  /\ Tally(Open, IF status[r] = 200 THEN -1 ELSE 0)
  /\ UNCHANGED <<healthVars, folded, owner, counted, gauge, kind, retries, status, todo, view,
                 mainVars, missed, since>>

\* Last, the request leaves the gauge, and the handler's locals are gone.
Leave(r) ==
  /\ Alive /\ pc[r] = "leaving"
  /\ pc' = [pc EXCEPT ![r] = "done"]
  /\ wire' = [wire EXCEPT ![r] = 0]
  /\ hinted' = [hinted EXCEPT ![r] = FALSE]
  /\ Tally(Open, -1)
  /\ UNCHANGED <<healthVars, folded, owner, counted, gauge, kind, retries, status, todo, view,
                 mainVars, missed, since>>

------------------------------------------------------------------------------
(* A scrape: handleMetrics and Metrics.Render. *)

\* The snapshot is read once, on arrival.
ArriveScrape(r) ==
  /\ Arrives(r, "scrape", "refreshing")
  /\ todo' = [todo EXCEPT ![r] = known]
  /\ view' = [view EXCEPT ![r] = rotation]
  /\ missed' = [missed EXCEPT ![r] = Backends \ known]
  /\ since' = [since EXCEPT ![r] = [b \in Backends |->
                  {Bit(b, rotation)} \cup UNION {since[a][b] : a \in Scraping}]]
  /\ UNCHANGED <<healthVars, folded, metricVars, kind, retries, status, wire, hinted, mainVars,
                 dropped>>

\* The backends' gauges are refreshed in the order of a map.
Refresh(r, b) ==
  /\ Alive /\ pc[r] = "refreshing" /\ b \in todo[r]
  /\ todo' = [todo EXCEPT ![r] = @ \ {b}]
  /\ Send(Health(b, Bit(b, view[r])))
  /\ missed' = IF Fits THEN missed ELSE [missed EXCEPT ![r] = @ \cup {b}]
  /\ UNCHANGED <<healthVars, folded, owner, counted, gauge, kind, pc, retries, status, wire, hinted,
                 view, mainVars, dropped, since>>

\* Mutant: the page is rendered before the gauges are refreshed.
AskFirst(r) ==
  /\ Alive /\ pc[r] = "refreshing"
  /\ Fits
  /\ Send(Scrape(r))
  /\ pc' = [pc EXCEPT ![r] = "waiting"]
  /\ UNCHANGED <<healthVars, folded, owner, counted, gauge, kind, retries, status, wire, hinted,
                 todo, view, mainVars, history>>

\* The question for the page blocks until the channel has room.
Ask(r) ==
  /\ Alive /\ pc[r] = "refreshing" /\ todo[r] = {}
  /\ Fits
  /\ Send(Scrape(r))
  /\ pc' = [pc EXCEPT ![r] = "waiting"]
  /\ UNCHANGED <<healthVars, folded, owner, counted, gauge, kind, retries, status, wire, hinted,
                 todo, view, mainVars, history>>

\* Only the send has a timeout, of two seconds; the wait for the reply has none.
GiveUp(r) ==
  /\ Alive /\ pc[r] = "refreshing" /\ todo[r] = {}
  /\ ~Fits
  /\ ScrapeReturns(r)
  /\ UNCHANGED <<healthVars, folded, metricVars, mainVars, dropped>>

------------------------------------------------------------------------------
(* The process: run in cmd/router/main.go. *)

MainStep == UNCHANGED <<healthVars, folded, metricVars, requestVars, history>>

\* ListenAndServe binds the address, or fails to, or fails later to accept.
Bind ==
  /\ Alive /\ listener = "starting"
  /\ listener' = "open"
  /\ MainStep /\ UNCHANGED <<main, failed, exitCode>>

ListenFails ==
  /\ Alive /\ listener \in {"starting", "open"}
  /\ listener' = IF listener = "open" THEN "shut" ELSE "unbound"
  /\ failed' = TRUE
  /\ MainStep /\ UNCHANGED <<main, exitCode>>

\* SIGINT or SIGTERM cancels the root context.
Signal ==
  /\ Alive /\ running
  /\ CancelRoot
  /\ UNCHANGED <<folded, metricVars, requestVars, mainVars, history>>

\* Shutdown closes the listener first; no new connection comes in.
Drain(code) ==
  /\ main = "serving"
  /\ main' = "draining"
  /\ exitCode' = code
  /\ listener' = IF listener \in {"open", "shut"} THEN "shut" ELSE "unbound"
  /\ MainStep /\ UNCHANGED failed

\* Of a signal and an error that wait for it select takes either one.
SignalSeen == ~running /\ Drain(0)

ErrorSeen == failed /\ Drain(1)

\* run returns and takes every goroutine and channel with it.
Exit(code) ==
  /\ main' = "exited" /\ exitCode' = code
  /\ known' = {} /\ rotation' = {} /\ round' = {} /\ waiting' = {} /\ heard' = {}
  /\ stopped' = TRUE /\ folded' = {}
  /\ ops' = <<>> /\ owner' = "stopped"
  /\ counted' = Zero /\ dropped' = Zero
  /\ gauge' = [b \in Backends |-> -1]
  /\ pc' = [r \in Requests |-> "absent"]
  /\ retries' = [r \in Requests |-> 0]
  /\ status' = [r \in Requests |-> 200] /\ wire' = [r \in Requests |-> 0]
  /\ hinted' = [r \in Requests |-> FALSE]
  /\ todo' = [r \in Requests |-> {}] /\ view' = [r \in Requests |-> {}]
  /\ missed' = [r \in Requests |-> {}] /\ since' = [r \in Requests |-> Unseen]
  /\ listener' = "unbound"
  /\ UNCHANGED <<running, kind, failed>>

\* Shutdown returns when the last handler has.
Drained ==
  /\ main = "draining" /\ Active = {}
  /\ Exit(exitCode)

\* Mutant: the error of Shutdown is only logged.
DrainTimeoutQuiet ==
  /\ main = "draining" /\ Active # {}
  /\ Exit(exitCode)

\* Shutdown's own context ends after shutdownTimeout.
DrainTimeout ==
  /\ main = "draining" /\ Active # {}
  /\ Exit(1)

\* The process is gone.
Exited == ~Alive /\ UNCHANGED vars

------------------------------------------------------------------------------
Handler(r) ==
  \/ ArriveChat(r) \/ Reject(r) \/ Refuse(r) \/ Route(r) \/ Answer(r) \/ FailOver(r)
  \/ ArriveAudio(r) \/ Hint(r) \/ GatewayAnswers(r) \/ GatewayFails(r) \/ CopyEnds(r)
  \/ Record(r) \/ Leave(r)
  \/ ArriveScrape(r) \/ (\E b \in Backends : Refresh(r, b)) \/ Ask(r) \/ GiveUp(r)

Loop ==
  \/ \E S \in Rounds : LoopStep(Begin(S))
  \/ \E b \in Backends : LoopStep(ProbeEnds(b)) \/ Fold(b)
  \/ LoopStep(StopLoop)
  \/ Publish

Process ==
  \/ Bind \/ ListenFails \/ Signal \/ SignalSeen \/ ErrorSeen \/ Drained \/ DrainTimeout
  \/ Exited

Next == Serve \/ StopOwner \/ Loop \/ Process \/ \E r \in Requests : Handler(r)

Spec == Init /\ [][Next]_vars

\* The goroutines run, and the timers of Render and of Shutdown fire.  Nothing is
\* assumed of how long a chat or an audio request takes: they may be streams.
Fairness ==
  /\ WF_vars(Serve) /\ WF_vars(SignalSeen) /\ WF_vars(Drained) /\ WF_vars(DrainTimeout)
  /\ \A r \in Requests :
       /\ WF_vars(Record(r)) /\ WF_vars(Leave(r)) /\ WF_vars(Ask(r) \/ GiveUp(r))
       /\ \A b \in Backends : WF_vars(Refresh(r, b))

FairSpec == Spec /\ Fairness

------------------------------------------------------------------------------
(***************************************************************************)
(* Properties.                                                             *)
(***************************************************************************)
\* What may wait in the channel.
Ops == [op : {"count"}, of : Counters, by : {1, -1}]
         \cup [op : {"health"}, of : Backends, by : {0, 1}]
         \cup [op : {"scrape"}, of : Requests, by : {0}]

\* Where a request of a kind may be.
Stages(k) ==
  CASE k = "chat"   -> {"absent", "reading", "calling", "ending", "leaving", "done"}
    [] k = "audio"  -> {"absent", "relaying", "copying", "ending", "leaving", "done"}
    [] k = "scrape" -> {"absent", "refreshing", "waiting", "done"}
    [] OTHER        -> {"absent"}

LoopOK ==
  /\ known \subseteq Backends /\ rotation \subseteq known /\ round \subseteq Backends
  /\ waiting \subseteq round /\ heard \subseteq round \ waiting /\ folded \subseteq round \ waiting
  /\ stopped \in BOOLEAN /\ running \in BOOLEAN

MetricsOK ==
  /\ ops \in Seq(Ops) /\ Len(ops) <= QueueSize
  /\ owner \in {"serving", "stopped"}
  /\ counted \in [Counters -> Int] /\ dropped \in [Counters -> Int]
  /\ gauge \in [Backends -> -1..1]

HandlersOK ==
  /\ kind \in Mixes
  /\ pc \in [Requests -> UNION {Stages(k) : k \in Kinds}]
  /\ \A r \in Requests : pc[r] \in Stages(kind[r])
  /\ retries \in [Requests -> 0..Retries]
  /\ status \in [Requests -> Statuses] /\ wire \in [Requests -> Statuses \cup {0}]
  /\ hinted \in [Requests -> BOOLEAN]
  /\ todo \in [Requests -> SUBSET Backends] /\ view \in [Requests -> SUBSET Backends]
  /\ missed \in [Requests -> SUBSET Backends]
  /\ since \in [Requests -> [Backends -> SUBSET {0, 1}]]

ProcessOK ==
  /\ main \in {"serving", "draining", "exited"}
  /\ listener \in {"starting", "open", "shut", "unbound"}
  /\ failed \in BOOLEAN /\ exitCode \in {0, 1}

\* Shape of the state: what is waiting fits the channel, and every request is where
\* its kind can be.
TypeOK == LoopOK /\ MetricsOK /\ HandlersOK /\ ProcessOK

\* How often an operation waits in the channel, and what the channel holds for a
\* counter, which is only ever moved by one.
Pending(o) == Cardinality({i \in DOMAIN ops : ops[i] = o})
Queued(c)  == Pending(Update(c, 1)) - Pending(Update(c, -1))

Ended(s) == {r \in Requests : kind[r] # "scrape" /\ pc[r] \in {"leaving", "done"} /\ status[r] = s}

\* The failovers of all chats, each chat's numbered.
Failovers == {f \in Requests \X (1..Retries) : f[2] <= retries[f[1]]}

\* What really happened, as far as the metrics count it.
Truth(c) ==
  CASE c = Open     -> Cardinality(InFlight)
    [] c = Failover -> Cardinality(Failovers)
    [] OTHER        -> Cardinality(Ended(c[2]))

\* The in-flight gauge is the number of handlers that are running, every failover
\* is counted, and a request that ended has one record with its status, whatever
\* order updates are sent and applied in, a panic and an abort included: what the
\* owner has not counted yet is in the channel, or was dropped from a full one.
Accounted == \A c \in Counters : counted[c] + Queued(c) + dropped[c] = Truth(c)

\* The recorded status is the one the client was sent last; except that an
\* informational response to an audio request is recorded in its place, and that
\* a status net/http cannot write is recorded although nothing was sent.
StatusRecorded ==
  \A r \in Requests : kind[r] # "scrape" /\ pc[r] \in {"ending", "leaving"} =>
     \/ status[r] = wire[r]
     \/ hinted[r] /\ status[r] = 103
     \/ wire[r] = 0 /\ status[r] \notin 100..999

\* The health a page shows for a backend was the snapshot's, or about to be, at
\* some time since the scrape read the snapshot, or a scrape that overlaps with
\* it did: neither an older scrape nor an older round can overtake.  Only a
\* refresh dropped from a full channel leaves an older value.
PageFresh ==
  [][\A r \in Requests : pc[r] = "waiting" /\ pc'[r] = "done" =>
       \A b \in Backends \ missed[r] : gauge[b] \in since[r][b]]_vars

\* The exit code tells whether the process did what it was told: 0 only after a
\* signal and with no handler cut off, 1 only for a listener that failed or a
\* handler that had not returned.
ExitHonest ==
  [][main' = "exited" /\ Alive =>
       /\ exitCode' = 0 => ~running /\ Active = {}
       /\ exitCode' = 1 => failed \/ Active # {}]_vars

\* A scrape is answered for as long as the router runs, however full the channel.
ScrapeAnswered == \A r \in Requests : r \in Scraping ~> r \notin Scraping \/ ~running

\* docs/engineering/0015-code-style.md:88: every goroutine's lifetime is tied to a
\* context.  A scrape that waits for its page is woken by the owner only.
\* Refuted: the owner may return with the question still in its channel, and
\* Shutdown then waits for the scrape until it times out.
OwnerOutlivesScrapes == owner = "stopped" /\ Alive => \A r \in Requests : pc[r] # "waiting"
==============================================================================
