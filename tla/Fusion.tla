-------------------------------- MODULE Fusion --------------------------------
(***************************************************************************)
(* The fusion strategy (internal/router/fusion.go): a panel of concurrent  *)
(* calls whose answers are collected over a buffered channel, a judge that *)
(* may fail, and a synthesis that is the only thing the client sees; with  *)
(* the pinning of a backend per role (Pinning) before it and the tail of   *)
(* handleChat after it.                                                    *)
(*                                                                         *)
(* pc[r]: idle           not yet resolved                                  *)
(*        panel          Execute waits for the panelists' results          *)
(*        judging        waiting for the judge's answer                    *)
(*        synthesizing   at be.Chat of the synthesis                       *)
(*        calling        waiting for its response header                   *)
(*        reading        its body is being buffered                        *)
(*        streaming      its records are being relayed                     *)
(*        returned       Execute returned                                  *)
(*        done           the handler returned                              *)
(* seat[r][i]: ready, calling or sent, the goroutine of the i-th panelist. *)
(***************************************************************************)
EXTENDS Pinning

CONSTANTS Requests,
          Councils,          \* the fusion aliases, see Council
          Snapshots,         \* what the health loop may publish
          UpstreamStatuses   \* statuses an upstream may answer

ASSUME FusionAssumption ==
  /\ Councils \subseteq Council
  /\ Snapshots \subseteq Snapshot
  /\ UpstreamStatuses \subseteq Nat
  /\ IsFiniteSet(Requests)

VARIABLES snap,       \* the published health snapshot
          inFlight,   \* Client.inFlight of each backend
          pc,
          council,    \* the alias asked for
          stream,     \* the client asked for a stream
          cancelled,  \* the request context is done
          pinned,     \* backend of each panelist, of the judge and of the synthesis
          seat,       \* the panelists' goroutines
          results,    \* the channel they send on: panelist and success
          collected,  \* results received so far, and the answers among them
          answers,    \* what the judge is given: panelists, in this order
          resp,       \* status of the synthesis response in hand, 0 for none
          outcome,    \* status and error that Execute returns
          wire        \* response heads the client received

panelVars == <<seat, results, collected, answers>>
vars == <<snap, inFlight, pc, council, stream, cancelled, pinned, panelVars, resp, outcome, wire>>

------------------------------------------------------------------------------
Success(st)  == st \in 200..299
Writable(st) == st \in 100..999   \* net/http panics on any other

Unpinned == [panel |-> <<>>, judge |-> {}, synthesis |-> {}]
Pending  == [count |-> 0, texts |-> {}]

Panel(r) == DOMAIN pinned[r].panel

Goto(r, l) == pc' = [pc EXCEPT ![r] = l]

Return(r, st, e) ==
  /\ Goto(r, "returned")
  /\ outcome' = [outcome EXCEPT ![r] = [status |-> st, err |-> e]]

Acquire(b) == inFlight' = [inFlight EXCEPT ![b] = @ + 1]

\* Mutant: the error path and the deferred cleanup both release the slot.
ReleaseTwice(b) == inFlight' = [inFlight EXCEPT ![b] = @ - 2]

Release(b) == inFlight' = [inFlight EXCEPT ![b] = @ - 1]

------------------------------------------------------------------------------
Init ==
  /\ snap = EmptySnapshot
  /\ inFlight = [b \in Backends |-> 0]
  /\ pc = [r \in Requests |-> "idle"]
  /\ council \in [Requests -> Councils]
  /\ stream \in [Requests -> BOOLEAN]
  /\ cancelled = [r \in Requests |-> FALSE]
  /\ pinned = [r \in Requests |-> Unpinned]
  /\ seat = [r \in Requests |-> <<>>]
  /\ results = [r \in Requests |-> <<>>]
  /\ collected = [r \in Requests |-> Pending]
  /\ answers = [r \in Requests |-> <<>>]
  /\ resp = [r \in Requests |-> 0]
  /\ outcome = [r \in Requests |-> [status |-> 0, err |-> "none"]]
  /\ wire = [r \in Requests |-> <<>>]

Publish ==
  /\ snap' \in Snapshots
  /\ UNCHANGED <<inFlight, pc, council, stream, cancelled, pinned, panelVars, resp, outcome, wire>>

Cancel(r) ==
  /\ pc[r] \notin {"idle", "done"} /\ ~cancelled[r]
  /\ cancelled' = [cancelled EXCEPT ![r] = TRUE]
  /\ UNCHANGED <<snap, inFlight, pc, council, stream, pinned, panelVars, resp, outcome, wire>>

\* resolveFusion: every role is pinned by one snapshot, and Execute starts the
\* panelists.
Resolve(r) ==
  /\ pc[r] = "idle"
  /\ LET c     == council[r]
         panel == PinnedPanel(snap, c.panel)
     IN /\ panel # <<>> /\ Healthy(snap, c.judge) # {} /\ Healthy(snap, c.synthesis) # {}
        /\ pinned' = [pinned EXCEPT ![r] = [panel     |-> panel,
                                            judge     |-> Pick(snap, c.judge),
                                            synthesis |-> Pick(snap, c.synthesis)]]
        /\ seat' = [seat EXCEPT ![r] = [i \in DOMAIN panel |-> "ready"]]
  /\ Goto(r, "panel")
  /\ UNCHANGED <<snap, inFlight, council, stream, cancelled, results, collected, answers, resp,
                 outcome, wire>>

\* A role that has no healthy backend, or a panel without any.
Unresolved(r) ==
  /\ pc[r] = "idle"
  /\ LET c == council[r]
     IN \/ PinnedPanel(snap, c.panel) = <<>>
        \/ Healthy(snap, c.judge) = {} \/ Healthy(snap, c.synthesis) = {}
  /\ Return(r, 503, "api")
  /\ UNCHANGED <<snap, inFlight, council, stream, cancelled, pinned, panelVars, resp, wire>>

------------------------------------------------------------------------------
\* A panelist sends its request.
Ask(r, i) ==
  /\ seat[r][i] = "ready"
  /\ seat' = [seat EXCEPT ![r][i] = "calling"]
  /\ Acquire(pinned[r].panel[i])
  /\ UNCHANGED <<snap, pc, council, stream, cancelled, pinned, results, collected, answers, resp,
                 outcome, wire>>

\* Its goroutine reports on the channel, which has room for all of them.
Report(r, i, ok) ==
  /\ seat[r][i] = "calling"
  /\ seat' = [seat EXCEPT ![r][i] = "sent"]
  /\ results' = [results EXCEPT ![r] = Append(@, [panelist |-> i, ok |-> ok])]
  /\ UNCHANGED <<snap, pc, council, stream, cancelled, pinned, collected, answers, resp, outcome,
                 wire>>

\* No response header, or a body that is cut short.
PanelistFails(r, i) == Report(r, i, FALSE) /\ Release(pinned[r].panel[i])

\* Mutant: a refusal returns before the body's Close is deferred.
PanelistRefusedUnclosed(r, i) ==
  /\ Report(r, i, FALSE)
  /\ \E st \in UpstreamStatuses : ~Success(st)
  /\ UNCHANGED inFlight

\* A status other than 2xx: the body is closed unread.
PanelistRefused(r, i) ==
  /\ Report(r, i, FALSE)
  /\ \E st \in UpstreamStatuses : ~Success(st)
  /\ Release(pinned[r].panel[i])

\* A 2xx, with an answer or with an empty one, which does not count.
PanelistAnswers(r, i) ==
  /\ \E text \in BOOLEAN : Report(r, i, text)
  /\ \E st \in UpstreamStatuses : Success(st)
  /\ Release(pinned[r].panel[i])

\* runPanel receives a result; each has its panelist's place.
Collect(r) ==
  /\ pc[r] = "panel" /\ results[r] # <<>>
  /\ LET result == Head(results[r])
     IN collected' = [collected EXCEPT ![r] =
                        [count |-> @.count + 1,
                         texts |-> IF result.ok THEN @.texts \cup {result.panelist} ELSE @.texts]]
  /\ results' = [results EXCEPT ![r] = Tail(@)]
  /\ UNCHANGED <<snap, inFlight, pc, council, stream, cancelled, pinned, seat, answers, resp,
                 outcome, wire>>

\* Mutant: runPanel goes on as soon as the quorum has answered.
AllCollectedQuorum(r) == Cardinality(collected[r].texts) >= council[r].minPanel

AllCollected(r) == collected[r].count = Cardinality(Panel(r))

\* The answers in panel order.
InOrder(r) == Ascending(collected[r].texts)

\* Enough of the panel answered: the judge is called.
Convene(r) ==
  /\ pc[r] = "panel" /\ AllCollected(r)
  /\ Len(InOrder(r)) >= council[r].minPanel
  /\ answers' = [answers EXCEPT ![r] = InOrder(r)]
  /\ Acquire(pinned[r].judge)
  /\ Goto(r, "judging")
  /\ UNCHANGED <<snap, council, stream, cancelled, pinned, seat, results, collected, resp,
                 outcome, wire>>

\* Too few of them did.
Adjourn(r) ==
  /\ pc[r] = "panel" /\ AllCollected(r)
  /\ Len(InOrder(r)) < council[r].minPanel
  /\ Return(r, 502, "api")
  /\ UNCHANGED <<snap, inFlight, council, stream, cancelled, pinned, panelVars, resp, wire>>

\* The judge answers, refuses or fails: it goes on either way.
Judge(r) ==
  /\ pc[r] = "judging"
  /\ Release(pinned[r].judge)
  /\ Goto(r, "synthesizing")
  /\ UNCHANGED <<snap, council, stream, cancelled, pinned, panelVars, resp, outcome, wire>>

------------------------------------------------------------------------------
Synthesize(r) ==
  /\ pc[r] = "synthesizing"
  /\ Acquire(pinned[r].synthesis)
  /\ Goto(r, "calling")
  /\ UNCHANGED <<snap, council, stream, cancelled, pinned, panelVars, resp, outcome, wire>>

\* No response header, or a unary body that is cut short: there is no other
\* candidate.
SynthesisFails(r) ==
  /\ pc[r] = "calling" \/ (pc[r] = "reading" /\ ~stream[r])
  /\ Release(pinned[r].synthesis)
  /\ Return(r, 502, "api")
  /\ resp' = [resp EXCEPT ![r] = 0]
  /\ UNCHANGED <<snap, council, stream, cancelled, pinned, panelVars, wire>>

\* A body that is read before it is relayed: a unary answer, and whatever is
\* not a 2xx, retryable statuses too.
Answer(r) ==
  /\ pc[r] = "calling"
  /\ \E st \in UpstreamStatuses :
       ~(stream[r] /\ Success(st)) /\ resp' = [resp EXCEPT ![r] = st]
  /\ Goto(r, "reading")
  /\ UNCHANGED <<snap, inFlight, council, stream, cancelled, pinned, panelVars, outcome, wire>>

\* A head on the wire: its status, and the backend named in its headers.
FHead(st, b) == [status |-> st, from |-> b]

OpenStream(r) ==
  /\ pc[r] = "calling" /\ stream[r]
  /\ \E st \in UpstreamStatuses : Success(st) /\ resp' = [resp EXCEPT ![r] = st]
  /\ wire' = [wire EXCEPT ![r] = Append(@, FHead(200, pinned[r].synthesis))]
  /\ Goto(r, "streaming")
  /\ UNCHANGED <<snap, inFlight, council, stream, cancelled, pinned, panelVars, outcome>>

\* WriteResponse: writing the body may fail.
Relay(r) ==
  /\ pc[r] = "reading" /\ Writable(resp[r])
  /\ wire' = [wire EXCEPT ![r] = Append(@, FHead(resp[r], pinned[r].synthesis))]
  /\ \E e \in {"none", "internal"} : Return(r, resp[r], e)
  /\ resp' = [resp EXCEPT ![r] = 0]
  /\ Release(pinned[r].synthesis)
  /\ UNCHANGED <<snap, council, stream, cancelled, pinned, panelVars>>

\* WriteHeader panics; the deferred Close runs.
RelayPanics(r) ==
  /\ pc[r] = "reading" /\ ~Writable(resp[r])
  /\ Return(r, 0, "panic")
  /\ resp' = [resp EXCEPT ![r] = 0]
  /\ Release(pinned[r].synthesis)
  /\ UNCHANGED <<snap, council, stream, cancelled, pinned, panelVars, wire>>

StreamEnds(r) ==
  /\ pc[r] = "streaming"
  /\ \E e \in {"none", "internal"} : Return(r, resp[r], e)
  /\ resp' = [resp EXCEPT ![r] = 0]
  /\ Release(pinned[r].synthesis)
  /\ UNCHANGED <<snap, council, stream, cancelled, pinned, panelVars, wire>>

\* Mutant: the envelope is written without asking the sink.
FinishUnguarded(r) ==
  /\ pc[r] = "returned"
  /\ wire' = IF outcome[r].err # "none"
             THEN [wire EXCEPT ![r] = Append(@, FHead(502, {}))] ELSE wire
  /\ Goto(r, "done")
  /\ UNCHANGED <<snap, inFlight, council, stream, cancelled, pinned, panelVars, resp, outcome>>

\* The tail of handleChat: an envelope if nothing reached the client.
Finish(r) ==
  /\ pc[r] = "returned"
  /\ wire' = IF outcome[r].err # "none" /\ wire[r] = <<>>
             THEN [wire EXCEPT ![r] =
                     Append(@, IF outcome[r].err = "panic" THEN FHead(500, pinned[r].synthesis)
                               ELSE FHead(outcome[r].status, {}))]
             ELSE wire
  /\ Goto(r, "done")
  /\ UNCHANGED <<snap, inFlight, council, stream, cancelled, pinned, panelVars, resp, outcome>>

------------------------------------------------------------------------------
Panelist(r, i) == PanelistFails(r, i) \/ PanelistRefused(r, i) \/ PanelistAnswers(r, i)

\* What the request's goroutines do on their own.
Own(r) == \/ Resolve(r) \/ Unresolved(r) \/ Collect(r) \/ Convene(r) \/ Adjourn(r)
          \/ Synthesize(r) \/ RelayPanics(r) \/ Finish(r)
          \/ \E i \in DOMAIN seat[r] : Ask(r, i)

\* What waits for an upstream.
Upstream(r) == \/ \E i \in DOMAIN seat[r] : Panelist(r, i)
               \/ Judge(r) \/ SynthesisFails(r) \/ Answer(r) \/ OpenStream(r) \/ Relay(r)
               \/ StreamEnds(r)

Next == Publish \/ \E r \in Requests : Own(r) \/ Upstream(r) \/ Cancel(r)

Spec == Init /\ [][Next]_vars

\* Mutant: no deadline for the internal calls of a streaming request.
InternalDeadlineUnary(r) ==
  /\ ~stream[r]
  /\ (\E i \in DOMAIN seat[r] : PanelistFails(r, i)) \/ Judge(r)

\* Panelists and judge are unary calls, with a deadline, whatever was asked.
InternalDeadline(r) == (\E i \in DOMAIN seat[r] : PanelistFails(r, i)) \/ Judge(r)

\* The synthesis has one when it is unary.
Deadline(r) == ~stream[r] /\ SynthesisFails(r)

\* A client that hangs up ends whatever its request waits for.
Abort(r) == cancelled[r] /\ (SynthesisFails(r) \/ Relay(r) \/ StreamEnds(r))

Fairness == \A r \in Requests :
              /\ WF_vars(Own(r)) /\ WF_vars(InternalDeadline(r))
              /\ WF_vars(Deadline(r)) /\ WF_vars(Abort(r))

FairSpec == Spec /\ Fairness

------------------------------------------------------------------------------
(***************************************************************************)
(* Properties.                                                             *)
(***************************************************************************)
Roles == [panel : Seq(Backends), judge : Backends, synthesis : Backends]

PCs      == {"idle", "panel", "judging", "synthesizing", "calling", "reading", "streaming",
             "returned", "done"}
Seats    == {"ready", "calling", "sent"}
Results  == [panelist : Nat, ok : BOOLEAN]
Tallies  == [count : Nat, texts : SUBSET Nat]
Outcomes == [status : Nat, err : {"none", "api", "internal", "panic"}]
Heads    == [status : Nat, from : Backends \cup {{}}]

\* The books of a panel: the channel holds what was reported and not collected.
Tallied(r) ==
  /\ DOMAIN seat[r] = Panel(r)
  /\ \A k \in DOMAIN results[r] : results[r][k].panelist \in Panel(r)
  /\ collected[r].texts \subseteq Panel(r)
  /\ \A k \in DOMAIN answers[r] : answers[r][k] \in Panel(r)
  /\ Len(results[r]) + collected[r].count =
       Cardinality({i \in Panel(r) : seat[r][i] = "sent"})

Typed ==
  /\ snap \in Snapshot
  /\ inFlight \in [Backends -> Nat]
  /\ pc \in [Requests -> PCs]
  /\ council \in [Requests -> Councils]
  /\ stream \in [Requests -> BOOLEAN]
  /\ cancelled \in [Requests -> BOOLEAN]
  /\ pinned \in [Requests -> Roles \cup {Unpinned}]
  /\ seat \in [Requests -> Seq(Seats)]
  /\ results \in [Requests -> Seq(Results)]
  /\ collected \in [Requests -> Tallies]
  /\ answers \in [Requests -> Seq(Nat)]
  /\ resp \in [Requests -> Nat]
  /\ outcome \in [Requests -> Outcomes]
  /\ wire \in [Requests -> Seq(Heads)]

\* Shape of the state; the channel never holds more than the panel sends.
TypeOK == Typed /\ \A r \in Requests : Tallied(r)

\* A call of r is open to b: that of its i-th panelist, or at place 0 that of
\* its judge or its synthesis.
CallOpen(r, i, b) ==
  \/ i \in Panel(r) /\ seat[r][i] = "calling" /\ pinned[r].panel[i] = b
  \/ i = 0 /\ pc[r] = "judging" /\ pinned[r].judge = b
  \/ i = 0 /\ pc[r] \in {"calling", "reading", "streaming"} /\ pinned[r].synthesis = b

OpenCalls(b) == {c \in Requests \X ({0} \cup UNION {Panel(q) : q \in Requests}) :
                   CallOpen(c[1], c[2], b)}

\* The gauge of a backend is the number of calls open to it, although a whole
\* panel of goroutines works on it at once, and no panelist's call is open
\* once Execute has gone on.
GaugesExact ==
  /\ \A b \in Backends : inFlight[b] = Cardinality(OpenCalls(b))
  /\ \A r \in Requests : (\E i \in Panel(r) : seat[r][i] = "calling") => pc[r] = "panel"

\* The judge and the synthesis are asked only after every panelist reported
\* and enough of them answered, and the judge is given their answers, all of
\* them, in panel order whatever the order they arrived in.
QuorumRespected ==
  \A r \in Requests :
    pc[r] \in {"judging", "synthesizing", "calling", "reading", "streaming"} =>
      /\ \A i \in Panel(r) : seat[r][i] = "sent"
      /\ {answers[r][k] : k \in DOMAIN answers[r]} = collected[r].texts
      /\ \A k, l \in DOMAIN answers[r] : k < l => answers[r][k] < answers[r][l]
      /\ Len(answers[r]) >= council[r].minPanel

\* The client gets one response: the synthesis, with the synthesis backend in
\* its headers, or the router's own, which is a 502 only if the panel lacked a
\* quorum or the synthesis was asked and failed.
OnlySynthesisShown ==
  \A r \in Requests :
    /\ Len(wire[r]) <= 1 /\ (pc[r] = "done" => Len(wire[r]) = 1)
    /\ \A k \in DOMAIN wire[r] :
         LET h == wire[r][k]
         IN \/ h.from = pinned[r].synthesis /\ Len(answers[r]) >= council[r].minPanel
            \/ h.from = {} /\ h.status = 503 /\ pinned[r] = Unpinned
            \/ /\ h.from = {} /\ h.status = 502
               /\ \/ Len(answers[r]) >= council[r].minPanel
                  \/ AllCollected(r) /\ Cardinality(collected[r].texts) < council[r].minPanel

\* A panel that never answers does not hold its request: it comes to the
\* synthesis or to an end.
PanelConcludes == \A r \in Requests : pc[r] = "panel" ~> pc[r] \in {"calling", "returned"}
==============================================================================
