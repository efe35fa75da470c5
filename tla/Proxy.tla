-------------------------------- MODULE Proxy --------------------------------
(***************************************************************************)
(* The request path of the router: handleChat (internal/server/server.go), *)
(* Route and resolve (internal/router), proxyStrategy.Execute with its     *)
(* failover loop and response handlers (internal/router/proxy.go), the     *)
(* response sinks' commit (internal/server/sink.go, anthropic.go) and the  *)
(* in-flight slot of the outbound client (internal/backend/client.go).     *)
(*                                                                         *)
(* Every request runs in its own goroutine.  A step below runs from one    *)
(* point where the goroutine meets shared state, the upstream or its       *)
(* client to the next; requests, the health loop and clients that hang up  *)
(* interleave between steps.                                               *)
(*                                                                         *)
(* pc[r]: idle       not yet accepted                                      *)
(*        routing    decoded; Route is about to read the health snapshot   *)
(*        selecting  plan made; Execute is about to read it again          *)
(*        trying     at the head of the candidate loop                     *)
(*        calling    be.Chat is waiting for the upstream's response header *)
(*        reading    header received, the body is being buffered           *)
(*        streaming  2xx stream committed, records are being relayed       *)
(*        returned   Execute returned; the tail of handleChat is next      *)
(*        done       the handler returned                                  *)
(***************************************************************************)
EXTENDS Selection

CONSTANTS Requests,          \* the chat requests of the run
          Inputs,            \* what a client may ask for
          Snapshots,         \* what the health loop may publish
          UpstreamStatuses,  \* statuses an upstream may answer
          MaxAttempts,       \* maxAttempts, 3 in the code
          CounterWidth       \* 2^64 in the code: the rotation counter wraps

Input == [model    : DOMAIN Aliases \cup Models,  \* an alias name or an upstream id
          consumer : Protocols,
          stream   : BOOLEAN,
          override : Int]     \* plugins.pareto.min_quality; -1 when absent

ASSUME ProxyAssumption ==
  /\ Inputs \subseteq Input
  /\ Snapshots \subseteq Snapshot
  /\ \A a \in DOMAIN Aliases : Aliases[a] \in Plan /\ ~Aliases[a].direct
  /\ UpstreamStatuses \subseteq Nat
  /\ MaxAttempts \in Nat \ {0}
  /\ CounterWidth \in Nat \ {0}
  /\ IsFiniteSet(Requests)

VARIABLES snap,       \* the published health snapshot
          counter,    \* roundRobinSelector.counter, shared by every request
          inFlight,   \* Client.inFlight of each backend
          pc,
          input,      \* what each client asks for
          cancelled,  \* the request context is done: the client hung up
          route,      \* plan, snapshot and rotation turn the request goes by
          tried,      \* positions of the plan dispatched so far
          outcome,    \* Outcome plus the error Execute returns
          resp,       \* status of the upstream response in hand, 0 for none
          hdr,        \* candidate in the sink's buffered X-Router-* headers
          wire,       \* response heads the client received
          reported,   \* positions whose backend was passed to Suspect
          logged      \* status of the request's log line, 0 before it

local  == <<pc, input, cancelled, route, tried, outcome, resp, hdr, wire, reported, logged>>
vars   == <<snap, counter, inFlight, local>>

------------------------------------------------------------------------------
\* A response head: its status, the candidate its X-Router-* headers name and
\* the candidate whose body follows; 0 stands for no header and for an error
\* envelope of the router's own.
RHead(st, h, from, k) == [status |-> st, hdr |-> h, from |-> from, kind |-> k]

NoOutcome == [cand |-> 0, sent |-> 0, failovers |-> 0, status |-> 0, err |-> "none"]
NoRoute   == [plan |-> NoPlan, view |-> EmptySnapshot, turn |-> 0]

CurrentBackend(r) == route[r].plan.cands[outcome[r].cand].backend

Retryable(st) == st \in {502, 503, 504}
Success(st)   == st \in 200..299
\* net/http panics on a status that is not three digits; the upstream's
\* status line may still carry one, such as 099.
Writable(st)  == st \in 100..999

\* sink.Wrote()
Wrote(r) == wire[r] # <<>>

Goto(r, l) == pc' = [pc EXCEPT ![r] = l]

\* Execute returns: e is "none", "api" for the router's own *APIError (whose
\* status is the outcome's) or "internal" for any other error.
Return(r, st, e) ==
  /\ Goto(r, "returned")
  /\ outcome' = [outcome EXCEPT ![r].status = st, ![r].err = e]

\* Mutant: the error path and the deferred cleanup both release the slot.
ReleaseTwice(r) == inFlight' = [inFlight EXCEPT ![CurrentBackend(r)] = @ - 2]

\* Mutant: the gauge is reset instead of decremented.
ReleaseAll(r) == inFlight' = [inFlight EXCEPT ![CurrentBackend(r)] = 0]

\* The client's one-shot release of the slot that Dispatch took.
Release(r) == inFlight' = [inFlight EXCEPT ![CurrentBackend(r)] = @ - 1]

------------------------------------------------------------------------------
Init ==
  /\ snap = EmptySnapshot
  /\ counter = 0
  /\ inFlight = [b \in Backends |-> 0]
  /\ pc = [r \in Requests |-> "idle"]
  /\ input \in [Requests -> Inputs]
  /\ cancelled = [r \in Requests |-> FALSE]
  /\ route = [r \in Requests |-> NoRoute]
  /\ tried = [r \in Requests |-> {}]
  /\ outcome = [r \in Requests |-> NoOutcome]
  /\ resp = [r \in Requests |-> 0]
  /\ hdr = [r \in Requests |-> 0]
  /\ wire = [r \in Requests |-> <<>>]
  /\ reported = [r \in Requests |-> {}]
  /\ logged = [r \in Requests |-> 0]

\* The health loop publishes a snapshot.
Publish ==
  /\ snap' \in Snapshots
  /\ UNCHANGED <<counter, inFlight, local>>

\* The client hangs up, at any time before the handler returns.
Cancel(r) ==
  /\ pc[r] \notin {"idle", "done"}
  /\ cancelled' = [cancelled EXCEPT ![r] = TRUE]
  /\ UNCHANGED <<snap, counter, inFlight, pc, input, route, tried, outcome, resp, hdr, wire,
                 reported, logged>>

\* The body was read and decoded.
Accept(r) ==
  /\ pc[r] = "idle"
  /\ Goto(r, "routing")
  /\ UNCHANGED <<snap, counter, inFlight, input, cancelled, route, tried, outcome, resp, hdr,
                 wire, reported, logged>>

\* The body is too large, or cannot be read or decoded: an envelope, no sink.
Reject(r) ==
  /\ pc[r] = "idle"
  /\ Goto(r, "done")
  /\ \E st \in {400, 413} :
       /\ wire' = [wire EXCEPT ![r] = Append(@, RHead(st, 0, 0, "envelope"))]
       /\ logged' = [logged EXCEPT ![r] = st]
  /\ UNCHANGED <<snap, counter, inFlight, input, cancelled, route, tried, outcome, resp, hdr,
                 reported>>

------------------------------------------------------------------------------
\* Route reads the snapshot and makes the plan.
Resolve(r) ==
  /\ pc[r] = "routing"
  /\ \E p \in Plans(snap, input[r].model) : route' = [route EXCEPT ![r].plan = p]
  /\ Goto(r, "selecting")
  /\ UNCHANGED <<snap, counter, inFlight, input, cancelled, tried, outcome, resp, hdr, wire,
                 reported, logged>>

\* Neither an alias nor an id a healthy backend serves: 503 when a backend that
\* is down lists the id, else 404.
Unresolved(r) ==
  /\ pc[r] = "routing"
  /\ Plans(snap, input[r].model) = {}
  /\ Return(r, IF AnyAdvertises(snap, input[r].model) THEN 503 ELSE 404, "api")
  /\ UNCHANGED <<snap, counter, inFlight, input, cancelled, route, tried, resp, hdr, wire,
                 reported, logged>>

\* Mutant: the counter is loaded and stored instead of added to, so that an
\* increment is lost between two requests.
SelectRaced(r) ==
  /\ pc[r] = "selecting"
  /\ Fit(snap, route[r].plan) # {}
  /\ route' = [route EXCEPT ![r].view = snap, ![r].turn = counter]
  /\ counter' = IF route[r].plan.selector = "round_robin"
                   /\ \A q \in Requests \ {r} : pc[q] # "selecting"
                THEN (counter + 1) % CounterWidth ELSE counter
  /\ Goto(r, "trying")
  /\ UNCHANGED <<snap, inFlight, input, cancelled, tried, outcome, resp, hdr, wire, reported,
                 logged>>

\* Execute reads the snapshot again and orders the candidates by it.  Only a
\* rotation over at least one healthy candidate takes a turn of the counter.
Select(r) ==
  /\ pc[r] = "selecting"
  /\ Fit(snap, route[r].plan) # {}
  /\ route' = [route EXCEPT ![r].view = snap, ![r].turn = counter]
  /\ counter' = IF route[r].plan.selector = "round_robin"
                THEN (counter + 1) % CounterWidth ELSE counter
  /\ Goto(r, "trying")
  /\ UNCHANGED <<snap, inFlight, input, cancelled, tried, outcome, resp, hdr, wire, reported,
                 logged>>

\* No candidate is healthy.
NoneHealthy(r) ==
  /\ pc[r] = "selecting"
  /\ Fit(snap, route[r].plan) = {}
  /\ route' = [route EXCEPT ![r].view = snap]
  /\ Return(r, 503, "api")
  /\ UNCHANGED <<snap, counter, inFlight, input, cancelled, tried, resp, hdr, wire, reported,
                 logged>>

------------------------------------------------------------------------------
\* The candidates the loop has not reached.
Todo(r) == Fit(route[r].view, route[r].plan) \ tried[r]

\* Candidate i comes before every other one the loop has not reached.
IsNextCandidate(r, i) ==
  /\ i \in Todo(r)
  /\ \A j \in Todo(r) \ {i} :
       Precedes(route[r].view, route[r].plan, route[r].turn, input[r].consumer,
                input[r].override, i, j)

\* Mutant: the budget test is off by one.
DispatchOneMore(r) ==
  /\ pc[r] = "trying"
  /\ outcome[r].sent <= MaxAttempts
  /\ ~cancelled[r]
  /\ \E i \in Todo(r) :
       /\ IsNextCandidate(r, i)
       /\ outcome' = [outcome EXCEPT ![r].cand = i,
                                     ![r].sent = @ + 1,
                                     ![r].failovers = IF outcome[r].sent > 0 THEN @ + 1 ELSE @]
       /\ tried' = [tried EXCEPT ![r] = @ \cup {i}]
       /\ inFlight' = [inFlight EXCEPT ![route[r].plan.cands[i].backend] = @ + 1]
  /\ Goto(r, "calling")
  /\ UNCHANGED <<snap, counter, input, cancelled, route, resp, hdr, wire, reported, logged>>

\* Take the next candidate and send it the request.
Dispatch(r) ==
  /\ pc[r] = "trying"
  /\ outcome[r].sent < MaxAttempts
  /\ ~cancelled[r]
  /\ \E i \in Todo(r) :
       /\ IsNextCandidate(r, i)
       /\ outcome' = [outcome EXCEPT ![r].cand = i,
                                     ![r].sent = @ + 1,
                                     ![r].failovers = IF outcome[r].sent > 0 THEN @ + 1 ELSE @]
       /\ tried' = [tried EXCEPT ![r] = @ \cup {i}]
       /\ inFlight' = [inFlight EXCEPT ![route[r].plan.cands[i].backend] = @ + 1]
  /\ Goto(r, "calling")
  /\ UNCHANGED <<snap, counter, input, cancelled, route, resp, hdr, wire, reported, logged>>

\* The client is gone before the next dispatch.
StopCancelled(r) ==
  /\ pc[r] = "trying"
  /\ outcome[r].sent < MaxAttempts
  /\ Todo(r) # {}
  /\ cancelled[r]
  /\ Return(r, outcome[r].status, "internal")
  /\ UNCHANGED <<snap, counter, inFlight, input, cancelled, route, tried, resp, hdr, wire,
                 reported, logged>>

\* Mutant: the loop gives up one attempt early.
ExhaustedEarly(r) ==
  /\ pc[r] = "trying"
  /\ Todo(r) = {} \/ outcome[r].sent >= MaxAttempts - 1
  /\ Return(r, 502, "api")
  /\ UNCHANGED <<snap, counter, inFlight, input, cancelled, route, tried, resp, hdr, wire,
                 reported, logged>>

\* Every candidate, or the budget of attempts, is used up.
Exhausted(r) ==
  /\ pc[r] = "trying"
  /\ Todo(r) = {} \/ outcome[r].sent = MaxAttempts
  /\ Return(r, 502, "api")
  /\ UNCHANGED <<snap, counter, inFlight, input, cancelled, route, tried, resp, hdr, wire,
                 reported, logged>>

\* Mutant: the backend is reported before the client's context is looked at.
FailOverBlames(r) ==
  /\ reported' = [reported EXCEPT ![r] = @ \cup {outcome[r].cand}]
  /\ IF cancelled[r]
     THEN Return(r, outcome[r].status, "internal")
     ELSE Goto(r, "trying") /\ UNCHANGED outcome

\* A retryable failure before any byte reached the client: unless the client
\* caused it by hanging up, the backend becomes a suspect and the loop goes on.
FailOver(r) ==
  \/ /\ cancelled[r]
     /\ Return(r, outcome[r].status, "internal")
     /\ UNCHANGED reported
  \/ /\ ~cancelled[r]
     /\ reported' = [reported EXCEPT ![r] = @ \cup {outcome[r].cand}]
     /\ Goto(r, "trying")
     /\ UNCHANGED outcome

\* Mutant: a transport error is not reported, only a 502/503/504 is.
CallFailsUnreported(r) ==
  /\ pc[r] = "calling"
  /\ Release(r)
  /\ Goto(r, "trying")
  /\ UNCHANGED <<snap, counter, input, cancelled, route, tried, outcome, resp, hdr, wire,
                 reported, logged>>

\* No response header: refused, reset, deadline, or the client hung up.
CallFails(r) ==
  /\ pc[r] = "calling"
  /\ Release(r)
  /\ FailOver(r)
  /\ UNCHANGED <<snap, counter, input, cancelled, route, tried, resp, hdr, wire, logged>>

\* Mutant: the first candidate's headers stick.
BufferHeadersOnce(r) == hdr' = IF hdr[r] = 0 THEN [hdr EXCEPT ![r] = outcome[r].cand] ELSE hdr

\* SetHeader happens for every response, whatever becomes of it.
BufferHeaders(r) == hdr' = [hdr EXCEPT ![r] = outcome[r].cand]

\* The upstream answers 502, 503 or 504: its body is closed unread.
Unavailable(r) ==
  /\ pc[r] = "calling"
  /\ \E st \in UpstreamStatuses : Retryable(st)
  /\ BufferHeaders(r)
  /\ Release(r)
  /\ FailOver(r)
  /\ UNCHANGED <<snap, counter, input, cancelled, route, tried, resp, wire, logged>>

\* Any other status whose body has to be read before it is relayed.
Answer(r) ==
  /\ pc[r] = "calling"
  /\ \E st \in UpstreamStatuses :
       /\ ~Retryable(st)
       /\ ~(input[r].stream /\ Success(st))
       /\ resp' = [resp EXCEPT ![r] = st]
  /\ BufferHeaders(r)
  /\ Goto(r, "reading")
  /\ UNCHANGED <<snap, counter, inFlight, input, cancelled, route, tried, outcome, wire,
                 reported, logged>>

\* A 2xx to a streaming request commits the stream: StartStream writes 200,
\* whatever the upstream's status was, with the headers buffered so far.
OpenStream(r) ==
  /\ pc[r] = "calling"
  /\ input[r].stream
  /\ \E st \in UpstreamStatuses :
       /\ Success(st)
       /\ resp' = [resp EXCEPT ![r] = st]
       /\ outcome' = [outcome EXCEPT ![r].status = st]
  /\ BufferHeaders(r)
  /\ wire' = [wire EXCEPT ![r] = Append(@, RHead(200, hdr'[r], outcome[r].cand, "stream"))]
  /\ Goto(r, "streaming")
  /\ UNCHANGED <<snap, counter, inFlight, input, cancelled, route, tried, reported, logged>>

\* The body of a unary answer is cut short; nothing was relayed yet.  (Of an
\* error answer to a streaming request whatever arrived is relayed: Relay.)
ReadFails(r) ==
  /\ pc[r] = "reading"
  /\ ~input[r].stream
  /\ resp' = [resp EXCEPT ![r] = 0]
  /\ Release(r)
  /\ FailOver(r)
  /\ UNCHANGED <<snap, counter, input, cancelled, route, tried, hdr, wire, logged>>

\* WriteResponse: the head goes out with the buffered headers; writing the
\* body to the client may fail.
Relay(r) ==
  /\ pc[r] = "reading"
  /\ Writable(resp[r])
  /\ wire' = [wire EXCEPT ![r] = Append(@, RHead(resp[r], hdr[r], outcome[r].cand, "unary"))]
  /\ \E e \in {"none", "internal"} : Return(r, resp[r], e)
  /\ resp' = [resp EXCEPT ![r] = 0]
  /\ Release(r)
  /\ UNCHANGED <<snap, counter, input, cancelled, route, tried, hdr, reported, logged>>

\* WriteHeader panics on the status: the deferred Close runs, Route never
\* returns an outcome, and handleChat's recover takes over.
RelayPanics(r) ==
  /\ pc[r] = "reading"
  /\ ~Writable(resp[r])
  /\ Return(r, 0, "panic")
  /\ resp' = [resp EXCEPT ![r] = 0]
  /\ Release(r)
  /\ UNCHANGED <<snap, counter, input, cancelled, route, tried, hdr, wire, reported, logged>>

\* Mutant: a stream that breaks off is retried on the next candidate.
StreamFailsOver(r) ==
  /\ pc[r] = "streaming"
  /\ \/ Return(r, outcome[r].status, "none") /\ UNCHANGED reported
     \/ FailOver(r)
  /\ resp' = [resp EXCEPT ![r] = 0]
  /\ Release(r)
  /\ UNCHANGED <<snap, counter, input, cancelled, route, tried, hdr, wire, logged>>

\* The stream is over: end of the upstream's stream or its [DONE], an upstream
\* that breaks off or goes idle, a client that hangs up or cannot be written to.
\* Whatever it was, it is too late to fail over.
StreamEnds(r) ==
  /\ pc[r] = "streaming"
  /\ \E e \in {"none", "internal"} : Return(r, outcome[r].status, e)
  /\ resp' = [resp EXCEPT ![r] = 0]
  /\ Release(r)
  /\ UNCHANGED <<snap, counter, input, cancelled, route, tried, hdr, wire, reported, logged>>

------------------------------------------------------------------------------
\* Mutant: an error overrides the status even of a committed response.
FinalStatusOverridden(r) ==
  IF outcome[r].err = "panic" THEN 500
  ELSE IF outcome[r].err = "internal" THEN 502
  ELSE outcome[r].status

\* The status handleChat ends up with, for the log line and for an envelope.
FinalStatus(r) ==
  LET o == outcome[r]
  IN IF o.err = "panic" THEN 500
     ELSE IF o.err = "internal" /\ ~Wrote(r) THEN 502
     ELSE IF o.status # 0 THEN o.status
     ELSE 200

\* Mutant: the envelope is written without asking the sink.
FinishUnguarded(r) ==
  /\ pc[r] = "returned"
  /\ wire' = IF outcome[r].err # "none"
             THEN [wire EXCEPT ![r] = Append(@, RHead(FinalStatus(r), 0, 0, "envelope"))]
             ELSE wire
  /\ logged' = [logged EXCEPT ![r] = FinalStatus(r)]
  /\ Goto(r, "done")
  /\ UNCHANGED <<snap, counter, inFlight, input, cancelled, route, tried, outcome, resp, hdr,
                 reported>>

\* The tail of handleChat and its deferred calls: an error becomes an envelope
\* if, and only if, nothing reached the client.  The headers a panicking
\* WriteHeader left behind go out with the 500.
Finish(r) ==
  /\ pc[r] = "returned"
  /\ wire' = IF outcome[r].err # "none" /\ ~Wrote(r)
             THEN [wire EXCEPT ![r] = Append(@,
                     RHead(FinalStatus(r), IF outcome[r].err = "panic" THEN hdr[r] ELSE 0, 0,
                           "envelope"))]
             ELSE wire
  /\ logged' = [logged EXCEPT ![r] = FinalStatus(r)]
  /\ Goto(r, "done")
  /\ UNCHANGED <<snap, counter, inFlight, input, cancelled, route, tried, outcome, resp, hdr,
                 reported>>

------------------------------------------------------------------------------
\* What the goroutine does on its own: Go schedules it.
Own(r) == \/ Resolve(r) \/ Unresolved(r) \/ Select(r) \/ NoneHealthy(r) \/ Dispatch(r)
          \/ StopCancelled(r) \/ Exhausted(r) \/ RelayPanics(r) \/ Finish(r)

\* What the upstream does, or does not do.
Upstream(r) == \/ CallFails(r) \/ Unavailable(r) \/ Answer(r) \/ OpenStream(r) \/ ReadFails(r)
               \/ Relay(r) \/ StreamEnds(r)

Client(r) == Accept(r) \/ Reject(r) \/ Cancel(r)

Next == Publish \/ \E r \in Requests : Own(r) \/ Upstream(r) \/ Client(r)

Spec == Init /\ [][Next]_vars

\* Mutant: the deadline is given to streaming calls only.
DeadlineOnStreams(r) == input[r].stream /\ (CallFails(r) \/ ReadFails(r))

\* The deadline of requestContext ends a unary call that is not answered.
Deadline(r) == ~input[r].stream /\ (CallFails(r) \/ ReadFails(r))

\* A client that hangs up cancels the call context of whatever is under way.
Abort(r) == cancelled[r] /\ (CallFails(r) \/ ReadFails(r) \/ Relay(r) \/ StreamEnds(r))

\* Nothing is assumed of the upstream: only goroutines, deadlines and
\* cancelled contexts make progress.
Fairness == \A r \in Requests : WF_vars(Own(r)) /\ WF_vars(Deadline(r)) /\ WF_vars(Abort(r))

FairSpec == Spec /\ Fairness

------------------------------------------------------------------------------
(***************************************************************************)
(* Properties.                                                             *)
(***************************************************************************)
Routes == [plan : Plan, view : Snapshot, turn : 0..(CounterWidth - 1)]

PCs == {"idle", "routing", "selecting", "trying", "calling", "reading", "streaming", "returned",
        "done"}

Outcomes == [cand : Nat, sent : 0..MaxAttempts, failovers : Nat, status : Nat,
             err : {"none", "api", "internal", "panic"}]

Heads == [status : Nat, hdr : Nat, from : Nat, kind : {"unary", "stream", "envelope"}]

\* Shape of the state.
TypeOK ==
  /\ snap \in Snapshot
  /\ counter \in 0..(CounterWidth - 1)
  /\ inFlight \in [Backends -> Nat]
  /\ pc \in [Requests -> PCs]
  /\ input \in [Requests -> Inputs]
  /\ cancelled \in [Requests -> BOOLEAN]
  /\ route \in [Requests -> Routes]
  /\ tried \in [Requests -> SUBSET Nat]
  /\ reported \in [Requests -> SUBSET Nat]
  /\ outcome \in [Requests -> Outcomes]
  /\ resp \in [Requests -> Nat]
  /\ hdr \in [Requests -> Nat]
  /\ wire \in [Requests -> Seq(Heads)]
  /\ logged \in [Requests -> Nat]
  /\ \A r \in Requests : reported[r] \subseteq tried[r] /\ tried[r] \subseteq DOMAIN route[r].plan.cands

Open(r) == pc[r] \in {"calling", "reading", "streaming"}

\* The in-flight gauge of a backend, which pareto and fusion read as load, is
\* the number of calls open to it: no return path leaks a slot or frees one
\* twice.
InFlightAccounts ==
  \A b \in Backends :
    inFlight[b] = Cardinality({r \in Requests : Open(r) /\ CurrentBackend(r) = b})

\* A client gets one response head, and every handler that returned sent one:
\* a committed stream that fails is not followed by an error envelope.
SingleResponse ==
  \A r \in Requests : Len(wire[r]) <= 1 /\ (pc[r] = "done" => Len(wire[r]) = 1)

\* The X-Router-Model and X-Router-Backend headers on a relayed response name
\* the candidate whose body it carries, however many candidates set them
\* before; an envelope carries a stale candidate only through the panic path.
ProvenanceTruthful ==
  \A r \in Requests : \A k \in DOMAIN wire[r] :
    LET h == wire[r][k]
    IN IF h.kind = "envelope" THEN h.from = 0 /\ (h.hdr # 0 => h.status = 500)
       ELSE h.hdr = h.from /\ h.from \in tried[r]

\* The attempts counted are candidates tried, within the budget, and each one
\* after the first was counted as a failover.
FailoverBudget ==
  \A r \in Requests :
    /\ outcome[r].sent = Cardinality(tried[r])
    /\ outcome[r].sent <= MaxAttempts
    /\ outcome[r].failovers = IF tried[r] = {} THEN 0 ELSE outcome[r].sent - 1
    /\ tried[r] \subseteq Fit(route[r].view, route[r].plan)

\* Suspicion is earned: every candidate the loop moved on from is reported,
\* one that is being called or whose response reached the client never is.
BlameExactly ==
  \A r \in Requests :
    /\ tried[r] \ reported[r] \subseteq {outcome[r].cand}
    /\ pc[r] = "trying" \/ outcome[r].err = "api" => reported[r] = tried[r]
    /\ Open(r) \/ (\E k \in DOMAIN wire[r] : wire[r][k].from # 0) =>
         outcome[r].cand \notin reported[r]

\* A 502 from the router means that every healthy candidate, or as many as the
\* budget allows, failed, unless the client left; a 503 that none was healthy.
RefusalJustified ==
  \A r \in Requests : \A k \in DOMAIN wire[r] :
    LET h   == wire[r][k]
        fit == Fit(route[r].view, route[r].plan)
    IN h.kind = "envelope" =>
         /\ h.status = 502 /\ ~cancelled[r] =>
              reported[r] = tried[r] /\ (tried[r] = fit \/ outcome[r].sent = MaxAttempts)
         /\ h.status = 503 => fit = {}
         /\ h.status \in {404, 413, 400} => tried[r] = {}

\* The status in the log line is the one the client received, but for a stream
\* opened on a 2xx other than 200.
LoggedStatusSent ==
  \A r \in Requests :
    pc[r] = "done" => LET h == wire[r][1]
                      IN logged[r] = h.status \/ (h.kind = "stream" /\ Success(logged[r]))

\* The request took a turn of the rotation: some candidate was healthy.
Rotated(r) == route[r].plan.selector = "round_robin" /\ Fit(route[r].view, route[r].plan) # {}

\* The backends a request could start at.
Hosts(r) == {route[r].plan.cands[i].backend : i \in Fit(route[r].view, route[r].plan)}

\* Two requests for the same name, for which the same backends, all of one
\* protocol, were healthy, took successive turns.
TookTurns(r, q) ==
  /\ input[r].model = input[q].model
  /\ Hosts(r) = Hosts(q)
  /\ Cardinality(Hosts(r)) > 1
  /\ Cardinality({ProtocolOf[b] : b \in Hosts(r)}) = 1
  /\ route[q].turn = route[r].turn + 1

\* The candidate a request starts with.
First(r) == CHOOSE i \in Fit(route[r].view, route[r].plan) :
              \A j \in Fit(route[r].view, route[r].plan) \ {i} :
                Precedes(route[r].view, route[r].plan, route[r].turn, input[r].consumer,
                         input[r].override, i, j)

FirstBackend(r) == route[r].plan.cands[First(r)].backend

\* No two candidates of the request are on one backend.
OnePerHost(r) ==
  \A i, j \in Fit(route[r].view, route[r].plan) :
    route[r].plan.cands[i].backend = route[r].plan.cands[j].backend => i = j

\* Concurrent requests take different turns of the rotation.  Successive turns
\* of an alias start with different candidates, and so at different backends
\* unless the alias lists a backend twice.
AliasRotationSpreads ==
  \A r, q \in Requests :
    Rotated(r) /\ Rotated(q) /\ r # q =>
      /\ route[r].turn # route[q].turn
      /\ ~route[r].plan.direct /\ TookTurns(r, q) =>
           /\ First(r) # First(q)
           /\ OnePerHost(r) => FirstBackend(r) # FirstBackend(q)

\* The same of requests for an upstream id, as the comment of the selector
\* says of every request: refuted, since resolveDirect lists the backends in
\* the order of a map.
DirectRotationSpreads ==
  \A r, q \in Requests :
    Rotated(r) /\ Rotated(q) /\ route[r].plan.direct /\ TookTurns(r, q) =>
      FirstBackend(r) # FirstBackend(q)

\* Once the client is gone nobody is called for it and nobody is blamed for it.
AfterHangUp ==
  [][\A r \in Requests :
       cancelled[r] => tried'[r] = tried[r] /\ reported'[r] = reported[r]]_vars

\* The failover engine keeps the contract of ResponseContract.
Positions == 1..Cardinality(Backends) \cup UNION {DOMAIN Aliases[a].cands : a \in DOMAIN Aliases}

Calls   == [r \in Requests |-> outcome[r].sent]
Latest  == [r \in Requests |-> outcome[r].cand]
Answers == [r \in Requests |-> [k \in DOMAIN wire[r] |-> wire[r][k].from]]
Closed  == [r \in Requests |-> pc[r] = "done"]

RC == INSTANCE ResponseContract WITH
        Candidates <- Positions, Budget <- MaxAttempts,
        called <- tried, calls <- Calls, latest <- Latest, answer <- Answers, closed <- Closed

AnswersOnce == RC!Contract

\* The handler returns.  A unary request is answered even if no upstream ever
\* answers: the deadline of each call and the attempt budget see to it.  And
\* whatever a request waits for, a stream too, it ends once the client is gone:
\* no goroutine outlives its client.
RequestsEnd ==
  \A r \in Requests :
    (pc[r] = "routing" /\ ~input[r].stream) \/ cancelled[r] ~> pc[r] = "done"
==============================================================================
