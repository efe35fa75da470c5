# Verification of simple-llm-router

TLA+ models of the router, the TLC runs that check them on small instances, and
proofs of their main theorems that TLAPS checks for every instance.  Paths are
relative to the repository's root; `proxy.go:43` is short for
`internal/router/proxy.go`, line 43.

## 1. The system

simple-llm-router is a Go process that accepts OpenAI and Anthropic chat
requests, resolves the requested model name to an ordered list of candidates (an
upstream model on a backend), and relays the answer of the first candidate that
gives one.  Nothing is persisted, and there are no locks: shared state is an
atomically replaced snapshot, atomic counters, and channels to owner goroutines.

| component | code | state it keeps | operations |
|---|---|---|---|
| health snapshot | `model/snapshot.go` | immutable: health, catalog, p50, load of each backend | read by every request and by the fleet endpoints |
| name resolution | `router/resolve.go`, `router/router.go` | the aliases, fixed | name to plan: alias, upstream id, 404 or 503 |
| selectors | `router/selector.go` | one rotation counter | order the healthy candidates: rotation, or tiers by cost |
| proxy strategy | `router/proxy.go` | per request: candidate, attempts, outcome | failover loop, unary and streaming handlers, native relay |
| fusion strategy | `router/fusion.go` | per request: panel answers | fan out to a panel, judge, synthesise |
| chat handler | `server/server.go` | per request: status, log record | decode, route, error envelope, recover, log |
| response sinks | `server/sink.go`, `server/anthropic.go` | wrote, buffered headers, stream position | commit a unary answer or a stream, frame events, terminate |
| outbound client | `backend/client.go`, `backend/anthropic.go` | in-flight gauge, idle timer | call with deadline, guarded body, Anthropic translation |
| health loop | `backend/health.go` | latency windows, suspect channel | probe all on a tick, probe one on suspicion, fold, publish |
| content model, translation | `model/content.go`, `server/anthropic.go`, `backend/anthropic.go` | none | request to canonical form and on to the provider's, answer back |
| metrics owner | `observability/metrics.go` | counters and gauges, one channel | record, scrape |
| audio passthrough | `server/audio.go` | per request: recorded status | reverse proxy to one gateway, record, leave the gauge |
| lifecycle | `cmd/router/main.go` | root context, listener | start loops, drain on a signal, exit code |
| configuration | `config/config.go` | none after load | defaults, validation |
| auth, logging | `server/auth.go`, `observability/log.go` | none | compare a token, format a record |

How they interact:

- a request goes through the chat handler, `Route`, a strategy, a client and a sink
  in one goroutine of its own, and reads the snapshot twice (in `Route` and in
  `Execute`);
- the strategy tells the health loop of a failed candidate by a non-blocking send on
  the suspect channel; the health loop samples the clients' gauges when it probes;
- requests meet in the rotation counter, the gauges, the suspect channel and the
  metrics channel only;
- a client that hangs up cancels its request's context, the signal handler the root
  context, which ends the health loop and the metrics owner.

What is hard, and what has to be right for each component:

- *proxy, handler, sink, client*: write-once commit and no failover after it;
  every slot released on every path, a panic included; an attempt budget; the
  client's departure told apart from a backend's failure; headers of the candidate
  that answered; a 502 only when nothing was left; every request ends;
- *selectors*: the rotation spreads requests; pareto tiers never mix;
- *health loop*: select among tick, suspects and cancellation; a bounded channel
  that drops; the rotation converges; a failed probe keeps the catalog; the latency
  signal is a median of recent samples;
- *fusion*: partial failure of the panel, one snapshot for a long workflow;
- *streams*: terminators, truncation, the idle timer;
- *translation*: nothing that both protocols can say is lost on the way there or back;
- *metrics, lifecycle*: dropped updates, an owner that stops before its clients, gauges
  refreshed from two sides, an exit code that tells the truth;
- *configuration*: whatever passes validation can be served.

`PROJECT.json` lists these hazards with their lines and the properties that cover them.

## 2. Modules

| module | models | main correspondence |
|---|---|---|
| `Fleet` | the snapshot | a snapshot is a total function: a missing map entry reads like an unhealthy backend everywhere |
| `Selection` | resolution and order of candidates | `Plans` = `resolve`; `Fit` = `filterHealthy`; `Precedes` says which of two candidates comes first |
| `Config` | the file: defaults, validation, conversion to plans and councils | operators only: `WithDefaults` = `applyDefaults`, `Accepted` = `Load`, `PlanOf` = `toAlias` and `resolveAlias` |
| `Ascending` | what loops over slices make, without recursion | `Kept`: a loop that appends what passes a test; `Listed`: nested loops, and a stable sort |
| `Pinning` | the choice of a backend per role of a fusion | `Pick` = `pickHealthyBackend` |
| `Selectors` | from the file to the order in which a request tries its candidates | `Load`, `Request`, then `Filter`, `Rotate`, `Rank`, `PreferSameProtocol`, on slices of positions |
| `Proxy` | the request path, any number of concurrent requests | one action per stretch of code between two points where a goroutine meets shared state, its upstream or its client |
| `ResponseContract` | what the failover engine promises a client | each candidate called at most once, within the budget; one answer, by the latest candidate or by the router; no call after it |
| `Stream` | one streaming call after its response header: body, reader, relay, sink | one action per read, per record relayed, and per way the loop ends |
| `EventStream` | what a translated stream promises an SDK | opened once, pieces, terminated once and last if the client stays |
| `Translation` | the content of a unary call through the adapters of both sides | one action per stage: `Decode`, `Forward`, `Answer`, `Reply` |
| `Fusion` | a fusion request | one action per call that starts or ends, and per result collected |
| `Monitor` | the health loop | one action per case of `select`, per probe that ends, and for the publication of a round |
| `HealthLoop` | what the health loop promises the rest of the router | rounds: begin, probes that end, decide about exactly those asked |
| `Service` | the process: handlers of chats, audio and scrapes, the metrics owner, the promised health loop, listener, signal and exit | one action per operation on the metrics channel, the snapshot or the root context |
| `Ascending_proofs`, `Selectors_proofs`, `Proxy_proofs`, `Monitor_proofs`, `Fusion_proofs`, `Stream_proofs`, `Service_proofs`, `Translation_proofs` | their theorems | section 5 |
| `MCProxy`, `MCProxyPair`, `MCSelectors`, `MCStream`, `MCTranslation`, `MCFusion`, `MCMonitor`, `MCService` | instances for TLC | section 3 |

Three of these compose components.  `Selectors` runs a configuration through validation,
resolution and selection.  `Service` runs the handlers, the owner and the process's life
against `HealthLoop`, which `Monitor` is shown to implement, so that what `Service` relies
on is what the loop does.  `Proxy` uses `Selection`, and implements `ResponseContract`.

### Proxy

`pc[r]` is the point of `handleChat`/`Route`/`Execute` a request is at (the list is in
the module's header).  `route` holds the plan, the second snapshot and the turn of the
rotation, from which the order of candidates follows, so the ordered slice itself
is not part of the state; `Selectors`, and `SliceWalked` in section 5, justify that.  `tried` are the positions dispatched,
`reported` those passed to `Suspect`, `hdr` the candidate in the sink's buffered
headers, `wire` the response heads that reached the client, each with the candidate
its headers name and the candidate its body is from.  `inFlight` is the clients'
gauge, taken in `Dispatch` (`acquire`) and given back by `Release`.

| code | actions |
|---|---|
| `handleChat` up to `Route` | `Accept`, `Reject` |
| `Route`, `resolve` | `Resolve`, `Unresolved` |
| `Execute` before the loop | `Select`, `NoneHealthy` |
| head of the loop | `Dispatch`, `StopCancelled`, `Exhausted` |
| `Chat` returns | `CallFails`, `Unavailable`, `Answer`, `OpenStream` |
| response handlers | `ReadFails`, `Relay`, `RelayPanics`, `StreamEnds` |
| `handleChat` after `Route`, deferred calls | `Finish` |
| the world | `Publish` (health loop), `Cancel` (client hangs up) |

The native relay differs from the translated one in the bytes it sends, not in its
control, and shares these actions.  Three classes of body are told apart: unary,
stream and error envelope.  Left out: the failure to encode an outbound body
(`proxy.go:116`), which cannot happen for a body that was decoded; and a write to a client that
neither accepts bytes nor goes away (the server sets no write timeout).

### Stream

What `Proxy` takes for one step, `StreamEnds`, in detail.  A stream goes one of three
ways: as raw bytes (Anthropic to Anthropic), through the SSE scanner, or through the
reader that translates an Anthropic provider's events and then through the scanner.  `sent` is what
was read off the upstream, `queue` what the body reader returned and the loop has not
looked at, `wire` what the client received; each record has a number, and an event
carries the number of the record it is made from.  A client that leaves is first
`left` (writes may fail) and then `noticed` (the request context is done, which
cancels the call).

| code | actions |
|---|---|
| `StartStream`, `StartRawStream` | `Start` |
| `guardedBody.Read`, `anthropicStreamReader.Read` | `Read`, then `Receive` or `BodyEnds` |
| `idleTimer` | `IdleFires`, at any time during a read, even one that returns a record |
| `relayStream` | `Skip`, `Relay`, `Finish` |
| `relayRawStream` | `RelayRaw`, `FinishRaw` |
| error answers | `RelayError` |

The scanner passes on the part of a record that arrived before the body ended (kind
`cut`), the reader drops it.  A read of several records at once behaves like several
reads of one.  A record that lacks only its blank line is relayed by the scanner like a complete
one, and dropped by the reader like a cut one.  Left out: an Anthropic provider that answers a 2xx
other than 200, whose events `chatAnthropic` would pass on untranslated.

### Translation

A text is a sequence of pieces, of which one is the line break; a content is a string, a list
of parts or blocks, or null.  The operators follow the functions of both adapters:

| code | operators |
|---|---|
| `Content.Text` | `TextOf` |
| `parseAnthropicRequest`, `translateAnthropicBlock` | `FromAnthropic`, `PartOf`, `URLOf` |
| `openAIToAnthropicRequest`, `anthropicContent`, `parseDataURL` | `ToAnthropic`, `Hoisted`, `BlocksOf`, `SourcesOf` |
| `buildFusionBody` | `Body` |
| `anthropicToOpenAIResponse`, `anthropicStopToOpenAIFinish` | `CompletionOf`, `FinishOf` |
| `translateCompletionToAnthropic`, `openAIFinishToAnthropicStop`, `anthropicErrorBody` | `MessageOf`, `StopOf`, `ErrorOf` |

Sampling parameters, usage and identifiers are copied without being looked at; usage stands
for them.  A fusion role is asked with the consumer's messages; the prompts that the judge and
the synthesis get on top are wording.

### Config and Selectors

A file is a record of what YAML decoding left, with `""` and `0` for what is not set.  The
addresses' syntax, keys and the API version are reduced to whether they pass.  Left out are the
durations and sizes, the bind address and the expansion of environment variables: `validate`
does not look at them (an expansion that leaves a token empty is `blankToken`).
`FileType` is what a file may look like; of the words in it only those are told apart that the
router tells apart.  `Selectors` starts the program with each file, resolves a request for each proxy alias and
orders its candidates with the slices of the code.

### Fusion

`seat` are the panelists' goroutines, `results` the buffered channel they report on,
`collected` what `runPanel` received, `answers` what the judge is given.  `Resolve` and
`Unresolved` are `resolveFusion`; `Ask` to `PanelistAnswers` are `callUnary` in a panelist's
goroutine; `Collect`, `Convene` and `Adjourn` are `runPanel` and the quorum; `Judge` is
`runJudge`, after which it makes no difference whether it failed; the others are `runSynthesis` and the tail of
`handleChat`.  The synthesis's stream is one step, as in `Proxy`.  Left out: bodies that
cannot be built, which end as a failed call does.

### Monitor

The first round runs before the ticker exists (`phase = "boot"`).  A round probes its
`targets`; each probe's outcome is any the backend may produce while it is `up` or
down, or a failure by the cancelled root context.  `Publish` folds all results at
once, as `probeAll` and `probeOne` do.  `lost` is a history variable: backends whose
suspicion was dropped with no probe queued or running for them.  `HL` maps a round's
`targets` to `HealthLoop`'s round, and the probes of it that answered to `heard`.

### Service

`ops` is the metrics channel; an update that finds it full is dropped, and the
history variable `dropped` remembers it.  The owner applies one operation per step.

| code | actions |
|---|---|
| `Metrics.run` | `Serve`, `StopOwner` |
| `Metrics.RequestDone`, `IncFailover`, `AddInFlight`, `SetHealth`, `send` | `Tally` and `Send`, within the actions below |
| `handleChat`, `Execute` in outline | `ArriveChat`, `Reject`, `Refuse`, `Route`, `FailOver`, `Answer` |
| `audioHandler`, `statusRecorder` | `ArriveAudio`, `Hint`, `GatewayAnswers`, `GatewayFails`, `CopyEnds` |
| the deferred calls of both | `Record`, `Leave` |
| `handleMetrics`, `Render` | `ArriveScrape`, `Refresh`, `Ask`, `GiveUp` |
| `Monitor.fold` with its callback, `probeAll` | `Fold`, `Publish`; `Begin`, `ProbeEnds`, `StopLoop` of `HealthLoop` |
| `run` | `Bind`, `ListenFails`, `Signal`, `SignalSeen`, `ErrorSeen`, `Drained`, `DrainTimeout` |

After `Exit` the process is gone, and its state with it.  The counter of a request carries its
status only: backend and alias are labels, and the latency histogram takes the same path as
the counter.  `since` and `missed` are history variables for `PageFresh`.

## 3. Runs

| run | instance | shows |
|---|---|---|
| `proxy` | 1 request, 4 backends (one Anthropic), a rotation alias over all, a pareto alias with a pool of 4, upstream ids; 5 snapshots; statuses 99, 200, 201, 429, 503; budget 3 | the safety of a request, the contract, and that requests end |
| `proxy_pair` | 2 requests, 2 backends, a round-robin and a pareto alias and an upstream id, counter of width 4 | shared gauges and counter |
| `selectors` | 280 files over 3 backends, 72 of them accepted; requests for round-robin aliases and pools of 4, each backend down or with one of three loads; counter of width 4 | validation and resolution agree, and the slices come out sorted by `Precedes` |
| `stream` | all pairs of protocols, with and without idle timeout, answers and error answers; up to 3 records of 8 kinds and a cut one | content, order, framing and termination of streams, and that they end |
| `translation` | both protocols on both sides, either strategy; two messages and up to two more of the system's, a content of up to two parts of every kind, system text in every place; answers with every reason to stop | requests and answers arrive whole |
| `fusion` | 1 request, a council of 3 over 2 backends that share roles, quorum 1 or 2; 4 snapshots; statuses 99, 200, 429 | quorum, gauges, the one response, progress |
| `monitor` | 2 backends, buffer of 1, window of 2, 1 model | safety and liveness of the health loop, and that it implements `HealthLoop` |
| `service` | 1 backend, channel of 1; a chat, an audio request, or two scrapes; the signal, the listener's failure and both ends of the drain | the metrics' accounts, the scrape's page, the exit code |
| `rotation` (violation) | as `proxy_pair` | upstream ids are not spread |
| `truncated_stream` (violation) | as `stream`, idle timeout set | a broken stream ends like a complete one |
| `error_body` (violation) | as `truncated_stream` | an error body without idle timer |
| `shutdown_scrape` (violation) | as `service` | a scrape outlives the owner it waits for |

The properties:

- `InFlightAccounts`: the gauge equals the number of open calls;
- `SingleResponse`: one response head per request, and one for each that returned;
- `ProvenanceTruthful`: the headers name the candidate whose body follows;
- `FailoverBudget`: attempts and failovers counted exactly, within the budget, healthy candidates only;
- `BlameExactly`: suspicion of exactly the candidates the loop gave up on;
- `RefusalJustified`: 502, 503, 404 only when nothing was left to try;
- `LoggedStatusSent`: the logged status is the one sent (a stream opened on another 2xx than 200 excepted);
- `AfterHangUp`: no call and no suspicion after the client left;
- `AnswersOnce`: `Proxy` implements `ResponseContract`;
- `AliasRotationSpreads`: no two requests take the same turn of the rotation, and successive turns
  of an alias start with different candidates, which are at different backends unless the alias lists one twice;
- `RequestsEnd`: a unary request ends, and one whose client left;
- `SortedByPrecedence`: the selectors' slices are sorted by `Precedes`;
- `ConfigServes`: each candidate and each backend of a role in an accepted file can serve when
  it alone is up, and no file is refused for its aliases unless one could not;
- `SameProtocolVerbatim`: between equal protocols every record arrives, in order and once;
- `TextFaithful`: across protocols the text does;
- `StopReasonFaithful`: an Anthropic client is told the last finish reason;
- `KeepsGrammar`: `Stream` implements `EventStream`;
- `StreamsEnd`: a stalled stream ends by its idle timer, and one whose client left ends;
- `RequestFaithful`: the upstream is sent every word, image, turn and limit that it has a form for;
- `ReplyFaithful`: the client is told the answer's words, why it ended, its cost, or its error;
- `GaugesExact`: the gauge equals the calls open to a backend, none of a panelist after the panel;
- `QuorumRespected`: the judge gets all answers, in panel order, and at least the quorum;
- `OnlySynthesisShown`: the client sees the synthesis or a justified 502 or 503;
- `PanelConcludes`: panelists and judge cannot hold a request;
- `MedianOfWindow`: the latency signal is the median of the last probes that answered;
- `CatalogSurvives`: a failed probe keeps what is known of a backend's models;
- `LostIsMadeUpFor`: a backend whose suspicion was dropped is probed again;
- `RotationConverges`: what stays up joins the rotation for good, what stays down leaves it;
- `RoundsDecide`: `Monitor` implements `HealthLoop`;
- `Accounted`: what a counter or the in-flight gauge says, with what is queued for it and what
  was dropped, is what happened;
- `StatusRecorded`: the recorded status is the one sent, with the two exceptions of section 4;
- `PageFresh`: the health a page shows is not older than the scrape, or one it overlaps with;
- `ExitHonest`: the exit code is 0 only after a signal and a complete drain, 1 only after a failure;
- `ScrapeAnswered`: a scrape returns while the router runs.

**Bounds.**  Requests interact only through the gauges, the counter and the snapshot,
and each request's own history depends only on the snapshots it reads; so one request with
every plan, and two requests with few, cover the interactions, and the proofs lift
both bounds.  Four candidates exceed the budget of three by one.  99 stands for the
statuses that cannot be written, 429 for those relayed, 503 for the retryable ones,
201 for a 2xx that a stream turns into 200.  A counter of width 4 wraps in `selectors`.
Three records are two
pieces of text and a terminator, or two finish reasons with text between: the fewest that can be swapped,
lost or overwritten; only the sequence of kinds matters, and the relay keeps one
record at a time.  Three panelists can report in six orders, two of them share a
backend, and each quorum is both reached and missed.  A buffer of one name is full after one suspicion, and a window of two samples slides
and has both an odd and an even median; one latency is enough for the run, because the proof of
`MedianOfWindow` holds for all of them.  A metrics channel of one operation is full after each;
updates of other requests meet a request's own in that channel only, where those of
the health loop compete with it already, and two scrapes can overtake each other.
In `selectors` most files vary one part at a time, in and out of what
is valid; `b3` plays the backend that is not defined, speaks an unknown protocol or lacks its key.
Two parts in a content are the fewest that can be reordered or merged.  `SYMMETRY` is used
in `proxy_pair` only, which has no liveness property.

**Fairness.**  In `Proxy`: weak fairness of what a goroutine does on its own (Go schedules
it), of the deadline that `requestContext` gives to a unary call, and of the abort of
whatever a cancelled request waits for.  Nothing is assumed of upstreams, of
streams, which have no deadline, or of clients.  The deadline needs a positive
`timeouts.request`, which is the default.  In `Stream`: weak fairness of the goroutine, of the idle timer (if
`timeouts.idle` is positive and the body has one), of net/http noticing that a client left, and
of the return of a read whose context is done; an upstream may be silent forever, but
sends finitely many records.  In `Fusion`: as in `Proxy`, with the deadline of
panelists and judge whatever the client asked for.  In `Monitor`: weak fairness of the ticker, of the probes
(each has a timeout) and of publication, and strong fairness of each case of
`select`, which chooses at random among the cases that are ready.  In `Service`: weak fairness of the
owner, of the deferred calls, of the steps of a scrape and the timer of its question, of the
main goroutine's wait for a signal, and of the end of the drain, which has a timeout; nothing is
assumed of how long a chat or an audio request takes, or that a listener fails or a signal comes.

## 4. Findings

- `selector.go:29` says that successive requests start at different backends.  For an
  upstream id the candidates are listed in the order of a map (`snapshot.go:59`), anew
  for each request: run `rotation` shows two successive turns that start at the same backend.
- `docs/engineering/0015-code-style.md:88` ties every goroutine's lifetime to a context.
  Run `shutdown_scrape`: the owner returns on the root context with a scrape's question in
  its channel, and the scrape waits for a reply that nobody sends (`metrics.go:132`), so that the
  drain lasts until `shutdownTimeout` and the exit code is 1.
- `docs/engineering/0007-streaming.md:84` says that a mid-stream failure of the backend
  reaches the client.  Run `truncated_stream`: the upstream breaks off, and the client receives
  the terminators of a complete answer.  On the raw path it does not.
- `client.go:203` says that streaming calls rely on the idle timeout applied to the body.
  Run `error_body`: the body of an Anthropic provider's error answer has none.

Seen while modelling, and stated by no doc to be otherwise (or, for the second, made up for):

- a probe that the root context cancels publishes its backend as down, so that a request that
  is draining may be refused with 503;
- `health.go:61` takes a dropped suspicion to be covered by a pending probe; the channel may
  be full of other backends' names, and only the next tick makes up for it (`LostIsMadeUpFor`);
- a listener that fails at the moment a signal arrives may go unnoticed, and the exit code is 0;
- an informational response of the audio gateway is recorded in place of the final status, and
  so is a status that net/http then refuses to write (`audio.go:165`);
- a list that names a backend twice passes validation, and then successive turns of the rotation may
  start at the same backend;
- a negative duration passes validation, and `NewTicker` panics on it (`config.go:197`);
- a `data:` URL without its base64 mark is sent to an Anthropic provider as base64 (`anthropic.go:235`);
- a fusion pins its backends once: a synthesis backend that goes down during the panel costs
  the request a 502 although another could serve.

## 5. Proofs

TLAPS proves the following for every value of the constants that satisfies the modules'
assumptions: finite sets of backends and requests, well-typed inputs, plans, councils,
snapshots and files, positive bounds (`FleetAssumption`, `SelectionAssumption`,
`ProxyAssumption`, `MonitorAssumption`, `FusionAssumption`, `StreamAssumption`,
`ServiceAssumption`, `SelectorsAssumption`, `TranslationAssumption`).  One theorem has a hypothesis of its own,
named there.

| invariant or property of a run | proved in, as |
|---|---|
| `Proxy`: `TypeOK`, `InFlightAccounts`, `SingleResponse`, `FailoverBudget`, `ProvenanceTruthful`, `BlameExactly`, `RefusalJustified`, `LoggedStatusSent`, `AfterHangUp`, `AnswersOnce` | `Proxy_proofs`: `TypeCorrect` to `KeepsContract` |
| `Proxy`: `AliasRotationSpreads` | `Proxy_proofs`: `TurnsKeptApart` |
| `Selectors`: `TypeOK`, `SortedByPrecedence`, `ConfigServes` | `Selectors_proofs`: `SliceWhole`, `SlicesSorted`, `FilesServe` |
| `Monitor`: `TypeOK`, `MedianOfWindow`, `CatalogSurvives`, `RoundsDecide` | `Monitor_proofs`: `TypeCorrect`, `SignalIsMedian`, `CatalogKept`, `KeepsPromise` |
| `Fusion`: `TypeOK`, `GaugesExact`, `QuorumRespected`, `OnlySynthesisShown` | `Fusion_proofs`: `TypeCorrect`, `GaugesRight`, `QuorumKept`, `OneAnswer` |
| `Stream`: `TypeOK`, `SameProtocolVerbatim`, `TextFaithful`, `StopReasonFaithful`, `KeepsGrammar` | `Stream_proofs`: `TypeCorrect`, `Verbatim`, `TextDelivered`, `StopReasonKept`, `GrammarKept` |
| `Translation`: `RequestFaithful`, `ReplyFaithful` | `Translation_proofs`: `RequestKept`, `ReplyKept` |
| `Service`: `TypeOK`, `Accounted`, `StatusRecorded`, `PageFresh`, `ExitHonest` | `Service_proofs`: `TypeCorrect`, `AccountsKept`, `StatusKept`, `PagesFresh`, `ExitTold` |

**Ascending.**  The number of members up to one of them is its place; places are injective into as
many numbers, hence onto, so that the listing exists, and it is increasing (`AscendingLists`).  A
member beyond all others is appended (`AscendingAppends`), which is what a loop that counts upwards
does.  `KeptIs` and `ListedLists` say the same of a filter and of a listing by any total order.

**Selection.**  `Shift` is a distance modulo the number of survivors; `ShiftIs` and `DistanceIs` write it without
the modulus, from the survivors' places.  So different survivors are at different distances
and one is at distance zero, the one whose place the turn names.  `OneNext` (in `Proxy_proofs`): of any set of survivors exactly one
precedes all others.  The relation compares up to three scores (protocol and distance; tier, cost and
position), the last of which tells all survivors apart (`OneLeast`).

**Selectors.**  `SelectorsInv` says what the slice lists at each stage and in which order:
as configured after the filter, by `Shift` or by tier and cost when the selector returns, by `Precedes` at the end.
`ListsKept` and `ListsBoth` (a part of a sorted list is sorted; two of them one after the other are, if
all pairs across are) give the partitions of both selectors and of `preferSameProtocol`,
`RankByCostIs` the stable sort, `RotatedByIs` the rotation.  `AliasServes`: an alias passes validation
exactly if it is servable, by `EntryServes` for each entry, `PooledIs` for the candidates of a pool, and `PanelFull`
for a panel that is all up.  `FilesServe` follows from it and from the default protocol.

Two theorems tie this to the modules that are about one request.  `SliceWalked`: at every place of the ordered slice, what it lists
there is the only remaining survivor that precedes all others, and behind its end none remains; so `Proxy`, whose
`Dispatch` goes by the relation, tries the same candidates in the same order as the loop over the slice.  `AssumptionsMet`:
the aliases of an accepted file are plans and councils as `ProxyAssumption` and `FusionAssumption` ask for.

**Proxy.**  None of the invariants is inductive by itself: what
`Finish` writes depends on how `Execute` returned, and that on what the loop did
before.  `IInv` therefore adds to `TypeOK` and `InFlightAccounts`, for each request,

- `Stage`: for each `pc`, who was called, who was reported and what the client has so
  far (for example: while calling, all but the latest candidate are reported and nothing
  was sent; after a return, one of "relayed", "panicked", "aborted because the client
  left", "refused with nothing left");
- `Budget`: attempts are the size of `tried`, within the budget, healthy candidates only;
- `Placed`: positions are among those the contract quantifies over.

There is one lemma per action.  `Frame` says that a step of one request leaves the stage of
the others alone; `GaugeUp`, `GaugeDown` and `GaugeKept` relate the gauge to the number
of open calls.  The other invariants follow from `IInv`.  For the refinement each action
is a step of the contract (`Dispatch` calls, `OpenStream` and `Relay` commit, `Reject`
and `Finish` refuse or close) or a stutter.

`TurnsKeptApart` assumes that no more requests are made than the counter has values, 2^64: a wrapped counter
gives turns out again.  `RInv` is `Turns` and `Routed`: the age of each turn, that is how many were taken
after it, is less than the number of requests that took one, and ages differ; a request goes by
its alias's plan or by a direct one.  `SelectRaced`, which loses an increment of the counter between two
requests, breaks just that.  Successive turns differ modulo any number of survivors
but one (`Successive`), so that they name different places.  `NextCandidateKnown` is `OneNext` in every
reachable state: that `Dispatch` goes by a relation instead of the code's slice leaves
nothing open and never stops the loop.

**Monitor.**  `RankOnto`
shows that the ranks of a sequence's samples take every value, so that the median exists;
`MedianSplits` that it splits the samples as promised; the inductive invariant adds
that the published signal is the median of the current window.  The refinement needs one fact more,
that the first round is over every backend (`BootAll`): then `known` grows by the round's backends.
An empty fleet makes the publication of its round a stutter.  By this theorem what `Service` takes
for the health loop is met for every fleet, buffer and window.

**Fusion.**  `PickIs` and `PinnedPanelIs` say what the pinning returns: the first of the least loaded
hosts of each panelist that has one, in the council's order.  The inductive invariant consists of `TypeOK`,
which keeps the books of the result channel (`Tallied`: what is on it and what was collected
are the panelists that reported); `Gauged`, each gauge is the number of the finitely many open calls; and, per `pc`,
a `Stage` of the request: nothing was asked yet (`Fresh`), every panelist reported and enough answered (`Convened`)
or too few (`Adjourned`), the client has the head of the synthesis (`Shown`), the router owes it an error of a certain
status (`Owing`).  The judge's list is the answers in the council's order (`InOrder`), whatever the order they came in.

**Stream.**  The core of the inductive invariant is `ReceivedAsSent`, for the kinds of records that pass
through the call unharmed (`Followed`): what the client received of them is a prefix of what the upstream sent, and while
it is there, all of it but the one still queued.  The rest says what the queue can hold at each point of the loop (`Reading`),
that an error answer is buffered and another one streamed (`Split`), which events carry what to which consumer
(`Written`), and that the sink knows whether it opened the message and which finish reason came last (`Opened`, `Remembers`).
For the refinement, a payload's events and those that open the message are one step of `EventStream` (`Delivers`), or a stutter
when the client has left or the stream is passed through raw.

**Service.**  The core of the inductive invariant is `Fresh`, along the channel: once the owner has applied what is queued
before a scrape's question, each gauge that the scrape sent is one that its page may show.  `Asked` says that the channel holds the
question of each scrape that waits, once; `Shared` that what a scrape has still to send may be shown by all of them;
`Recording` that what a handler will record agrees with what its client was sent; `Draining` why the process drains.
`Accounted` counts places of the channel: one is added when an operation is sent, and when the owner takes the first, the others
are as many as before by a bijection that shifts them.

**Translation.**  Contents, conversations and answers have any length, so what the loops of the adapters return is known by
induction only.  The library's induction theorems take an operator; `SeqInduction` says the same of a set of
sequences (one that has the empty sequence and, with a sequence, each that is one longer, has them all) and follows from the least length of a
counterexample.  With it `FlattenAppends` and `CollectIs` say what a loop that appends something for each entry
returns, `CollectJoins` what it returns of two slices in a row, `CollectTwice` that two such loops in a row are one,
`CollectKept` the same for one behind a filter, and `KeptCollects` that a filter is one of these loops.

`CanonicalKeeps` and `AdaptedKeeps` are about one content: `PartOf` keeps the item of each block, `BlocksOf` drops just the
items that have no form at an Anthropic provider, so the loops do; and the line breaks that `Content.Text` and the hoisting put between texts are
no words of anyone (`WordsSeparated`, `WordsLines`).  `CanonicalRequest` and `AdaptedRequest` lift this to conversations, the second because
to filter the system's messages and to translate the others is one loop over all.  The inductive invariant is `RequestFaithful`, `ReplyFaithful`
and `Carried`: what is canonical is the translation of the call, and the answer is one of its provider.
`ForwardFaithful` puts the two translations one after the other, the fusion's body between them.  On the way back,
`CompletionSays` and `MessageSays` say that an answer's words, end and usage survive each translation, hence both (`ReplySays`).

Only model-checked:

- liveness (`RequestsEnd`, `StreamsEnd`, `PanelConcludes`, `LostIsMadeUpFor`, `RotationConverges`, `ScrapeAnswered`),
  which is out of the prover's reach;
- the instances' own definitions, and the four violations, which are about one behaviour each.

## 6. Not modelled, and what is left to prove

All of the program's control is modelled.  Left out:

- authentication (`server/auth.go`): a comparison of tokens, without state;
- logging (`observability/log.go`): formatting;
- the read-only endpoints of the fleet, the model list and readiness: they read one snapshot;
- the wording of prompts, records, error messages and of the Prometheus page;
- durations, sizes and the expansion of environment variables in the configuration: what a
  duration does in the models is that its timer fires or not;
- an Anthropic provider that answers a 2xx other than 200;
- evals and deployment.

What would repay a proof next: that `Service`'s outline of a request is one of `Proxy`, and that the streams `Stream` is
proved for are translated piece by piece as `Translation` translates a whole answer.
