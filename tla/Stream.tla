-------------------------------- MODULE Stream --------------------------------
(***************************************************************************)
(* One streaming call from the upstream's response header to the return of *)
(* the response handler: the body guarded by the idle timer                *)
(* (internal/backend/client.go), the reader that turns an Anthropic        *)
(* provider's events into OpenAI chunks (internal/backend/anthropic.go),   *)
(* relayStream and relayRawStream (internal/router/proxy.go), and the two  *)
(* sinks that frame events for the client (internal/server/sink.go,        *)
(* anthropic.go).  Proxy takes all of this for one step, StreamEnds.       *)
(*                                                                         *)
(* A record is what the upstream sends up to a blank line; what it says is *)
(* one of Kinds, in whichever protocol it is said:                         *)
(*   open   role chunk / message_start     text   content / text_delta     *)
(*   think  reasoning / thinking_delta     stop   finish_reason            *)
(*   done   [DONE] / message_stop          error  an error event           *)
(*   ping   a comment, or no data line     huge   longer than maxSSEToken  *)
(*   cut    what is left of a record when the body ends in the middle      *)
(*                                                                         *)
(* pc: answered   the response header is in hand                           *)
(*     relaying   in the relay loop, with what the body returned in queue  *)
(*     reading    blocked in Read, the idle timer armed                    *)
(*     buffering  blocked in ReadAll on an error answer                    *)
(*     ended      the handler returned                                     *)
(***************************************************************************)
EXTENDS Naturals, Sequences, Ascending

CONSTANTS Paths,       \* the calls to look at
          MaxRecords   \* bound on the records an upstream sends

Path == [consumer : {"openai", "anthropic"},
         provider : {"openai", "anthropic"},
         ok       : BOOLEAN,    \* the status is 200, else a non-2xx that is not retryable
         idle     : BOOLEAN]    \* timeouts.idle is positive

ASSUME StreamAssumption == Paths \subseteq Path /\ MaxRecords \in Nat \ {0}

VARIABLES path,
          pc,
          sent,       \* the records read off the upstream's body
          tail,       \* how that body ended: open, eof or error
          queue,      \* records the body reader returned and the loop has not seen
          idleFired,  \* the idle timer cancelled the call
          client,     \* here, left, or noticed: the request context is done
          started,    \* anthropicSink.started
          stop,       \* anthropicSink.stop: the record it is from, 0 for ""
          wire,       \* events the client received
          result      \* what the handler returned: none, ok or error

vars == <<path, pc, sent, tail, queue, idleFired, client, started, stop, wire, result>>

------------------------------------------------------------------------------
Kinds == {"open", "text", "think", "stop", "done", "error", "ping", "huge"}

\* The n-th record of the upstream; 0 is the [DONE] of the router's own reader.
Rec(k, n) == [kind |-> k, n |-> n]
Records   == [kind : Kinds \cup {"cut"}, n : Nat]

\* An event as the client's SDK sees it, and the record it carries, if any.
Event(name, n) == [name |-> name, n |-> n]

\* nativeRelayFor: Anthropic to Anthropic, bytes as they are.
Raw == path.consumer = "anthropic" /\ path.provider = "anthropic"

\* An Anthropic provider's 200 is read through anthropicStreamReader.
Translated == path.consumer = "openai" /\ path.provider = "anthropic"

\* The body has an idle timer: not that of an error answer to chatAnthropic.
HasIdleTimer == path.idle /\ (Translated => path.ok)

\* The call context is done: its reads fail, sooner or later.
Aborted == idleFired \/ client = "noticed"

\* handleEvent: the chunks that an Anthropic event becomes.
Translate(rec) == IF rec.kind \in {"error", "ping"} THEN <<>> ELSE <<rec>>

\* What reading one more record adds to the queue.
Returned(rec) == IF Translated THEN Translate(rec) ELSE <<rec>>

\* What the end of the body adds.  The scanner and the raw loop pass on what
\* arrived of the last record; the reader drops it and queues a [DONE],
\* whether the body ended or broke.

\* Mutant: the terminator is queued by message_stop and by the end of the body.
RemainderTwice(part) == IF Translated THEN <<Rec("done", 0), Rec("done", 0)>> ELSE part

\* Mutant: an error is looked at before the bytes that came with it.
RemainderDropped(part) == IF Translated THEN <<Rec("done", 0)>> ELSE <<>>

Remainder(part) == IF Translated THEN <<Rec("done", 0)>> ELSE part

------------------------------------------------------------------------------
\* The events of the Anthropic sink that open a message.
EmitStart == IF started THEN <<>>
             ELSE <<Event("message_start", 0), Event("content_block_start", 0)>>

\* Mutant: the chunk that opens the message is not looked at any further.
EventsOpeningOnly(rec) ==
  IF path.consumer = "openai" THEN <<Event("chunk", rec.n)>>
  ELSE IF rec.kind = "cut" THEN <<>>
  ELSE IF ~started THEN EmitStart
  ELSE IF rec.kind = "text" THEN <<Event("content_block_delta", rec.n)>> ELSE <<>>

\* WriteEvent of either sink.  The Anthropic one ignores what it cannot parse
\* and has no event for reasoning, finish reasons and errors.
Events(rec) ==
  IF path.consumer = "openai" THEN <<Event("chunk", rec.n)>>
  ELSE IF rec.kind = "cut" THEN <<>>
  ELSE EmitStart \o (IF rec.kind = "text" THEN <<Event("content_block_delta", rec.n)>> ELSE <<>>)

\* Mutant: a message that nothing was said in is closed without being opened.
TerminatorsUnopened ==
  IF path.consumer = "openai" THEN <<Event("[DONE]", 0)>>
  ELSE <<Event("content_block_stop", 0), Event("message_delta", stop), Event("message_stop", 0)>>

\* EndStream of either sink.
Terminators ==
  IF path.consumer = "openai" THEN <<Event("[DONE]", 0)>>
  ELSE EmitStart \o <<Event("content_block_stop", 0), Event("message_delta", stop),
                      Event("message_stop", 0)>>

\* Nothing that is written after the client left reaches it.
Received(es) == IF client = "here" THEN wire \o es ELSE wire

\* A write to a client that left fails unless it fits in a buffer.
WriteResults == IF client = "here" THEN {"ok"} ELSE {"ok", "error"}

Return(r) == pc' = "ended" /\ result' = r

------------------------------------------------------------------------------
Init ==
  /\ path \in Paths
  /\ pc = "answered"
  /\ sent = <<>>
  /\ tail = "open"
  /\ queue = <<>>
  /\ idleFired = FALSE
  /\ client = "here"
  /\ started = FALSE
  /\ stop = 0
  /\ wire = <<>>
  /\ result = "none"

\* StartStream or StartRawStream commit a 200; the body of an error answer
\* is buffered first.
Start ==
  /\ pc = "answered"
  /\ pc' = IF path.ok THEN "relaying" ELSE "buffering"
  /\ UNCHANGED <<path, sent, tail, queue, idleFired, client, started, stop, wire, result>>

\* The loop asks for more; the raw one looks at the request context first.
Read ==
  /\ pc = "relaying"
  /\ queue = <<>> /\ tail = "open"
  /\ ~(Raw /\ client = "noticed")
  /\ pc' = "reading"
  /\ UNCHANGED <<path, sent, tail, queue, idleFired, client, started, stop, wire, result>>

\* The upstream sends a record.  The timer may have fired just before, or may
\* still fire between the return of the read and its disarm.
Receive ==
  /\ pc = "reading"
  /\ Len(sent) < MaxRecords
  /\ \E k \in Kinds :
       LET rec == Rec(k, Len(sent) + 1)
       IN sent' = Append(sent, rec) /\ queue' = Returned(rec)
  /\ pc' = "relaying"
  /\ UNCHANGED <<path, tail, idleFired, client, started, stop, wire, result>>

\* The body ends, between records or within one: the upstream closes it or
\* breaks off, or the call was cancelled.
BodyEnds ==
  /\ pc = "reading"
  /\ tail' \in {"eof", "error"}
  /\ \E part \in {<<>>, <<Rec("cut", Len(sent) + 1)>>} :
       sent' = sent \o part /\ queue' = Remainder(part)
  /\ pc' = "relaying"
  /\ UNCHANGED <<path, idleFired, client, started, stop, wire, result>>

\* A read has been blocked for longer than the idle timeout.
IdleFires ==
  /\ HasIdleTimer
  /\ pc \in {"reading", "buffering"}
  /\ ~idleFired
  /\ idleFired' = TRUE
  /\ UNCHANGED <<path, pc, sent, tail, queue, client, started, stop, wire, result>>

\* The body of an error answer is relayed as far as it got.
RelayError ==
  /\ pc = "buffering"
  /\ \E r \in WriteResults : Return(r)
  /\ UNCHANGED <<path, sent, tail, queue, idleFired, client, started, stop, wire>>

------------------------------------------------------------------------------
\* A record without a data line.
Skip ==
  /\ pc = "relaying" /\ ~Raw /\ client # "noticed"
  /\ queue # <<>> /\ Head(queue).kind = "ping"
  /\ queue' = Tail(queue)
  /\ UNCHANGED <<path, pc, sent, tail, idleFired, client, started, stop, wire, result>>

\* Mutant: the first finish reason is kept.
StopOfFirst(rec) == IF rec.kind = "stop" /\ stop = 0 THEN rec.n ELSE stop

\* The finish reason the sink remembers.
StopOf(rec) == IF rec.kind = "stop" THEN rec.n ELSE stop

\* relayStream hands a payload to the sink.
Relay ==
  /\ pc = "relaying" /\ ~Raw /\ client # "noticed"
  /\ queue # <<>> /\ Head(queue).kind \notin {"ping", "done", "huge"}
  /\ queue' = Tail(queue)
  /\ wire' = Received(Events(Head(queue)))
  /\ started' = (started \/ Head(queue).kind # "cut")
  /\ stop' = StopOf(Head(queue))
  /\ \E r \in WriteResults : IF r = "ok" THEN UNCHANGED <<pc, result>> ELSE Return(r)
  /\ UNCHANGED <<path, sent, tail, idleFired, client>>

\* The scanner stopped with an error: the body's, or a record too long for it.
ScanFailed == IF queue = <<>> THEN tail = "error" ELSE Head(queue).kind = "huge"

\* The loop is over: the scanner stopped, the upstream's [DONE], or a client
\* that left.  Whatever it was, the stream is terminated.
Finish ==
  /\ pc = "relaying" /\ ~Raw
  /\ IF queue = <<>> THEN tail # "open"
     ELSE Head(queue).kind \in {"done", "huge"} \/ client = "noticed"
  /\ wire' = Received(Terminators)
  /\ \E r \in WriteResults :
       Return(IF ScanFailed /\ client # "noticed" THEN "error" ELSE r)
  /\ queue' = <<>>
  /\ UNCHANGED <<path, sent, tail, idleFired, client, started, stop>>

\* relayRawStream passes the bytes on.
RelayRaw ==
  /\ pc = "relaying" /\ Raw
  /\ queue # <<>>
  /\ queue' = Tail(queue)
  /\ wire' = Received(<<Event("raw", Head(queue).n)>>)
  /\ \E r \in WriteResults : IF r = "ok" THEN UNCHANGED <<pc, result>> ELSE Return(r)
  /\ UNCHANGED <<path, sent, tail, idleFired, client, started, stop>>

\* relayRawStream ends, and adds nothing.
FinishRaw ==
  /\ pc = "relaying" /\ Raw
  /\ queue = <<>>
  /\ tail # "open" \/ client = "noticed"
  /\ Return(IF tail = "error" /\ client # "noticed" THEN "error" ELSE "ok")
  /\ UNCHANGED <<path, sent, tail, queue, idleFired, client, started, stop, wire>>

------------------------------------------------------------------------------
\* The client goes away.
HangUp ==
  /\ client = "here" /\ pc # "ended"
  /\ client' = "left"
  /\ UNCHANGED <<path, pc, sent, tail, queue, idleFired, started, stop, wire, result>>

\* net/http sees it and cancels the request context, and so the call's.
Notice ==
  /\ client = "left" /\ pc # "ended"
  /\ client' = "noticed"
  /\ UNCHANGED <<path, pc, sent, tail, queue, idleFired, started, stop, wire, result>>

Own == Start \/ Read \/ Skip \/ Relay \/ Finish \/ RelayRaw \/ FinishRaw

Next == Own \/ Receive \/ BodyEnds \/ RelayError \/ IdleFires \/ HangUp \/ Notice

Spec == Init /\ [][Next]_vars

\* Mutant: the call context is not derived from the request's.
AbortIdle == idleFired /\ (BodyEnds \/ RelayError)

\* A read whose call context is done returns.
Abort == Aborted /\ (BodyEnds \/ RelayError)

\* The goroutine runs, timers fire, net/http notices, and cancelled reads
\* return.  Upstreams may be silent forever.
Fairness == WF_vars(Own) /\ WF_vars(IdleFires) /\ WF_vars(Notice) /\ WF_vars(Abort)

FairSpec == Spec /\ Fairness

------------------------------------------------------------------------------
(***************************************************************************)
(* Properties.                                                             *)
(***************************************************************************)
EventNames == {"chunk", "[DONE]", "message_start", "content_block_start", "content_block_delta",
               "content_block_stop", "message_delta", "message_stop", "raw"}

\* Shape of the state: at most one record is under way, and the upstream's
\* bound on records holds up to the one it breaks off in.
TypeOK ==
  /\ path \in Paths
  /\ pc \in {"answered", "relaying", "reading", "buffering", "ended"}
  /\ sent \in Seq(Records) /\ Len(sent) <= MaxRecords + 1
  /\ tail \in {"open", "eof", "error"}
  /\ queue \in Seq(Records) /\ Len(queue) <= 1
  /\ idleFired \in BOOLEAN
  /\ client \in {"here", "left", "noticed"}
  /\ started \in BOOLEAN
  /\ stop \in Nat
  /\ wire \in Seq([name : EventNames, n : Nat])
  /\ result \in {"none", "ok", "error"}

\* The numbers that the members of s at the given places carry: those of the
\* records of the given kinds, and those that events of the given names carry.
Numbers(s, places) == LET kept == Ascending(places)
                      IN [k \in DOMAIN kept |-> s[kept[k]].n]
Due(kinds)         == Numbers(sent, {i \in DOMAIN sent : sent[i].kind \in kinds})
Carried(names)     == Numbers(wire, {k \in DOMAIN wire : wire[k].name \in names})

AllKinds == Kinds \cup {"cut"}
Spoken   == AllKinds \ {"ping", "done", "huge"}

IsPrefixOf(s, t) == Len(s) <= Len(t) /\ s = SubSeq(t, 1, Len(s))

\* got is what the client has of due: a prefix, and all of it in the end
\* unless it left.
Delivered(got, due) ==
  /\ IsPrefixOf(got, due)
  /\ pc = "ended" /\ path.ok /\ client = "here" => got = due

\* On the same-protocol paths the client gets every record that says
\* something, in order and once: errors and reasoning, and even the part of a
\* record that the upstream broke off in.  Only a record too long for the
\* scanner ends an OpenAI stream early.
SameProtocolVerbatim ==
  /\ Raw => Delivered(Carried({"raw"}), Due(AllKinds))
  /\ path.consumer = "openai" /\ path.provider = "openai" =>
       Delivered(Carried({"chunk"}), Due(Spoken))

\* Across protocols, whatever else is dropped, the text arrives complete, in
\* order and once.
TextFaithful ==
  ~Raw => Delivered(Numbers(wire, {k \in DOMAIN wire :
                                     /\ wire[k].name \in {"chunk", "content_block_delta"}
                                     /\ sent[wire[k].n].kind = "text"}),
                    Due({"text"}))

\* The stop reason an Anthropic consumer is told is the last finish reason the
\* upstream gave, the default standing for none.
StopReasonFaithful ==
  path.consumer = "anthropic" =>
    \A k \in DOMAIN wire :
      wire[k].name = "message_delta" =>
        LET stops == Due({"stop"})
        IN wire[k].n = IF stops = <<>> THEN 0 ELSE stops[Len(stops)]

\* Translated and spliced streams implement EventStream: whatever happens
\* upstream, a client that stays sees a well-formed message that is closed
\* once.
Spliced == path.ok /\ ~Raw

ES == INSTANCE EventStream WITH
        consumer <- path.consumer,
        events   <- IF Spliced THEN [k \in DOMAIN wire |-> wire[k].name] ELSE <<>>,
        present  <- client = "here",
        closed   <- Spliced /\ pc = "ended"

KeepsGrammar == ES!StreamSpec

\* With an idle timeout, an upstream that falls silent cannot hold a stream; and a
\* client that leaves ends its stream whatever the upstream does, even without one.
StreamsEnd == (path.idle /\ path.ok) \/ client # "here" ~> pc = "ended"

\* A break in the middle of a stream can be told from its end: the client is
\* shown an error event, or the stream ends without its terminators.  Refuted:
\* relayStream terminates it, and the reader hides the break from relayStream.
BreakSurfaces ==
  pc = "ended" /\ path.ok /\ client = "here" /\ tail = "error" =>
    \/ \E k \in DOMAIN sent : sent[k].kind \in {"done", "error"}
    \/ ~\E k \in DOMAIN wire : wire[k].name \in {"[DONE]", "message_stop"}

\* With an idle timeout, an error answer to a streaming call that never ends
\* cannot hold the call either.  Refuted for an Anthropic provider.
ErrorBodyEnds == (path.idle /\ ~path.ok) ~> pc = "ended"
==============================================================================
