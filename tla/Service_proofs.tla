---------------------------- MODULE Service_proofs ----------------------------
(***************************************************************************)
(* Proofs about the process around the request path, for any requests,     *)
(* backends, channel size and number of failovers.                         *)
(*                                                                         *)
(* IInv is the inductive invariant.  Its core is Fresh: along the channel, *)
(* what the owner will have applied by the time it reaches a scrape's      *)
(* question, or by the time a scrape that is still refreshing asks, is a   *)
(* health that the scrape may show.                                        *)
(***************************************************************************)
EXTENDS Service, FiniteSetTheorems, SequenceTheorems, TLAPS

\* The channel holds the question of each scrape that waits, and of no other, once.
Asked ==
  \A i \in DOMAIN ops :
    ops[i].op = "scrape" =>
      /\ pc[ops[i].of] = "waiting"
      /\ \A j \in DOMAIN ops : ops[j] = ops[i] => j = i

\* Once the owner, whose gauges are g, has applied the first i operations of s, the
\* gauge of b is among V.
IsHealth(o, b) == o.op = "health" /\ o.of = b

Latest(g, s, i, b, V) ==
  \/ g[b] \in V /\ \A h \in 1..i : ~IsHealth(s[h], b)
  \/ \E j \in 1..i : /\ IsHealth(s[j], b) /\ s[j].by \in V
                     /\ \A h \in (j + 1)..i : ~IsHealth(s[h], b)

\* The backends that scrape r sent the health of come out as it may show them.
Sees(r, i) ==
  \A b \in Backends \ (missed[r] \cup todo[r]) : Latest(gauge, ops, i, b, since[r][b])

Fresh ==
  /\ \A r \in Requests : pc[r] = "refreshing" => Sees(r, Len(ops))
  /\ \A i \in DOMAIN ops : ops[i].op = "scrape" => Sees(ops[i].of, i)

\* What any scrape has still to send may be shown by every other.
Shared ==
  \A r, a \in Scraping : \A b \in Backends :
    Bit(b, rotation) \in since[r][b] /\ Bit(b, view[a]) \in since[r][b]

\* A scrape that asked has nothing left to send.
Refreshed == \A r \in Requests : pc[r] = "waiting" => todo[r] = {}

\* What the handler of r will record agrees with what its client was sent.
Agrees(r) ==
  \/ status[r] = wire[r]
  \/ hinted[r] /\ status[r] = 103
  \/ wire[r] = 0 /\ status[r] \notin 100..999

Recording ==
  \A r \in Requests :
    /\ pc[r] = "absent" => wire[r] = 0 /\ ~hinted[r]
    /\ pc[r] = "relaying" => wire[r] = 0 /\ (hinted[r] => status[r] = 103)
    /\ kind[r] # "scrape" /\ pc[r] \in {"copying", "ending", "leaving"} => Agrees(r)

\* A process drains because of a signal or of its listener, and its exit code says
\* which.
Draining ==
  main = "draining" => (exitCode = 0 => ~running) /\ (exitCode = 1 => failed)

IInv == TypeOK /\ Accounted /\ Asked /\ Fresh /\ Shared /\ Refreshed /\ Recording /\ Draining

------------------------------------------------------------------------------
(* What the groups of steps leave alone. *)

LEMMA HandlerFrame ==
  ASSUME NEW r \in Requests, Handler(r)
  PROVE  UNCHANGED <<healthVars, folded, owner, counted, gauge, kind, mainVars>> /\ Alive
BY DEF Handler, ArriveChat, Reject, Refuse, Route, Answer, FailOver, ArriveAudio, Hint,
       GatewayAnswers, GatewayFails, CopyEnds, Record, Leave, ArriveScrape, Refresh, Ask, GiveUp,
       Arrives, Ends, PassOn, ScrapeReturns, metricVars, requestVars, history

LEMMA LoopFrame ==
  ASSUME Loop
  PROVE  /\ UNCHANGED <<requestVars, mainVars, owner, counted, gauge, dropped, missed>>
         /\ running' = running /\ Alive
         /\ \/ UNCHANGED <<rotation, folded, ops, since>>
            \/ Publish
            \/ \E b \in Backends : Fold(b)
BY DEF Loop, LoopStep, Begin, ProbeEnds, StopLoop, Publish, Decide, Fold, healthVars, roundVars,
       metricVars, history

LEMMA ProcessFrame ==
  ASSUME Process
  PROVE  \/ UNCHANGED <<folded, metricVars, requestVars, history, known, rotation, roundVars, stopped>>
         \/ (Drained \/ DrainTimeout) /\ \E code \in {exitCode, 1} : Exit(code)
BY DEF Process, Bind, ListenFails, Signal, CancelRoot, SignalSeen, ErrorSeen, Drain, MainStep,
       Drained, DrainTimeout, Exited, healthVars, vars

LEMMA ServeFrame ==
  ASSUME Serve \/ StopOwner \/ UNCHANGED vars
  PROVE  UNCHANGED <<healthVars, folded, mainVars, dropped>>
BY DEF Serve, StopOwner, vars, history

------------------------------------------------------------------------------
(* Types. *)

LEMMA OpsAre ==
  /\ \A c \in Counters : \A n \in {1, -1} : Update(c, n) \in Ops
  /\ \A b \in Backends : \A S : Health(b, Bit(b, S)) \in Ops
  /\ \A r \in Requests : Scrape(r) \in Ops
BY DEF Ops, Update, Health, Scrape, Bit

\* What a send leaves in the channel.
LEMMA SendTyped ==
  ASSUME MetricsOK, NEW o \in Ops, Send(o)
  PROVE  ops' \in Seq(Ops) /\ Len(ops') <= QueueSize
<1>1. ops \in Seq(Ops) /\ Len(ops) \in Nat /\ Len(ops) <= QueueSize /\ QueueSize \in Nat
  BY ServiceAssumption DEF MetricsOK
<1>2. CASE Fits
  <2>1. ops' = Append(ops, o)
    BY <1>2 DEF Send
  <2>2. Append(ops, o) \in Seq(Ops) /\ Len(Append(ops, o)) = Len(ops) + 1
    BY <1>1, AppendProperties
  <2> QED
    BY <1>1, <1>2, <2>1, <2>2 DEF Fits
<1>3. CASE ~Fits
  BY <1>1, <1>3 DEF Send
<1> QED
  BY <1>2, <1>3

LEMMA TallyTyped ==
  ASSUME MetricsOK, NEW c \in Counters, NEW n \in {1, -1}, Tally(c, n)
  PROVE  ops' \in Seq(Ops) /\ Len(ops') <= QueueSize /\ dropped' \in [Counters -> Int]
<1>1. ops' \in Seq(Ops) /\ Len(ops') <= QueueSize
  BY OpsAre, SendTyped DEF Tally
<1>2. dropped' \in [Counters -> Int]
  BY DEF Tally, MetricsOK
<1> QED
  BY <1>1, <1>2

LEMMA CountersAre ==
  /\ Open \in Counters /\ Failover \in Counters
  /\ \A s \in Statuses : Done(s) \in Counters
BY DEF Counters

LEMMA LoopOKStep ==
  ASSUME TypeOK, [Next]_vars
  PROVE  LoopOK'
<1> USE DEF TypeOK, LoopOK
<1>1. CASE UNCHANGED <<healthVars, folded>>
  BY <1>1 DEF healthVars, roundVars
<1>2. CASE Loop
  <2>1. ASSUME NEW S \in Rounds, LoopStep(Begin(S))
        PROVE  LoopOK'
    BY <2>1 DEF LoopStep, Begin, Rounds, roundVars
  <2>2. ASSUME NEW b \in Backends, LoopStep(ProbeEnds(b))
        PROVE  LoopOK'
    BY <2>2 DEF LoopStep, ProbeEnds, roundVars
  <2>3. ASSUME NEW b \in Backends, Fold(b)
        PROVE  LoopOK'
    BY <2>3 DEF Fold, healthVars, roundVars
  <2>4. CASE LoopStep(StopLoop)
    BY <2>4 DEF LoopStep, StopLoop, roundVars
  <2>5. CASE Publish
    BY <2>5 DEF Publish, Decide, roundVars
  <2> QED
    BY <1>2, <2>1, <2>2, <2>3, <2>4, <2>5 DEF Loop
<1>3. CASE Process
  <2>1. CASE \E code \in {exitCode, 1} : Exit(code)
    BY <2>1 DEF Exit
  <2>2. CASE UNCHANGED <<folded, known, rotation, roundVars, stopped>>
    <3>1. running' \in BOOLEAN
      BY <1>3 DEF Process, Bind, ListenFails, Signal, CancelRoot, SignalSeen, ErrorSeen, Drain, MainStep,
             Drained, DrainTimeout, Exit, Exited, healthVars, vars
    <3> QED
      BY <2>2, <3>1 DEF roundVars
  <2> QED
    BY <1>3, <2>1, <2>2, ProcessFrame
<1> QED
  BY <1>1, <1>2, <1>3, HandlerFrame, ServeFrame DEF Next

LEMMA MetricsOKStep ==
  ASSUME TypeOK, [Next]_vars
  PROVE  MetricsOK'
<1>1. /\ MetricsOK /\ ops \in Seq(Ops) /\ Len(ops) <= QueueSize /\ Len(ops) \in Nat
      /\ counted \in [Counters -> Int] /\ dropped \in [Counters -> Int]
      /\ gauge \in [Backends -> -1..1] /\ owner \in {"serving", "stopped"}
      /\ QueueSize \in Nat
  BY ServiceAssumption DEF TypeOK, MetricsOK
<1>2. CASE UNCHANGED <<metricVars, dropped>>
  BY <1>1, <1>2 DEF MetricsOK, metricVars
<1>3. CASE Serve
  <2>1. ops # <<>> /\ ops' = Tail(ops) /\ UNCHANGED <<owner, dropped>>
    BY <1>3 DEF Serve
  <2>2. Head(ops) \in Ops /\ Tail(ops) \in Seq(Ops) /\ Len(Tail(ops)) = Len(ops) - 1
    BY <1>1, <2>1, HeadTailProperties
  <2>3. counted' \in [Counters -> Int] /\ gauge' \in [Backends -> -1..1]
    <3>1. CASE Head(ops).op = "count"
      <4>1. Head(ops).of \in Counters /\ Head(ops).by \in Int
        BY <2>2, <3>1 DEF Ops
      <4>2. UNCHANGED gauge /\ counted' = [counted EXCEPT ![Head(ops).of] = @ + Head(ops).by]
        BY <1>3, <3>1 DEF Serve
      <4> QED
        BY <1>1, <4>1, <4>2
    <3>2. CASE Head(ops).op = "health"
      <4>1. Head(ops).of \in Backends /\ Head(ops).by \in {0, 1}
        BY <2>2, <3>2 DEF Ops
      <4>2. UNCHANGED counted /\ gauge' = [gauge EXCEPT ![Head(ops).of] = Head(ops).by]
        BY <1>3, <3>2 DEF Serve
      <4> QED
        BY <1>1, <4>1, <4>2
    <3>3. CASE Head(ops).op = "scrape"
      BY <1>1, <1>3, <3>3 DEF Serve
    <3> QED
      BY <1>3, <3>1, <3>2, <3>3 DEF Serve
  <2> QED
    BY <1>1, <2>1, <2>2, <2>3 DEF MetricsOK
<1>4. CASE StopOwner
  BY <1>1, <1>4 DEF StopOwner, MetricsOK, history
<1>5. ASSUME NEW b \in Backends, Fold(b)
      PROVE  MetricsOK'
  <2>1. ops' \in Seq(Ops) /\ Len(ops') <= QueueSize
    BY <1>1, <1>5, OpsAre, SendTyped DEF Fold
  <2> QED
    BY <1>1, <1>5, <2>1 DEF Fold, MetricsOK
<1>6. CASE Publish
  BY <1>1, <1>6 DEF Publish, MetricsOK, metricVars
<1>7. ASSUME NEW code, Exit(code)
      PROVE  MetricsOK'
  <2>1. <<>> \in Seq(Ops) /\ Len(<<>>) = 0
    BY EmptySeq
  <2>2. Zero \in [Counters -> Int] /\ [b \in Backends |-> -1] \in [Backends -> -1..1]
    BY DEF Zero
  <2>3. /\ ops' = <<>> /\ owner' = "stopped" /\ counted' = Zero /\ dropped' = Zero
        /\ gauge' = [b \in Backends |-> -1]
    BY <1>7 DEF Exit
  <2>4. ops' \in Seq(Ops) /\ Len(ops') <= QueueSize
    BY <1>1, <2>1, <2>3
  <2> QED
    BY <2>2, <2>3, <2>4 DEF MetricsOK
<1>8. ASSUME NEW r \in Requests, Handler(r)
      PROVE  MetricsOK'
  <2>1. UNCHANGED <<owner, counted, gauge>>
    BY <1>8, HandlerFrame
  <2>2. CASE ArriveChat(r) \/ FailOver(r) \/ ArriveAudio(r) \/ Record(r) \/ Leave(r)
    <3>1. \E c \in Counters : \E n \in {1, -1} : Tally(c, n)
      <4>1. status[r] \in Statuses
        BY DEF TypeOK, HandlersOK
      <4> QED
        BY <2>2, <4>1, CountersAre DEF ArriveChat, FailOver, ArriveAudio, Record, Leave
    <3>2. ops' \in Seq(Ops) /\ Len(ops') <= QueueSize /\ dropped' \in [Counters -> Int]
      BY <1>1, <3>1, TallyTyped
    <3> QED
      BY <1>1, <2>1, <3>2 DEF MetricsOK
  <2>3. CASE Ask(r) \/ \E b \in Backends : Refresh(r, b)
    <3>1. ops' \in Seq(Ops) /\ Len(ops') <= QueueSize
      BY <1>1, <2>3, OpsAre, SendTyped DEF Ask, Refresh
    <3>2. dropped' = dropped
      BY <2>3 DEF Ask, Refresh, history
    <3> QED
      BY <1>1, <2>1, <3>1, <3>2 DEF MetricsOK
  <2>4. CASE UNCHANGED <<metricVars, dropped>>
    BY <1>2, <2>4
  <2> QED
    BY <1>8, <2>2, <2>3, <2>4
    DEF Handler, Reject, Refuse, Route, Answer, Hint, GatewayAnswers, GatewayFails, CopyEnds,
        ArriveScrape, GiveUp, Ends, PassOn, history
<1>9. CASE Loop
  <2>1. Publish \/ (\E b \in Backends : Fold(b)) \/ UNCHANGED <<metricVars, dropped>>
    BY <1>9, LoopFrame DEF metricVars
  <2> QED
    BY <1>2, <1>5, <1>6, <2>1
<1>10. CASE Process
  BY <1>2, <1>7, <1>10, ProcessFrame DEF history
<1> QED
  BY <1>2, <1>3, <1>4, <1>8, <1>9, <1>10 DEF Next, vars, history

\* Where a request is tells its kind, and its kind where it may be.
LEMMA KindOf ==
  ASSUME HandlersOK, NEW r \in Requests
  PROVE  /\ kind[r] \in Kinds
         /\ pc[r] \in {"reading", "calling"} => kind[r] = "chat"
         /\ pc[r] \in {"relaying", "copying"} => kind[r] = "audio"
         /\ pc[r] \in {"refreshing", "waiting"} => kind[r] = "scrape"
         /\ pc[r] \in {"ending", "leaving"} => kind[r] \in {"chat", "audio"}
<1>1. kind[r] \in Kinds
  BY ServiceAssumption DEF HandlersOK
<1>2. pc[r] \in Stages(kind[r])
  BY DEF HandlersOK
<1> QED
  BY <1>1, <1>2 DEF Kinds, Stages

LEMMA StagesAre ==
  /\ Stages("chat") = {"absent", "reading", "calling", "ending", "leaving", "done"}
  /\ Stages("audio") = {"absent", "relaying", "copying", "ending", "leaving", "done"}
  /\ Stages("scrape") = {"absent", "refreshing", "waiting", "done"}
  /\ \A k \in Kinds : "absent" \in Stages(k)
BY DEF Stages, Kinds

PcOK ==
  /\ pc \in [Requests -> UNION {Stages(k) : k \in Kinds}]
  /\ \A r \in Requests : pc[r] \in Stages(kind[r])

LEMMA Moves ==
  ASSUME HandlersOK, NEW r \in Requests, NEW x, x \in Stages(kind[r]), kind' = kind,
         pc' = [pc EXCEPT ![r] = x]
  PROVE  PcOK'
<1>1. \A q \in Requests : kind[q] \in Kinds
  BY KindOf
<1> DEFINE U == UNION {Stages(k) : k \in Kinds}
<1>2. x \in U
  BY <1>1
<1>3. pc \in [Requests -> U] /\ \A q \in Requests : pc[q] \in Stages(kind[q])
  BY DEF HandlersOK
<1> HIDE DEF U
<1>4. pc' \in [Requests -> U] /\ \A q \in Requests : pc'[q] \in Stages(kind[q])
  BY <1>2, <1>3
<1> QED
  BY <1>4 DEF PcOK, U

\* The parts of HandlersOK that hold of the locals of a handler.
LocalsOK ==
  /\ retries \in [Requests -> 0..Retries]
  /\ status \in [Requests -> Statuses] /\ wire \in [Requests -> Statuses \cup {0}]
  /\ hinted \in [Requests -> BOOLEAN]

ScrapesOK ==
  /\ todo \in [Requests -> SUBSET Backends] /\ view \in [Requests -> SUBSET Backends]
  /\ missed \in [Requests -> SUBSET Backends]
  /\ since \in [Requests -> [Backends -> SUBSET {0, 1}]]

LEMMA HandlersSplit == HandlersOK <=> kind \in Mixes /\ PcOK /\ LocalsOK /\ ScrapesOK
BY DEF HandlersOK, PcOK, LocalsOK, ScrapesOK

LEMMA BitIs == \A b, S : Bit(b, S) \in {0, 1}
BY DEF Bit

LEMMA StatusesAre ==
  /\ 200 \in Statuses /\ 502 \in Statuses /\ 503 \in Statuses /\ 103 \in Statuses
  /\ Rejections \subseteq Statuses /\ Heads \subseteq Statuses /\ GatewayErrors \subseteq Statuses
BY DEF Statuses

\* A request moves only to where its kind may be.
LEMMA HandlerMoves ==
  ASSUME HandlersOK, NEW r \in Requests, Handler(r)
  PROVE  PcOK'
<1>1. kind' = kind
  BY HandlerFrame
<1>2. SUFFICES UNCHANGED pc \/ \E x \in Stages(kind[r]) : pc' = [pc EXCEPT ![r] = x]
  <2>1. CASE UNCHANGED pc
    BY <1>1, <2>1 DEF HandlersOK, PcOK
  <2>2. ASSUME NEW x \in Stages(kind[r]), pc' = [pc EXCEPT ![r] = x]
        PROVE  PcOK'
    BY <1>1, <2>2, Moves
  <2> QED
    BY <2>1, <2>2
<1>3. CASE ArriveChat(r) \/ Reject(r) \/ Refuse(r) \/ Route(r) \/ Answer(r)
  <2>1. kind[r] = "chat"
    BY <1>3, KindOf DEF ArriveChat, Arrives, Reject, Refuse, Route, Answer
  <2>2. \E x \in {"reading", "calling", "ending"} : pc' = [pc EXCEPT ![r] = x]
    BY <1>3 DEF ArriveChat, Arrives, Reject, Refuse, Route, Answer, Ends
  <2> QED
    BY <2>1, <2>2, StagesAre
<1>4. CASE ArriveAudio(r) \/ GatewayAnswers(r) \/ GatewayFails(r) \/ CopyEnds(r)
  <2>1. kind[r] = "audio"
    BY <1>4, KindOf DEF ArriveAudio, Arrives, GatewayAnswers, GatewayFails, CopyEnds
  <2>2. \E x \in {"relaying", "copying", "ending"} : pc' = [pc EXCEPT ![r] = x]
    <3>1. \A s : PassOn(r, s, "copying") \/ PassOn(r, s, "ending") =>
             \E x \in {"copying", "ending"} : pc' = [pc EXCEPT ![r] = x]
      BY DEF PassOn
    <3> QED
      BY <1>4, <3>1 DEF ArriveAudio, Arrives, GatewayAnswers, GatewayFails, CopyEnds
  <2> QED
    BY <2>1, <2>2, StagesAre
<1>5. CASE Record(r) \/ Leave(r)
  <2>1. kind[r] \in {"chat", "audio"}
    BY <1>5, KindOf DEF Record, Leave
  <2>2. \E x \in {"leaving", "done"} : pc' = [pc EXCEPT ![r] = x]
    BY <1>5 DEF Record, Leave
  <2> QED
    BY <2>1, <2>2, StagesAre
<1>6. CASE ArriveScrape(r) \/ Ask(r) \/ GiveUp(r)
  <2>1. kind[r] = "scrape"
    BY <1>6, KindOf DEF ArriveScrape, Arrives, Ask, GiveUp
  <2>2. \E x \in {"refreshing", "waiting", "done"} : pc' = [pc EXCEPT ![r] = x]
    BY <1>6 DEF ArriveScrape, Arrives, Ask, GiveUp, ScrapeReturns
  <2> QED
    BY <2>1, <2>2, StagesAre
<1>7. CASE UNCHANGED pc
  BY <1>7
<1> QED
  BY <1>3, <1>4, <1>5, <1>6, <1>7 DEF Handler, FailOver, Hint, Refresh

LEMMA HandlerLocals ==
  ASSUME HandlersOK, NEW r \in Requests, Handler(r)
  PROVE  LocalsOK'
<1>1. LocalsOK /\ status[r] \in Statuses /\ Retries \in Nat
  BY HandlersSplit, ServiceAssumption DEF LocalsOK
<1>2. CASE UNCHANGED <<retries, status, wire, hinted>>
  BY <1>1, <1>2 DEF LocalsOK
<1>3. ASSUME NEW s \in Statuses, Ends(r, s)
      PROVE  LocalsOK'
  BY <1>1, <1>3 DEF Ends, LocalsOK
<1>4. ASSUME NEW s \in Statuses, NEW n, PassOn(r, s, n)
      PROVE  LocalsOK'
  <2>1. Recorded(r, s) \in Statuses
    BY <1>1 DEF Recorded
  <2>2. /\ status' = [status EXCEPT ![r] = Recorded(r, s)] /\ UNCHANGED <<retries, hinted>>
        /\ wire' \in {wire, [wire EXCEPT ![r] = s]}
    BY <1>4 DEF PassOn
  <2> QED
    BY <1>1, <2>1, <2>2 DEF LocalsOK
<1>5. CASE FailOver(r)
  <2>1. retries[r] \in 0..Retries /\ retries[r] < Retries /\ retries' = [retries EXCEPT ![r] = @ + 1]
    BY <1>1, <1>5 DEF FailOver, LocalsOK
  <2>2. retries[r] + 1 \in 0..Retries
    BY <1>1, <2>1
  <2> QED
    BY <1>1, <1>5, <2>1, <2>2 DEF FailOver, LocalsOK
<1>6. CASE Hint(r)
  <2>1. Recorded(r, 103) \in Statuses
    BY <1>1, StatusesAre DEF Recorded
  <2> QED
    BY <1>1, <1>6, <2>1 DEF Hint, LocalsOK
<1>7. CASE Leave(r)
  BY <1>1, <1>7 DEF Leave, LocalsOK
<1>8. CASE Reject(r) \/ Refuse(r) \/ Answer(r)
  BY <1>3, <1>8, StatusesAre DEF Reject, Refuse, Answer
<1>9. CASE GatewayAnswers(r) \/ GatewayFails(r)
  BY <1>4, <1>9, StatusesAre DEF GatewayAnswers, GatewayFails
<1> QED
  BY <1>2, <1>5, <1>6, <1>7, <1>8, <1>9
  DEF Handler, ArriveChat, Route, ArriveAudio, CopyEnds, Record, ArriveScrape, Refresh, Ask, GiveUp,
      ScrapeReturns

LEMMA HandlerScrapes ==
  ASSUME HandlersOK, LoopOK, NEW r \in Requests, Handler(r)
  PROVE  ScrapesOK'
<1>1. ScrapesOK
  BY HandlersSplit
<1>2. CASE UNCHANGED <<todo, view, missed, since>>
  BY <1>1, <1>2 DEF ScrapesOK
<1>3. CASE ArriveScrape(r)
  <2>1. [b \in Backends |-> {Bit(b, rotation)} \cup UNION {since[a][b] : a \in Scraping}]
          \in [Backends -> SUBSET {0, 1}]
    <3>1. \A b \in Backends : {Bit(b, rotation)} \cup UNION {since[a][b] : a \in Scraping}
                                \in SUBSET {0, 1}
      BY <1>1, BitIs DEF ScrapesOK, Scraping
    <3> QED
      BY <3>1
  <2>2. known \in SUBSET Backends /\ rotation \in SUBSET Backends
    BY DEF LoopOK
  <2>3. /\ todo' = [todo EXCEPT ![r] = known] /\ view' = [view EXCEPT ![r] = rotation]
        /\ missed' = [missed EXCEPT ![r] = Backends \ known]
        /\ since' = [since EXCEPT ![r] = [b \in Backends |->
                       {Bit(b, rotation)} \cup UNION {since[a][b] : a \in Scraping}]]
    BY <1>3 DEF ArriveScrape
  <2> QED
    BY <1>1, <2>1, <2>2, <2>3 DEF ScrapesOK
<1>4. ASSUME NEW b \in Backends, Refresh(r, b)
      PROVE  ScrapesOK'
  BY <1>1, <1>4 DEF Refresh, ScrapesOK
<1>5. CASE GiveUp(r)
  <2>1. Unseen \in [Backends -> SUBSET {0, 1}]
    BY DEF Unseen
  <2> QED
    BY <1>1, <1>5, <2>1 DEF GiveUp, ScrapeReturns, ScrapesOK
<1>6. ASSUME NEW s, Ends(r, s)
      PROVE  UNCHANGED <<todo, view, missed, since>>
  BY <1>6 DEF Ends, history
<1>7. ASSUME NEW s, NEW n, PassOn(r, s, n)
      PROVE  UNCHANGED <<todo, view, missed, since>>
  BY <1>7 DEF PassOn, history
<1>8. CASE Reject(r) \/ Refuse(r) \/ Answer(r) \/ GatewayAnswers(r) \/ GatewayFails(r)
  BY <1>2, <1>6, <1>7, <1>8 DEF Reject, Refuse, Answer, GatewayAnswers, GatewayFails
<1> QED
  BY <1>2, <1>3, <1>4, <1>5, <1>8
  DEF Handler, ArriveChat, Route, FailOver, ArriveAudio, Hint, CopyEnds, Record, Leave, Ask, history

\* What the handlers of scrapes keep grows by healths only.
LEMMA RoundScrapes ==
  ASSUME HandlersOK, Publish \/ \E b \in Backends : Fold(b)
  PROVE  ScrapesOK'
<1>1. /\ todo \in [Requests -> SUBSET Backends] /\ view \in [Requests -> SUBSET Backends]
      /\ missed \in [Requests -> SUBSET Backends]
      /\ since \in [Requests -> [Backends -> SUBSET {0, 1}]]
  BY DEF HandlersOK
<1>2. UNCHANGED <<todo, view, missed>>
  BY DEF Publish, Fold, requestVars
<1>3. since' \in [Requests -> [Backends -> SUBSET {0, 1}]]
  <2>1. ASSUME NEW b \in Backends, Fold(b)
        PROVE  since' \in [Requests -> [Backends -> SUBSET {0, 1}]]
    <3>1. \A r \in Requests : [since[r] EXCEPT ![b] = @ \cup {Bit(b, heard)}] \in [Backends -> SUBSET {0, 1}]
      BY <1>1, BitIs
    <3>2. since' = [r \in Requests |->
                 IF r \in Scraping THEN [since[r] EXCEPT ![b] = @ \cup {Bit(b, heard)}] ELSE since[r]]
      BY <2>1 DEF Fold
    <3> QED
      BY <1>1, <3>1, <3>2
  <2>2. CASE Publish
    <3>1. \A r \in Requests : \A b \in Backends : since[r][b] \cup {Bit(b, rotation')} \in SUBSET {0, 1}
      BY <1>1, BitIs
    <3>2. since' = [r \in Requests |-> [b \in Backends |->
                  IF r \in Scraping THEN since[r][b] \cup {Bit(b, rotation')} ELSE since[r][b]]]
      BY <2>2 DEF Publish
    <3>3. ASSUME NEW r \in Requests
          PROVE  [b \in Backends |-> IF r \in Scraping THEN since[r][b] \cup {Bit(b, rotation')}
                                     ELSE since[r][b]] \in [Backends -> SUBSET {0, 1}]
      BY <1>1, <3>1
    <3> QED
      BY <3>2, <3>3
  <2> QED
    BY <2>1, <2>2
<1> QED
  BY <1>1, <1>2, <1>3 DEF ScrapesOK

\* The owner answers a scrape that waits.
LEMMA ServedScrape ==
  ASSUME TypeOK, Asked, Serve, Head(ops).op = "scrape"
  PROVE  /\ Head(ops).of \in Requests /\ ScrapeReturns(Head(ops).of)
         /\ pc[Head(ops).of] = "waiting" /\ kind[Head(ops).of] = "scrape"
<1>1. ops \in Seq(Ops) /\ ops # <<>> /\ HandlersOK
  BY DEF TypeOK, MetricsOK, Serve
<1>2. Head(ops) \in Ops /\ 1 \in DOMAIN ops /\ Head(ops) = ops[1]
  BY <1>1, HeadTailProperties, EmptySeq
<1>3. Head(ops).of \in Requests
  BY <1>2 DEF Ops
<1>4. pc[Head(ops).of] = "waiting"
  BY <1>2 DEF Asked
<1> QED
  BY <1>1, <1>3, <1>4, KindOf DEF Serve

LEMMA HandlersOKStep ==
  ASSUME TypeOK, Asked, [Next]_vars
  PROVE  HandlersOK'
<1>1. HandlersOK /\ LoopOK /\ kind \in Mixes /\ PcOK /\ LocalsOK /\ ScrapesOK
  BY HandlersSplit DEF TypeOK
<1>2. CASE UNCHANGED <<requestVars, missed, since>>
  BY <1>1, <1>2 DEF HandlersOK, requestVars
<1>3. SUFFICES ASSUME kind' \in Mixes, PcOK' /\ LocalsOK' /\ ScrapesOK'
               PROVE  HandlersOK'
  <2>1. CASE Serve
    <3>1. CASE Head(ops).op = "scrape"
      <4> DEFINE r == Head(ops).of
      <4>1. r \in Requests /\ ScrapeReturns(r) /\ kind[r] = "scrape" /\ Unseen \in [Backends -> SUBSET {0, 1}]
        BY <2>1, <3>1, ServedScrape DEF Unseen
      <4> HIDE DEF r
      <4>2. PcOK'
        <5>1. "done" \in Stages(kind[r])
          BY <4>1, StagesAre
        <5> QED
          BY <1>1, <4>1, <5>1, Moves DEF ScrapeReturns
      <4>3. LocalsOK' /\ ScrapesOK' /\ kind' \in Mixes
        BY <1>1, <4>1 DEF ScrapeReturns, LocalsOK, ScrapesOK
      <4> QED
        BY <1>3, <4>2, <4>3
    <3> QED
      BY <1>2, <2>1, <3>1 DEF Serve
  <2>2. ASSUME NEW r \in Requests, Handler(r)
        PROVE  HandlersOK'
    <3>1. PcOK' /\ LocalsOK' /\ ScrapesOK'
      BY <1>1, <2>2, HandlerMoves, HandlerLocals, HandlerScrapes
    <3>2. kind' \in Mixes
      BY <1>1, <2>2, HandlerFrame
    <3> QED
      BY <1>3, <3>1, <3>2
  <2>3. CASE Loop
    <3>1. CASE Publish \/ \E b \in Backends : Fold(b)
      <4>1. ScrapesOK'
        BY <1>1, <3>1, RoundScrapes
      <4>2. PcOK' /\ LocalsOK' /\ kind' \in Mixes
        BY <1>1, <2>3, LoopFrame DEF PcOK, LocalsOK, requestVars
      <4> QED
        BY <1>3, <4>1, <4>2
    <3> QED
      BY <1>2, <2>3, <3>1, LoopFrame
  <2>4. CASE Process
    <3>1. ASSUME NEW code, Exit(code)
          PROVE  HandlersOK'
      <4>1. kind' \in Mixes /\ \A r \in Requests : kind[r] \in Kinds /\ "absent" \in Stages(kind[r])
        BY <1>1, <3>1, KindOf, StagesAre DEF Exit
      <4>2. PcOK'
        <5>1. pc' = [r \in Requests |-> "absent"] /\ kind' = kind
          BY <3>1 DEF Exit
        <5>2. "absent" \in Stages("chat") /\ "chat" \in Kinds
          BY StagesAre DEF Kinds
        <5>3. "absent" \in UNION {Stages(k) : k \in Kinds}
          BY <5>2
        <5> QED
          BY <4>1, <5>1, <5>3 DEF PcOK
      <4>3. LocalsOK'
        <5>1. 0 \in 0..Retries /\ 200 \in Statuses
          BY ServiceAssumption, StatusesAre
        <5> QED
          BY <3>1, <5>1 DEF Exit, LocalsOK
      <4>4. ScrapesOK'
        <5>1. Unseen \in [Backends -> SUBSET {0, 1}]
          BY DEF Unseen
        <5> QED
          BY <3>1, <5>1 DEF Exit, ScrapesOK
      <4> QED
        BY <1>3, <4>1, <4>2, <4>3, <4>4
    <3> QED
      BY <1>2, <2>4, <3>1, ProcessFrame DEF history
  <2>5. CASE StopOwner \/ UNCHANGED vars
    BY <1>2, <2>5 DEF StopOwner, vars, history
  <2> QED
    BY <2>1, <2>2, <2>3, <2>4, <2>5 DEF Next
<1> QED
  BY <1>3 DEF HandlersOK, PcOK, LocalsOK, ScrapesOK

LEMMA ProcessOKStep ==
  ASSUME TypeOK, [Next]_vars
  PROVE  ProcessOK'
<1>1. ProcessOK
  BY DEF TypeOK
<1>2. CASE UNCHANGED mainVars
  BY <1>1, <1>2 DEF ProcessOK, mainVars
<1>3. CASE Process
  BY <1>1, <1>2, <1>3
  DEF Process, Bind, ListenFails, Signal, SignalSeen, ErrorSeen, Drain, Drained, DrainTimeout, Exit,
      Exited, vars, ProcessOK
<1> QED
  BY <1>2, <1>3, HandlerFrame, LoopFrame, ServeFrame DEF Next

LEMMA TypeStep ==
  ASSUME TypeOK, Asked, [Next]_vars
  PROVE  TypeOK'
BY LoopOKStep, MetricsOKStep, HandlersOKStep, ProcessOKStep DEF TypeOK

------------------------------------------------------------------------------
(* The channel: its questions, and who waits for an answer. *)

LEMMA OpsFields ==
  ASSUME NEW o \in Ops
  PROVE  /\ o.op \in {"count", "health", "scrape"}
         /\ o.op = "count" => o = Update(o.of, o.by) /\ o.of \in Counters /\ o.by \in {1, -1}
         /\ o.op = "health" => o = Health(o.of, o.by) /\ o.of \in Backends /\ o.by \in {0, 1}
         /\ o.op = "scrape" => o = Scrape(o.of) /\ o.of \in Requests
BY DEF Ops, Update, Health, Scrape

LEMMA KindsOfOps ==
  /\ \A c, n : Update(c, n).op = "count"
  /\ \A b, v : Health(b, v).op = "health" /\ Health(b, v).of = b /\ Health(b, v).by = v
  /\ \A r : Scrape(r).op = "scrape" /\ Scrape(r).of = r
BY DEF Update, Health, Scrape

LEMMA TailIs ==
  ASSUME NEW S, NEW s \in Seq(S), s # <<>>
  PROVE  /\ Len(s) \in Nat \ {0} /\ DOMAIN s = 1..Len(s) /\ \A i \in 1..Len(s) : s[i] \in S
         /\ Tail(s) \in Seq(S) /\ Len(Tail(s)) = Len(s) - 1 /\ DOMAIN Tail(s) = 1..(Len(s) - 1)
         /\ \A i \in 1..(Len(s) - 1) : Tail(s)[i] = s[i + 1]
         /\ Head(s) = s[1] /\ Head(s) \in S
<1>1. Len(s) \in Nat \ {0} /\ DOMAIN s = 1..Len(s) /\ \A i \in 1..Len(s) : s[i] \in S
  BY EmptySeq, LenProperties, ElementOfSeq
<1>2. Tail(s) \in Seq(S) /\ Len(Tail(s)) = Len(s) - 1 /\ Head(s) = s[1] /\ Head(s) \in S
  BY HeadTailProperties
<1>3. DOMAIN Tail(s) = 1..(Len(s) - 1) /\ \A i \in 1..(Len(s) - 1) : Tail(s)[i] = s[i + 1]
  BY <1>1, <1>2, LenProperties
<1> QED
  BY <1>1, <1>2, <1>3

LEMMA AppendIs ==
  ASSUME NEW S, NEW s \in Seq(S), NEW o \in S
  PROVE  /\ Len(s) \in Nat /\ DOMAIN s = 1..Len(s) /\ \A i \in 1..Len(s) : s[i] \in S
         /\ Append(s, o) \in Seq(S) /\ Len(Append(s, o)) = Len(s) + 1
         /\ DOMAIN Append(s, o) = 1..(Len(s) + 1)
         /\ \A i \in 1..Len(s) : Append(s, o)[i] = s[i]
         /\ Append(s, o)[Len(s) + 1] = o
<1>1. Len(s) \in Nat /\ DOMAIN s = 1..Len(s) /\ \A i \in 1..Len(s) : s[i] \in S
  BY LenProperties, ElementOfSeq
<1>2. Append(s, o) \in Seq(S) /\ Len(Append(s, o)) = Len(s) + 1
      /\ \A i \in 1..Len(s) : Append(s, o)[i] = s[i]
      /\ Append(s, o)[Len(s) + 1] = o
  BY AppendProperties
<1>3. DOMAIN Append(s, o) = 1..(Len(s) + 1)
  BY <1>2, LenProperties
<1> QED
  BY <1>1, <1>2, <1>3

\* A handler moves only itself, and never out of the wait for a page.
LEMMA HandlerPc ==
  ASSUME HandlersOK, NEW r \in Requests, Handler(r)
  PROVE  /\ pc[r] # "waiting"
         /\ \E x : pc' = [pc EXCEPT ![r] = x]
         /\ \A q \in Requests \ {r} : pc'[q] = pc[q]
<1>1. pc = [pc EXCEPT ![r] = pc[r]]
  BY DEF HandlersOK
<1>2. \A s : Ends(r, s) => \E x : pc' = [pc EXCEPT ![r] = x]
  BY DEF Ends
<1>3. \A s, n : PassOn(r, s, n) => \E x : pc' = [pc EXCEPT ![r] = x]
  BY DEF PassOn
<1>4. \E x : pc' = [pc EXCEPT ![r] = x]
  <2>1. CASE Reject(r) \/ Refuse(r) \/ Answer(r) \/ GatewayAnswers(r) \/ GatewayFails(r)
    BY <1>2, <1>3, <2>1 DEF Reject, Refuse, Answer, GatewayAnswers, GatewayFails
  <2> QED
    BY <1>1, <2>1
    DEF Handler, ArriveChat, Route, FailOver, ArriveAudio, Hint, CopyEnds, Record, Leave,
        ArriveScrape, Refresh, Ask, GiveUp, Arrives, ScrapeReturns
<1>5. pc[r] # "waiting"
  BY DEF Handler, ArriveChat, Reject, Refuse, Route, Answer, FailOver, ArriveAudio, Hint,
         GatewayAnswers, GatewayFails, CopyEnds, Record, Leave, ArriveScrape, Refresh, Ask, GiveUp,
         Arrives
<1>6. \A q \in Requests \ {r} : pc'[q] = pc[q]
  BY <1>4 DEF HandlersOK
<1> QED
  BY <1>4, <1>5, <1>6

\* What each step does to the channel.
LEMMA ChannelStep ==
  ASSUME TypeOK, [Next]_vars
  PROVE  \/ Serve
         \/ \E r \in Requests : Ask(r)
         \/ \E code : Exit(code)
         \/ /\ \A q \in Requests : pc[q] = "waiting" => pc'[q] = "waiting"
            /\ \/ UNCHANGED ops
               \/ \E o \in Ops : o.op # "scrape" /\ Fits /\ ops' = Append(ops, o)
<1>1. HandlersOK
  BY DEF TypeOK
<1>2. ASSUME NEW o \in Ops, o.op # "scrape", Send(o)
      PROVE  UNCHANGED ops \/ \E p \in Ops : p.op # "scrape" /\ Fits /\ ops' = Append(ops, p)
  BY <1>2 DEF Send
<1>3. ASSUME NEW r \in Requests, Handler(r), ~Ask(r)
      PROVE  /\ \A q \in Requests : pc[q] = "waiting" => pc'[q] = "waiting"
             /\ \/ UNCHANGED ops
                \/ \E o \in Ops : o.op # "scrape" /\ Fits /\ ops' = Append(ops, o)
  <2>1. \A q \in Requests : pc[q] = "waiting" => pc'[q] = "waiting"
    BY <1>1, <1>3, HandlerPc
  <2>2. CASE ArriveChat(r) \/ FailOver(r) \/ ArriveAudio(r) \/ Record(r) \/ Leave(r)
    <3>1. status[r] \in Statuses
      BY <1>1 DEF HandlersOK
    <3>2. \E c \in Counters : \E n \in {1, -1} : Send(Update(c, n))
      BY <2>2, <3>1, CountersAre DEF ArriveChat, FailOver, ArriveAudio, Record, Leave, Tally
    <3> QED
      BY <1>2, <2>1, <3>2, OpsAre, KindsOfOps
  <2>3. ASSUME NEW b \in Backends, Refresh(r, b)
        PROVE  UNCHANGED ops \/ \E o \in Ops : o.op # "scrape" /\ Fits /\ ops' = Append(ops, o)
    BY <1>2, <2>3, OpsAre, KindsOfOps DEF Refresh
  <2>4. CASE UNCHANGED ops
    BY <2>1, <2>4
  <2> QED
    BY <1>3, <2>1, <2>2, <2>3, <2>4
    DEF Handler, Reject, Refuse, Route, Answer, Hint, GatewayAnswers, GatewayFails, CopyEnds,
        ArriveScrape, GiveUp, Ends, PassOn, metricVars
<1>4. CASE Loop
  <2>1. UNCHANGED pc
    BY <1>4, LoopFrame DEF requestVars
  <2>2. ASSUME NEW b \in Backends, Fold(b)
        PROVE  UNCHANGED ops \/ \E o \in Ops : o.op # "scrape" /\ Fits /\ ops' = Append(ops, o)
    BY <1>2, <2>2, OpsAre, KindsOfOps DEF Fold
  <2>3. Publish => UNCHANGED ops
    BY DEF Publish, metricVars
  <2> QED
    BY <1>4, <2>1, <2>2, <2>3, LoopFrame
<1>5. CASE Process
  BY <1>5, ProcessFrame DEF metricVars, requestVars
<1>6. CASE StopOwner \/ UNCHANGED vars
  BY <1>6 DEF StopOwner, vars, metricVars, requestVars
<1> QED
  BY <1>3, <1>4, <1>5, <1>6 DEF Next

LEMMA AskedStep ==
  ASSUME TypeOK, Asked, [Next]_vars
  PROVE  Asked'
<1>1. ops \in Seq(Ops) /\ HandlersOK /\ pc \in [Requests -> UNION {Stages(k) : k \in Kinds}]
  BY DEF TypeOK, MetricsOK, HandlersOK
<1>2. Len(ops) \in Nat /\ DOMAIN ops = 1..Len(ops) /\ \A i \in 1..Len(ops) : ops[i] \in Ops
  BY <1>1, LenProperties, ElementOfSeq
<1>3. CASE Serve
  <2>1. ops # <<>> /\ ops' = Tail(ops)
    BY <1>3 DEF Serve
  <2>2. /\ DOMAIN ops' = 1..(Len(ops) - 1) /\ \A i \in 1..(Len(ops) - 1) : ops'[i] = ops[i + 1]
        /\ Head(ops) = ops[1] /\ Len(ops) \in Nat \ {0}
    BY <1>1, <2>1, TailIs
  <2>3. ASSUME NEW i \in 1..(Len(ops) - 1), ops[i + 1].op = "scrape"
        PROVE  pc'[ops[i + 1].of] = "waiting"
    <3>1. i + 1 \in 1..Len(ops) /\ 1 \in 1..Len(ops) /\ i + 1 # 1
      BY <2>2
    <3>2. pc[ops[i + 1].of] = "waiting" /\ ops[1] # ops[i + 1]
      BY <1>2, <2>3, <3>1 DEF Asked
    <3>3. CASE ops[1].op = "scrape"
      <4>1. ops[1] = Scrape(ops[1].of) /\ ops[i + 1] = Scrape(ops[i + 1].of)
        BY <1>2, <2>3, <3>1, <3>3, OpsFields
      <4>2. ops[1].of # ops[i + 1].of
        BY <3>2, <4>1
      <4>3. pc' = [pc EXCEPT ![ops[1].of] = "done"]
        BY <1>3, <2>2, <3>3 DEF Serve, ScrapeReturns
      <4> QED
        BY <1>1, <3>2, <4>2, <4>3
    <3>4. CASE ops[1].op # "scrape"
      BY <1>3, <2>2, <3>2, <3>4 DEF Serve, requestVars
    <3> QED
      BY <3>3, <3>4
  <2>4. ASSUME NEW i \in 1..(Len(ops) - 1), NEW j \in 1..(Len(ops) - 1), ops[i + 1].op = "scrape",
               ops[j + 1] = ops[i + 1]
        PROVE  j = i
    <3>1. i + 1 \in 1..Len(ops) /\ j + 1 \in 1..Len(ops)
      BY <2>2
    <3>2. j + 1 = i + 1
      BY <1>2, <2>4, <3>1 DEF Asked
    <3> QED
      BY <3>2
  <2>5. ASSUME NEW i \in 1..(Len(ops) - 1), ops'[i].op = "scrape"
        PROVE  pc'[ops'[i].of] = "waiting" /\ \A j \in 1..(Len(ops) - 1) : ops'[j] = ops'[i] => j = i
    <3>1. ops'[i] = ops[i + 1] /\ \A j \in 1..(Len(ops) - 1) : ops'[j] = ops[j + 1]
      BY <2>2
    <3>2. pc'[ops[i + 1].of] = "waiting"
      BY <2>3, <2>5, <3>1
    <3>3. ASSUME NEW j \in 1..(Len(ops) - 1), ops'[j] = ops'[i]
          PROVE  j = i
      BY <2>4, <2>5, <3>1, <3>3
    <3> QED
      BY <3>1, <3>2, <3>3
  <2>6. DOMAIN ops' = 1..(Len(ops) - 1)
    BY <2>2
  <2> QED
    BY <2>5, <2>6 DEF Asked
<1>4. ASSUME NEW r \in Requests, Ask(r)
      PROVE  Asked'
  <2>1. pc[r] = "refreshing" /\ ops' = Append(ops, Scrape(r)) /\ pc' = [pc EXCEPT ![r] = "waiting"]
    BY <1>4 DEF Ask, Send
  <2>2. Scrape(r) \in Ops /\ Scrape(r).of = r
    BY OpsAre, KindsOfOps
  <2>3. /\ DOMAIN ops' = 1..(Len(ops) + 1)
        /\ \A i \in 1..Len(ops) : ops'[i] = ops[i]
        /\ ops'[Len(ops) + 1] = Scrape(r)
    BY <1>1, <2>1, <2>2, AppendIs
  <2>4. \A i \in 1..Len(ops) : ops[i] # Scrape(r)
    BY <1>2, <2>1, <2>2, KindsOfOps DEF Asked
  <2>5. \A i \in 1..Len(ops) : ops[i].op = "scrape" => pc'[ops[i].of] = "waiting"
    BY <1>1, <1>2, <2>1, OpsFields DEF Asked
  <2>6. pc'[r] = "waiting"
    BY <1>1, <2>1
  <2>7. ASSUME NEW i \in 1..(Len(ops) + 1), ops'[i].op = "scrape"
        PROVE  pc'[ops'[i].of] = "waiting" /\ \A j \in 1..(Len(ops) + 1) : ops'[j] = ops'[i] => j = i
    <3>1. CASE i \in 1..Len(ops)
      <4>1. \A j \in 1..Len(ops) : ops[j] = ops[i] => j = i
        BY <1>2, <2>3, <2>7, <3>1 DEF Asked
      <4> QED
        BY <1>2, <2>3, <2>4, <2>5, <2>7, <3>1, <4>1
    <3>2. CASE i = Len(ops) + 1
      BY <1>2, <2>2, <2>3, <2>4, <2>6, <3>2
    <3> QED
      BY <1>2, <3>1, <3>2
  <2> QED
    BY <2>3, <2>7 DEF Asked
<1>5. ASSUME NEW code, Exit(code)
      PROVE  Asked'
  <2>1. ops' = <<>>
    BY <1>5 DEF Exit
  <2> QED
    BY <2>1 DEF Asked
<1>6. ASSUME \A q \in Requests : pc[q] = "waiting" => pc'[q] = "waiting",
             UNCHANGED ops
      PROVE  Asked'
  BY <1>2, <1>6, OpsFields DEF Asked
<1>7. ASSUME \A q \in Requests : pc[q] = "waiting" => pc'[q] = "waiting",
             NEW o \in Ops, o.op # "scrape", ops' = Append(ops, o)
      PROVE  Asked'
  <2>1. /\ DOMAIN ops' = 1..(Len(ops) + 1)
        /\ \A i \in 1..Len(ops) : ops'[i] = ops[i]
        /\ ops'[Len(ops) + 1] = o
    BY <1>1, <1>7, AppendIs
  <2>2. ASSUME NEW i \in 1..(Len(ops) + 1), ops'[i].op = "scrape"
        PROVE  pc'[ops'[i].of] = "waiting" /\ \A j \in 1..(Len(ops) + 1) : ops'[j] = ops'[i] => j = i
    <3>1. i \in 1..Len(ops)
      BY <1>2, <1>7, <2>1, <2>2
    <3>2. pc[ops[i].of] = "waiting" /\ ops[i].of \in Requests
          /\ \A j \in 1..Len(ops) : ops[j] = ops[i] => j = i
      BY <1>2, <2>1, <2>2, <3>1, OpsFields DEF Asked
    <3>3. ASSUME NEW j \in 1..(Len(ops) + 1), ops'[j] = ops'[i]
          PROVE  j = i
      <4>1. j \in 1..Len(ops)
        BY <1>2, <1>7, <2>1, <2>2, <3>3
      <4> QED
        BY <2>1, <3>1, <3>2, <3>3, <4>1
    <3> QED
      BY <1>7, <2>1, <3>1, <3>2, <3>3
  <2> QED
    BY <2>1, <2>2 DEF Asked
<1>8. CASE /\ \A q \in Requests : pc[q] = "waiting" => pc'[q] = "waiting"
           /\ \/ UNCHANGED ops
              \/ \E o \in Ops : o.op # "scrape" /\ Fits /\ ops' = Append(ops, o)
  <2>1. \A q \in Requests : pc[q] = "waiting" => pc'[q] = "waiting"
    BY <1>8
  <2>2. CASE UNCHANGED ops
    BY <1>6, <2>1, <2>2
  <2>3. ASSUME NEW o \in Ops, o.op # "scrape", ops' = Append(ops, o)
        PROVE  Asked'
    BY <1>7, <2>1, <2>3
  <2> QED
    BY <1>8, <2>2, <2>3
<1> QED
  BY <1>3, <1>4, <1>5, <1>8, ChannelStep

------------------------------------------------------------------------------
(* What a handler keeps, and what the process does when it drains. *)

\* A handler's locals are its own.
LEMMA HandlerOthers ==
  ASSUME HandlersOK, NEW r \in Requests, Handler(r), NEW q \in Requests \ {r}
  PROVE  /\ pc'[q] = pc[q] /\ status'[q] = status[q] /\ wire'[q] = wire[q] /\ hinted'[q] = hinted[q]
         /\ todo'[q] = todo[q] /\ view'[q] = view[q] /\ missed'[q] = missed[q]
         /\ since'[q] = since[q]
<1> DEFINE Same == /\ pc'[q] = pc[q] /\ status'[q] = status[q] /\ wire'[q] = wire[q]
                   /\ hinted'[q] = hinted[q] /\ todo'[q] = todo[q] /\ view'[q] = view[q]
                   /\ missed'[q] = missed[q] /\ since'[q] = since[q]
<1>1. /\ pc = [x \in Requests |-> pc[x]] /\ status = [x \in Requests |-> status[x]]
      /\ wire = [x \in Requests |-> wire[x]] /\ hinted = [x \in Requests |-> hinted[x]]
      /\ todo = [x \in Requests |-> todo[x]] /\ view = [x \in Requests |-> view[x]]
      /\ missed = [x \in Requests |-> missed[x]] /\ since = [x \in Requests |-> since[x]]
  BY DEF HandlersOK
<1>2. pc'[q] = pc[q]
  BY HandlerPc
<1>3. ASSUME NEW s, Ends(r, s)
      PROVE  Same
  BY <1>1, <1>2, <1>3 DEF Ends, history
<1>4. ASSUME NEW s, NEW n, PassOn(r, s, n)
      PROVE  Same
  BY <1>1, <1>2, <1>4 DEF PassOn, history
<1>5. CASE Reject(r) \/ Refuse(r) \/ Answer(r) \/ GatewayAnswers(r) \/ GatewayFails(r)
  BY <1>3, <1>4, <1>5 DEF Reject, Refuse, Answer, GatewayAnswers, GatewayFails
<1>6. CASE ArriveChat(r) \/ Route(r) \/ FailOver(r) \/ ArriveAudio(r) \/ CopyEnds(r) \/ Record(r)
           \/ Ask(r)
  BY <1>2, <1>6 DEF ArriveChat, Route, FailOver, ArriveAudio, CopyEnds, Record, Ask, history
<1>7. CASE Hint(r) \/ Leave(r)
  BY <1>1, <1>2, <1>7 DEF Hint, Leave, history
<1>8. CASE ArriveScrape(r)
  BY <1>1, <1>2, <1>8 DEF ArriveScrape
<1>9. CASE GiveUp(r)
  BY <1>1, <1>2, <1>9 DEF GiveUp, ScrapeReturns
<1>10. ASSUME NEW b \in Backends, Refresh(r, b)
       PROVE  Same
  BY <1>1, <1>2, <1>10 DEF Refresh
<1> QED
  BY <1>5, <1>6, <1>7, <1>8, <1>9, <1>10 DEF Handler

LEMMA RefreshedStep ==
  ASSUME TypeOK, Asked, Refreshed, [Next]_vars
  PROVE  Refreshed'
<1>1. HandlersOK
  BY DEF TypeOK
<1>2. CASE UNCHANGED <<pc, todo>>
  BY <1>2 DEF Refreshed
<1>3. CASE Serve
  <2>1. CASE Head(ops).op = "scrape"
    <3>1. Head(ops).of \in Requests /\ ScrapeReturns(Head(ops).of)
      BY <1>3, <2>1, ServedScrape DEF TypeOK
    <3> QED
      BY <1>1, <3>1 DEF ScrapeReturns, Refreshed, HandlersOK
  <2> QED
    BY <1>2, <1>3, <2>1 DEF Serve, requestVars
<1>4. ASSUME NEW r \in Requests, Handler(r)
      PROVE  Refreshed'
  <2>1. \A q \in Requests \ {r} : pc'[q] = pc[q] /\ todo'[q] = todo[q]
    BY <1>1, <1>4, HandlerOthers
  <2>2. pc'[r] = "waiting" => todo'[r] = {}
    <3>1. CASE Ask(r)
      BY <1>1, <3>1 DEF Ask
    <3>2. CASE ~Ask(r)
      <4>1. pc[r] # "waiting"
        BY <1>1, <1>4, HandlerPc
      <4>2. /\ \A s : Ends(r, s) => pc' = [pc EXCEPT ![r] = "ending"]
            /\ \A s, n : n \in {"copying", "ending"} /\ PassOn(r, s, n) =>
                 \E x \in {"copying", "ending"} : pc' = [pc EXCEPT ![r] = x]
        BY DEF Ends, PassOn
      <4>3. pc' = pc \/ \E x \in {"reading", "calling", "relaying", "copying", "ending", "leaving",
                                   "refreshing", "done"} : pc' = [pc EXCEPT ![r] = x]
        <5>1. CASE Reject(r) \/ Refuse(r) \/ Answer(r) \/ GatewayAnswers(r) \/ GatewayFails(r)
          BY <4>2, <5>1 DEF Reject, Refuse, Answer, GatewayAnswers, GatewayFails
        <5> QED
          BY <1>4, <3>2, <5>1
          DEF Handler, ArriveChat, Route, FailOver, ArriveAudio, Hint, CopyEnds, Record, Leave,
              ArriveScrape, Refresh, GiveUp, Arrives, ScrapeReturns
      <4>4. pc'[r] # "waiting"
        BY <1>1, <4>1, <4>3 DEF HandlersOK
      <4> QED
        BY <4>4
    <3> QED
      BY <3>1, <3>2
  <2> QED
    BY <2>1, <2>2 DEF Refreshed
<1>5. ASSUME NEW code, Exit(code)
      PROVE  Refreshed'
  BY <1>5 DEF Exit, Refreshed
<1> QED
  BY <1>2, <1>3, <1>4, <1>5, LoopFrame, ProcessFrame DEF Next, StopOwner, vars, requestVars

\* Recording, of one request.
Records(r) ==
  /\ pc[r] = "absent" => wire[r] = 0 /\ ~hinted[r]
  /\ pc[r] = "relaying" => wire[r] = 0 /\ (hinted[r] => status[r] = 103)
  /\ kind[r] # "scrape" /\ pc[r] \in {"copying", "ending", "leaving"} => Agrees(r)

LEMMA RecordsStep ==
  ASSUME HandlersOK, NEW r \in Requests, Records(r), Handler(r)
  PROVE  Records(r)'
<1>1. /\ pc \in [Requests -> UNION {Stages(k) : k \in Kinds}]
      /\ status \in [Requests -> Statuses] /\ wire \in [Requests -> Statuses \cup {0}]
      /\ hinted \in [Requests -> BOOLEAN]
  BY DEF HandlersOK
<1>2. kind' = kind
  BY HandlerFrame
<1>3. ASSUME NEW s, Ends(r, s)
      PROVE  Records(r)'
  <2>1. pc'[r] = "ending" /\ status'[r] = s /\ wire'[r] = s
    BY <1>1, <1>3 DEF Ends
  <2> QED
    BY <2>1 DEF Records, Agrees
<1>4. ASSUME NEW s, NEW n \in {"copying", "ending"}, pc[r] = "relaying", PassOn(r, s, n)
      PROVE  Records(r)'
  <2>1. wire[r] = 0 /\ (hinted[r] => status[r] = 103)
    BY <1>4 DEF Records
  <2>2. pc'[r] \in {"copying", "ending"} /\ hinted' = hinted /\ status'[r] = Recorded(r, s)
    BY <1>1, <1>4 DEF PassOn
  <2>3. s \in 100..999 => wire'[r] = s
    BY <1>1, <1>4 DEF PassOn
  <2>4. s \notin 100..999 => wire'[r] = 0
    BY <1>4, <2>1 DEF PassOn
  <2>5. Agrees(r)'
    <3>1. CASE hinted[r]
      BY <2>1, <2>2, <3>1 DEF Agrees, Recorded
    <3>2. CASE ~hinted[r]
      BY <2>2, <2>3, <2>4, <3>2 DEF Agrees, Recorded
    <3> QED
      BY <3>1, <3>2
  <2> QED
    BY <2>2, <2>5 DEF Records
<1>5. CASE Reject(r) \/ Refuse(r) \/ Answer(r)
  BY <1>3, <1>5 DEF Reject, Refuse, Answer
<1>6. CASE GatewayAnswers(r) \/ GatewayFails(r)
  BY <1>4, <1>6 DEF GatewayAnswers, GatewayFails
<1>7. CASE ArriveChat(r) \/ Route(r) \/ FailOver(r) \/ ArriveScrape(r) \/ Ask(r) \/ GiveUp(r)
           \/ \E b \in Backends : Refresh(r, b)
  <2>1. pc'[r] \in {"reading", "calling", "refreshing", "waiting", "done"}
    <3>1. CASE FailOver(r) \/ \E b \in Backends : Refresh(r, b)
      BY <3>1 DEF FailOver, Refresh
    <3> QED
      BY <1>1, <1>7, <3>1
      DEF ArriveChat, Arrives, Route, ArriveScrape, Ask, GiveUp, ScrapeReturns
  <2> QED
    BY <2>1 DEF Records
<1>8. CASE ArriveAudio(r)
  <2>1. pc[r] = "absent" /\ pc'[r] = "relaying" /\ wire' = wire /\ hinted' = hinted
    BY <1>1, <1>8 DEF ArriveAudio, Arrives
  <2> QED
    BY <2>1 DEF Records
<1>9. CASE Hint(r)
  <2>1. pc[r] = "relaying" /\ ~hinted[r] /\ pc' = pc /\ wire' = wire /\ status'[r] = 103
    BY <1>1, <1>9 DEF Hint, Recorded
  <2> QED
    BY <2>1 DEF Records
<1>10. CASE CopyEnds(r) \/ Record(r)
  <2>1. /\ pc[r] \in {"copying", "ending"} /\ pc'[r] \in {"ending", "leaving"}
        /\ UNCHANGED <<status, wire, hinted>>
    BY <1>1, <1>10 DEF CopyEnds, Record
  <2> QED
    BY <1>2, <2>1 DEF Records, Agrees
<1>11. CASE Leave(r)
  <2>1. pc'[r] = "done"
    BY <1>1, <1>11 DEF Leave
  <2> QED
    BY <2>1 DEF Records
<1> QED
  BY <1>5, <1>6, <1>7, <1>8, <1>9, <1>10, <1>11 DEF Handler

LEMMA RecordingStep ==
  ASSUME TypeOK, Asked, Recording, [Next]_vars
  PROVE  Recording'
<1>1. HandlersOK /\ \A r \in Requests : Records(r)
  BY DEF TypeOK, Recording, Records
<1>2. SUFFICES \A r \in Requests : Records(r)'
  BY DEF Recording, Records
<1>3. CASE UNCHANGED requestVars
  BY <1>1, <1>3 DEF Records, Agrees, requestVars
<1>4. CASE Serve
  <2>1. CASE Head(ops).op = "scrape"
    <3>1. Head(ops).of \in Requests /\ ScrapeReturns(Head(ops).of)
      BY <1>4, <2>1, ServedScrape DEF TypeOK
    <3>2. \A q \in Requests : pc'[q] = pc[q] \/ pc'[q] = "done"
      BY <1>1, <3>1 DEF ScrapeReturns, HandlersOK
    <3>3. UNCHANGED <<kind, status, wire, hinted>>
      BY <3>1 DEF ScrapeReturns
    <3> QED
      BY <1>1, <3>2, <3>3 DEF Records, Agrees
  <2> QED
    BY <1>3, <1>4, <2>1 DEF Serve
<1>5. ASSUME NEW r \in Requests, Handler(r)
      PROVE  \A q \in Requests : Records(q)'
  <2>1. Records(r)'
    BY <1>1, <1>5, RecordsStep
  <2>2. ASSUME NEW q \in Requests \ {r}
        PROVE  Records(q)'
    <3>1. pc'[q] = pc[q] /\ status'[q] = status[q] /\ wire'[q] = wire[q] /\ hinted'[q] = hinted[q]
      BY <1>1, <1>5, HandlerOthers
    <3>2. kind' = kind
      BY <1>5, HandlerFrame
    <3> QED
      BY <1>1, <3>1, <3>2 DEF Records, Agrees
  <2> QED
    BY <2>1, <2>2
<1>6. ASSUME NEW code, Exit(code)
      PROVE  \A q \in Requests : Records(q)'
  BY <1>6 DEF Exit, Records
<1> QED
  BY <1>3, <1>4, <1>5, <1>6, LoopFrame, ProcessFrame DEF Next, StopOwner, vars

LEMMA DrainingStep ==
  ASSUME TypeOK, Draining, [Next]_vars
  PROVE  Draining'
<1>1. CASE UNCHANGED <<mainVars, running>>
  BY <1>1 DEF Draining, mainVars
<1>2. CASE Process
  BY <1>2
  DEF Process, Bind, ListenFails, Signal, SignalSeen, ErrorSeen, Drain, MainStep, CancelRoot, Alive,
      Drained, DrainTimeout, Exit, Exited, vars, healthVars, mainVars, Draining
<1> QED
  BY <1>1, <1>2, HandlerFrame, LoopFrame, ServeFrame DEF Next, healthVars

------------------------------------------------------------------------------
(* What scrapes may show. *)

\* No other step than its arrival makes a request one that scrapes.
LEMMA HandlerScraping ==
  ASSUME HandlersOK, NEW r \in Requests, Handler(r), ~ArriveScrape(r)
  PROVE  /\ since' = since \/ r \notin Scraping'
         /\ \A q \in Scraping' : q \in Scraping /\ since'[q] = since[q] /\ view'[q] = view[q]
<1>1. pc \in [Requests -> UNION {Stages(k) : k \in Kinds}]
  BY DEF HandlersOK
<1>2. \A s : Ends(r, s) => pc'[r] = "ending" /\ since' = since /\ view' = view
  BY <1>1 DEF Ends, history
<1>3. \A s, n : PassOn(r, s, n) /\ n \in {"copying", "ending"} =>
                  pc'[r] \in {"copying", "ending"} /\ since' = since /\ view' = view
  BY <1>1 DEF PassOn, history
<1>4. \/ since' = since /\ view' = view
            /\ (pc'[r] \in {"refreshing", "waiting"} => pc[r] \in {"refreshing", "waiting"})
      \/ pc'[r] = "done"
  <2>1. CASE Reject(r) \/ Refuse(r) \/ Answer(r) \/ GatewayAnswers(r) \/ GatewayFails(r)
    BY <1>2, <1>3, <2>1 DEF Reject, Refuse, Answer, GatewayAnswers, GatewayFails
  <2>2. CASE ArriveChat(r) \/ Route(r) \/ ArriveAudio(r) \/ CopyEnds(r) \/ Record(r)
    BY <1>1, <2>2 DEF ArriveChat, Arrives, Route, ArriveAudio, CopyEnds, Record, history
  <2>3. CASE FailOver(r) \/ Hint(r) \/ \E b \in Backends : Refresh(r, b)
    BY <2>3 DEF FailOver, Hint, Refresh, history
  <2>4. CASE Ask(r)
    BY <1>1, <2>4 DEF Ask, history
  <2>5. CASE Leave(r) \/ GiveUp(r)
    BY <1>1, <2>5 DEF Leave, GiveUp, ScrapeReturns
  <2> QED
    BY <2>1, <2>2, <2>3, <2>4, <2>5 DEF Handler
<1>5. ASSUME NEW q \in Scraping'
      PROVE  q \in Scraping /\ since'[q] = since[q] /\ view'[q] = view[q]
  <2>1. q \in Requests /\ pc'[q] \in {"refreshing", "waiting"}
    BY <1>5 DEF Scraping
  <2>2. CASE q = r
    BY <1>4, <2>1, <2>2 DEF Scraping
  <2>3. CASE q # r
    BY <2>1, <2>3, HandlerOthers DEF Scraping
  <2> QED
    BY <2>2, <2>3
<1> QED
  BY <1>4, <1>5 DEF Scraping

LEMMA SharedStep ==
  ASSUME TypeOK, Asked, Shared, [Next]_vars
  PROVE  Shared'
<1>1. /\ HandlersOK /\ LoopOK /\ pc \in [Requests -> UNION {Stages(k) : k \in Kinds}]
      /\ view \in [Requests -> SUBSET Backends]
      /\ since \in [Requests -> [Backends -> SUBSET {0, 1}]]
  BY DEF TypeOK, HandlersOK
<1>2. ASSUME rotation' = rotation, \A q \in Scraping' : q \in Scraping /\ view'[q] = view[q]
                                                          /\ \A b \in Backends : since[q][b] \subseteq since'[q][b]
      PROVE  Shared'
  BY <1>2 DEF Shared
<1>3. CASE UNCHANGED <<rotation, pc, view, since>>
  BY <1>3 DEF Shared, Scraping
<1>4. CASE Serve
  <2>1. rotation' = rotation
    BY <1>4, ServeFrame DEF healthVars
  <2>2. CASE Head(ops).op = "scrape"
    <3>1. Head(ops).of \in Requests /\ ScrapeReturns(Head(ops).of)
      BY <1>4, <2>2, ServedScrape
    <3>2. \A q \in Scraping' : q \in Scraping /\ view'[q] = view[q] /\ since'[q] = since[q]
      BY <1>1, <3>1 DEF ScrapeReturns, Scraping
    <3> QED
      BY <1>2, <2>1, <3>2
  <2> QED
    BY <1>3, <1>4, <2>1, <2>2 DEF Serve, requestVars
<1>5. ASSUME NEW r \in Requests, Handler(r)
      PROVE  Shared'
  <2>1. rotation' = rotation
    BY <1>5, HandlerFrame DEF healthVars
  <2>2. CASE ~ArriveScrape(r)
    BY <1>1, <1>2, <1>5, <2>1, <2>2, HandlerScraping
  <2>3. CASE ArriveScrape(r)
    <3>1. pc[r] = "absent" /\ pc' = [pc EXCEPT ![r] = "refreshing"]
      BY <2>3 DEF ArriveScrape, Arrives
    <3>2. Scraping' = Scraping \cup {r} /\ r \notin Scraping
      BY <1>1, <3>1 DEF Scraping
    <3>3. view'[r] = rotation /\ \A b \in Backends : since'[r][b] = {Bit(b, rotation)} \cup UNION {since[a][b] : a \in Scraping}
      BY <1>1, <2>3 DEF ArriveScrape
    <3>4. \A q \in Scraping : view'[q] = view[q] /\ since'[q] = since[q]
      BY <1>1, <1>5, <3>2, HandlerOthers DEF Scraping
    <3>5. ASSUME NEW q \in Scraping, NEW a \in Scraping', NEW b \in Backends
          PROVE  Bit(b, rotation) \in since'[q][b] /\ Bit(b, view'[a]) \in since'[q][b]
      <4>1. Bit(b, rotation) \in since[q][b]
        BY DEF Shared
      <4>2. CASE a = r
        BY <3>3, <3>4, <4>1, <4>2
      <4>3. CASE a # r
        BY <3>2, <3>4, <4>1, <4>3 DEF Shared
      <4> QED
        BY <4>2, <4>3
    <3>6. ASSUME NEW a \in Scraping', NEW b \in Backends
          PROVE  Bit(b, rotation) \in since'[r][b] /\ Bit(b, view'[a]) \in since'[r][b]
      <4>1. CASE a = r
        BY <3>3, <4>1
      <4>2. CASE a # r
        <5>1. a \in Scraping /\ Bit(b, view[a]) \in since[a][b] /\ view'[a] = view[a]
          BY <3>2, <3>4, <4>2 DEF Shared
        <5> QED
          BY <3>3, <5>1
      <4> QED
        BY <4>1, <4>2
    <3> QED
      BY <2>1, <3>2, <3>5, <3>6 DEF Shared
  <2> QED
    BY <2>2, <2>3
<1>6. CASE Loop
  <2>1. Scraping' = Scraping /\ view' = view
    BY <1>6, LoopFrame DEF requestVars, Scraping
  <2>2. ASSUME NEW c \in Backends, Fold(c)
        PROVE  Shared'
    <3>1. rotation' = rotation
      BY <2>2 DEF Fold, healthVars
    <3>2. since' = [r \in Requests |->
                 IF r \in Scraping THEN [since[r] EXCEPT ![c] = @ \cup {Bit(c, heard)}] ELSE since[r]]
      BY <2>2 DEF Fold
    <3>3. ASSUME NEW q \in Scraping, NEW b \in Backends
          PROVE  since[q][b] \subseteq since'[q][b]
      <4>1. q \in Requests /\ since'[q] = [since[q] EXCEPT ![c] = @ \cup {Bit(c, heard)}]
        BY <3>2 DEF Scraping
      <4> QED
        BY <1>1, <4>1
    <3> QED
      BY <1>2, <2>1, <3>1, <3>3
  <2>3. CASE Publish
    <3>1. since' = [r \in Requests |-> [b \in Backends |->
                  IF r \in Scraping THEN since[r][b] \cup {Bit(b, rotation')} ELSE since[r][b]]]
      BY <2>3 DEF Publish
    <3>2. \A q \in Scraping : \A b \in Backends : since'[q][b] = since[q][b] \cup {Bit(b, rotation')}
      BY <3>1 DEF Scraping
    <3> QED
      BY <2>1, <3>2 DEF Shared
  <2> QED
    BY <1>3, <1>6, <2>1, <2>2, <2>3, LoopFrame DEF requestVars
<1>7. ASSUME NEW code, Exit(code)
      PROVE  Shared'
  BY <1>7 DEF Exit, Shared, Scraping
<1> QED
  BY <1>3, <1>4, <1>5, <1>6, <1>7, ProcessFrame
  DEF Next, StopOwner, vars, requestVars, history, healthVars

------------------------------------------------------------------------------
(* Along the channel: what the gauge of a backend comes to. *)

LEMMA LatestKept ==
  ASSUME NEW g, NEW s, NEW t, NEW i \in Nat, NEW b, NEW V, NEW W, V \subseteq W,
         \A h \in 1..i : t[h] = s[h], Latest(g, s, i, b, V)
  PROVE  Latest(g, t, i, b, W)
<1>1. CASE g[b] \in V /\ \A h \in 1..i : ~IsHealth(s[h], b)
  BY <1>1 DEF Latest
<1>2. ASSUME NEW j \in 1..i, IsHealth(s[j], b), s[j].by \in V,
             \A h \in (j + 1)..i : ~IsHealth(s[h], b)
      PROVE  Latest(g, t, i, b, W)
  <2>1. \A h \in (j + 1)..i : h \in 1..i
    OBVIOUS
  <2> QED
    BY <1>2, <2>1 DEF Latest
<1> QED
  BY <1>1, <1>2 DEF Latest

LEMMA LatestNext ==
  ASSUME NEW g, NEW s, NEW i \in Nat, NEW b, NEW V, ~IsHealth(s[i + 1], b), Latest(g, s, i, b, V)
  PROVE  Latest(g, s, i + 1, b, V)
<1>1. CASE g[b] \in V /\ \A h \in 1..i : ~IsHealth(s[h], b)
  <2>1. \A h \in 1..(i + 1) : h \in 1..i \/ h = i + 1
    OBVIOUS
  <2> QED
    BY <1>1, <2>1 DEF Latest
<1>2. ASSUME NEW j \in 1..i, IsHealth(s[j], b), s[j].by \in V,
             \A h \in (j + 1)..i : ~IsHealth(s[h], b)
      PROVE  Latest(g, s, i + 1, b, V)
  <2>1. j \in 1..(i + 1) /\ \A h \in (j + 1)..(i + 1) : h \in (j + 1)..i \/ h = i + 1
    OBVIOUS
  <2>2. \A h \in (j + 1)..(i + 1) : ~IsHealth(s[h], b)
    BY <1>2, <2>1
  <2> QED
    BY <1>2, <2>1, <2>2 DEF Latest
<1> QED
  BY <1>1, <1>2 DEF Latest

LEMMA LatestSent ==
  ASSUME NEW g, NEW s, NEW i \in Nat, NEW b, NEW V, IsHealth(s[i + 1], b), s[i + 1].by \in V
  PROVE  Latest(g, s, i + 1, b, V)
<1>1. i + 1 \in 1..(i + 1) /\ \A h \in ((i + 1) + 1)..(i + 1) : ~IsHealth(s[h], b)
  OBVIOUS
<1> QED
  BY <1>1 DEF Latest

\* The owner applies the first operation, which leaves the gauge at f[b].
LEMMA LatestServed ==
  ASSUME NEW g, NEW f, NEW s, NEW t, NEW i \in Nat \ {0}, NEW b, NEW V, Latest(g, s, i, b, V),
         \A h \in 1..(i - 1) : t[h] = s[h + 1],
         f[b] = IF IsHealth(s[1], b) THEN s[1].by ELSE g[b]
  PROVE  Latest(f, t, i - 1, b, V)
<1>1. CASE g[b] \in V /\ \A h \in 1..i : ~IsHealth(s[h], b)
  <2>1. 1 \in 1..i /\ \A h \in 1..(i - 1) : h + 1 \in 1..i
    OBVIOUS
  <2>2. f[b] \in V /\ \A h \in 1..(i - 1) : ~IsHealth(t[h], b)
    BY <1>1, <2>1
  <2> QED
    BY <2>2 DEF Latest
<1>2. ASSUME NEW j \in 1..i, IsHealth(s[j], b), s[j].by \in V,
             \A h \in (j + 1)..i : ~IsHealth(s[h], b)
      PROVE  Latest(f, t, i - 1, b, V)
  <2>1. CASE j = 1
    <3>1. \A h \in 1..(i - 1) : h + 1 \in (j + 1)..i
      BY <2>1
    <3>2. f[b] \in V /\ \A h \in 1..(i - 1) : ~IsHealth(t[h], b)
      BY <1>2, <2>1, <3>1
    <3> QED
      BY <3>2 DEF Latest
  <2>2. CASE j # 1
    <3>1. j - 1 \in 1..(i - 1) /\ (j - 1) + 1 = j
      BY <2>2
    <3>2. \A h \in ((j - 1) + 1)..(i - 1) : h \in 1..(i - 1) /\ h + 1 \in (j + 1)..i
      BY <2>2
    <3>3. t[j - 1] = s[j]
      BY <3>1
    <3>4. \A h \in ((j - 1) + 1)..(i - 1) : ~IsHealth(t[h], b)
      BY <1>2, <3>2
    <3> QED
      BY <1>2, <3>1, <3>3, <3>4 DEF Latest
  <2> QED
    BY <2>1, <2>2
<1> QED
  BY <1>1, <1>2 DEF Latest

\* A step that takes nothing from what q may show, and gives it nothing to answer for.
Keeps(q) ==
  /\ \A b \in Backends : since[q][b] \subseteq since'[q][b]
  /\ \A b \in Backends : b \notin missed'[q] \cup todo'[q] => b \notin missed[q] \cup todo[q]

\* The same of a step that sends o.
Extends(q, o) ==
  \A b \in Backends : b \notin missed'[q] \cup todo'[q] =>
    IF IsHealth(o, b) THEN o.by \in since'[q][b]
    ELSE b \notin missed[q] \cup todo[q] /\ since[q][b] \subseteq since'[q][b]

LEMMA KeepsExtends ==
  ASSUME NEW q, Keeps(q), NEW o, o.op # "health"
  PROVE  Extends(q, o)
BY DEF Keeps, Extends, IsHealth

LEMMA SeesKept ==
  ASSUME NEW q, NEW i \in Nat, Sees(q, i), gauge' = gauge, \A h \in 1..i : ops'[h] = ops[h], Keeps(q)
  PROVE  Sees(q, i)'
<1>1. ASSUME NEW b \in Backends, b \notin missed'[q] \cup todo'[q]
      PROVE  Latest(gauge', ops', i, b, since'[q][b])
  <2>1. Latest(gauge, ops, i, b, since[q][b]) /\ since[q][b] \subseteq since'[q][b]
    BY <1>1 DEF Sees, Keeps
  <2>2. Latest(gauge, ops', i, b, since'[q][b])
    BY <2>1, LatestKept
  <2> QED
    BY <2>2
<1> QED
  BY <1>1 DEF Sees

LEMMA SeesExtended ==
  ASSUME TypeOK, NEW q, NEW o \in Ops, NEW n, n = Len(ops), Sees(q, n), gauge' = gauge,
         ops' = Append(ops, o), Extends(q, o)
  PROVE  Sees(q, n + 1)'
<1>1. n \in Nat /\ (\A h \in 1..n : ops'[h] = ops[h]) /\ ops'[n + 1] = o
  BY AppendIs DEF TypeOK, MetricsOK
<1>2. ASSUME NEW b \in Backends, b \notin missed'[q] \cup todo'[q]
      PROVE  Latest(gauge', ops', n + 1, b, since'[q][b])
  <2>1. CASE IsHealth(o, b)
    <3>1. o.by \in since'[q][b]
      BY <1>2, <2>1 DEF Extends
    <3> QED
      BY <1>1, <2>1, <3>1, LatestSent
  <2>2. CASE ~IsHealth(o, b)
    <3>1. Latest(gauge, ops, n, b, since[q][b]) /\ since[q][b] \subseteq since'[q][b]
      BY <1>2, <2>2 DEF Extends, Sees
    <3>2. Latest(gauge, ops', n, b, since'[q][b])
      BY <1>1, <3>1, LatestKept
    <3> QED
      BY <1>1, <2>2, <3>2, LatestNext
  <2> QED
    BY <2>1, <2>2
<1> QED
  BY <1>2 DEF Sees

\* A step that the scrapes which wait, and those that still refresh, come out of as
\* they went in, or having just arrived with everything to send.
WaitersKept == \A q \in Requests : pc[q] = "waiting" => Keeps(q)

RefreshersKept ==
  \A q \in Requests : pc'[q] = "refreshing" =>
     \/ pc[q] = "refreshing" /\ Keeps(q)
     \/ \A b \in Backends : b \in missed'[q] \cup todo'[q]

RefreshersExtended(o) ==
  \A q \in Requests : pc'[q] = "refreshing" => pc[q] = "refreshing" /\ Extends(q, o)

LEMMA FreshStays ==
  ASSUME TypeOK, Asked, Fresh, UNCHANGED <<gauge, ops>>, WaitersKept, RefreshersKept
  PROVE  Fresh'
<1>1. /\ Len(ops) \in Nat /\ DOMAIN ops = 1..Len(ops) /\ \A i \in 1..Len(ops) : ops[i] \in Ops
  BY LenProperties, ElementOfSeq DEF TypeOK, MetricsOK
<1>2. ASSUME NEW q \in Requests, pc'[q] = "refreshing", NEW n, n = Len(ops)
      PROVE  Sees(q, n)'
  <2>1. CASE pc[q] = "refreshing" /\ Keeps(q)
    <3>1. Sees(q, n)
      BY <1>2, <2>1 DEF Fresh
    <3> QED
      BY <1>1, <1>2, <2>1, <3>1, SeesKept
  <2>2. CASE \A b \in Backends : b \in missed'[q] \cup todo'[q]
    BY <2>2 DEF Sees
  <2> QED
    BY <1>2, <2>1, <2>2 DEF RefreshersKept
<1>3. ASSUME NEW i \in 1..Len(ops), ops[i].op = "scrape", NEW q, q = ops[i].of
      PROVE  Sees(q, i)'
  <2>1. q \in Requests /\ pc[q] = "waiting" /\ Sees(q, i) /\ i \in Nat
    BY <1>1, <1>3, OpsFields DEF Asked, Fresh
  <2>2. Keeps(q)
    BY <2>1 DEF WaitersKept
  <2> QED
    BY <2>1, <2>2, SeesKept
<1>4. \A q \in Requests : pc'[q] = "refreshing" => Sees(q, Len(ops))'
  <2> DEFINE n == Len(ops)
  <2>1. ops' = ops
    OBVIOUS
  <2>2. \A q \in Requests : pc'[q] = "refreshing" =>
           \A b \in Backends \ (missed'[q] \cup todo'[q]) : Latest(gauge', ops', n, b, since'[q][b])
    BY <1>2 DEF Sees
  <2> QED
    BY <2>1, <2>2 DEF Sees
<1>5. \A i \in DOMAIN ops : ops[i].op = "scrape" =>
         \A b \in Backends \ (missed'[ops[i].of] \cup todo'[ops[i].of]) :
            Latest(gauge', ops', i, b, since'[ops[i].of][b])
  BY <1>1, <1>3 DEF Sees
<1> QED
  BY <1>4, <1>5 DEF Fresh, Sees

LEMMA FreshSend ==
  ASSUME TypeOK, Asked, Fresh, gauge' = gauge, NEW o \in Ops, o.op # "scrape",
         ops' = Append(ops, o), WaitersKept, RefreshersExtended(o)
  PROVE  Fresh'
<1>1. /\ Len(ops) \in Nat /\ DOMAIN ops = 1..Len(ops) /\ \A i \in 1..Len(ops) : ops[i] \in Ops
      /\ Len(ops') = Len(ops) + 1 /\ DOMAIN ops' = 1..(Len(ops) + 1)
      /\ \A i \in 1..Len(ops) : ops'[i] = ops[i]
      /\ ops'[Len(ops) + 1] = o
  BY AppendIs DEF TypeOK, MetricsOK
<1>2. ASSUME NEW q \in Requests, pc'[q] = "refreshing"
      PROVE  \A b \in Backends \ (missed'[q] \cup todo'[q]) :
                Latest(gauge', ops', Len(ops'), b, since'[q][b])
  <2> DEFINE n == Len(ops)
  <2>1. n = Len(ops) /\ Len(ops') = n + 1
    BY <1>1
  <2> HIDE DEF n
  <2>2. pc[q] = "refreshing" /\ Extends(q, o)
    BY <1>2 DEF RefreshersExtended
  <2>3. Sees(q, n)
    BY <2>1, <2>2 DEF Fresh
  <2>4. ASSUME NEW m, m = n
        PROVE  Sees(q, m + 1)'
    BY <2>1, <2>2, <2>3, <2>4, SeesExtended
  <2>5. ASSUME NEW m, m = n
        PROVE  \A b \in Backends \ (missed'[q] \cup todo'[q]) : Latest(gauge', ops', m + 1, b, since'[q][b])
    BY <2>4, <2>5 DEF Sees
  <2> QED
    BY <2>1, <2>5
<1>3. ASSUME NEW i \in 1..Len(ops), ops[i].op = "scrape", NEW q, q = ops[i].of
      PROVE  Sees(q, i)'
  <2>1. q \in Requests /\ pc[q] = "waiting" /\ Sees(q, i) /\ i \in Nat
    BY <1>1, <1>3, OpsFields DEF Asked, Fresh
  <2>2. Keeps(q)
    BY <2>1 DEF WaitersKept
  <2>3. \A h \in 1..i : ops'[h] = ops[h]
    BY <1>1
  <2> QED
    BY <2>1, <2>2, <2>3, SeesKept
<1>4. \A i \in DOMAIN ops' : ops'[i].op = "scrape" =>
         \A b \in Backends \ (missed'[ops'[i].of] \cup todo'[ops'[i].of]) :
            Latest(gauge', ops', i, b, since'[ops'[i].of][b])
  <2>1. ASSUME NEW i \in 1..(Len(ops) + 1), ops'[i].op = "scrape"
        PROVE  i \in 1..Len(ops) /\ ops'[i] = ops[i]
    BY <1>1, <2>1
  <2> QED
    BY <1>1, <1>3, <2>1 DEF Sees
<1> QED
  BY <1>2, <1>4 DEF Fresh, Sees

\* What the other handlers leave alone, and a refresh.
LEMMA HandlerKeeps ==
  ASSUME TypeOK, NEW r \in Requests, Handler(r)
  PROVE  /\ WaitersKept
         /\ \A q \in Requests \ {r} : pc'[q] = "refreshing" => pc[q] = "refreshing" /\ Keeps(q)
<1>1. HandlersOK
  BY DEF TypeOK
<1>2. ASSUME NEW q \in Requests \ {r}
      PROVE  Keeps(q) /\ pc'[q] = pc[q]
  BY <1>1, HandlerOthers DEF Keeps
<1>3. pc[r] # "waiting"
  BY <1>1, HandlerPc
<1> QED
  BY <1>2, <1>3 DEF WaitersKept

\* A handler that neither arrives at, nor refreshes, nor asks for a page does not
\* refresh before nor after.
LEMMA HandlerElse ==
  ASSUME TypeOK, NEW r \in Requests, Handler(r), ~ArriveScrape(r), ~\E b \in Backends : Refresh(r, b)
  PROVE  pc'[r] # "refreshing"
<1>1. pc \in [Requests -> UNION {Stages(k) : k \in Kinds}]
  BY DEF TypeOK, HandlersOK
<1>2. \A s : Ends(r, s) => pc'[r] = "ending"
  BY <1>1 DEF Ends
<1>3. \A s, n : PassOn(r, s, n) /\ n \in {"copying", "ending"} => pc'[r] \in {"copying", "ending"}
  BY <1>1 DEF PassOn
<1>4. CASE Reject(r) \/ Refuse(r) \/ Answer(r) \/ GatewayAnswers(r) \/ GatewayFails(r)
  BY <1>2, <1>3, <1>4 DEF Reject, Refuse, Answer, GatewayAnswers, GatewayFails
<1>5. CASE ArriveChat(r) \/ Route(r) \/ ArriveAudio(r) \/ CopyEnds(r) \/ Record(r) \/ Leave(r) \/ Ask(r)
           \/ GiveUp(r)
  BY <1>1, <1>5 DEF ArriveChat, Arrives, Route, ArriveAudio, CopyEnds, Record, Leave, Ask, GiveUp,
                    ScrapeReturns
<1>6. CASE FailOver(r) \/ Hint(r)
  BY <1>6 DEF FailOver, Hint
<1> QED
  BY <1>4, <1>5, <1>6 DEF Handler

LEMMA FreshRefresh ==
  ASSUME TypeOK, Asked, Fresh, Shared, NEW r \in Requests, NEW b \in Backends, Refresh(r, b)
  PROVE  Fresh'
<1>1. HandlersOK /\ Handler(r)
  BY DEF TypeOK, Handler
<1>2. /\ pc' = pc /\ view' = view /\ since' = since /\ gauge' = gauge /\ pc[r] = "refreshing"
      /\ todo'[r] = todo[r] \ {b}
  BY <1>1 DEF Refresh, HandlersOK
<1>3. WaitersKept /\ \A q \in Requests \ {r} : pc'[q] = "refreshing" => pc[q] = "refreshing" /\ Keeps(q)
  BY <1>1, HandlerKeeps
<1>4. CASE Fits
  <2> DEFINE o == Health(b, Bit(b, view[r]))
  <2>1. /\ o \in Ops /\ o.op # "scrape" /\ o.by = Bit(b, view[r])
        /\ \A c : IsHealth(o, c) => c = b
        /\ ops' = Append(ops, o) /\ missed' = missed
    BY <1>4, OpsAre, KindsOfOps DEF Refresh, Send, IsHealth
  <2>2. IsHealth(o, b)
    BY KindsOfOps DEF IsHealth
  <2> HIDE DEF o
  <2>3. ASSUME NEW q \in Requests, pc'[q] = "refreshing"
        PROVE  pc[q] = "refreshing" /\ Extends(q, o)
    <3>1. q \in Scraping /\ r \in Scraping
      BY <1>2, <2>3 DEF Scraping
    <3>2. o.by \in since'[q][b]
      BY <1>2, <2>1, <3>1 DEF Shared
    <3>3. ASSUME NEW c \in Backends, c # b, c \notin missed'[q] \cup todo'[q]
          PROVE  c \notin missed[q] \cup todo[q] /\ since[q][c] \subseteq since'[q][c]
      <4>1. CASE q = r
        BY <1>2, <2>1, <3>3, <4>1
      <4>2. CASE q # r
        BY <1>3, <2>3, <3>3, <4>2 DEF Keeps
      <4> QED
        BY <4>1, <4>2
    <3> QED
      BY <1>2, <2>1, <2>2, <2>3, <3>2, <3>3 DEF Extends
  <2>4. RefreshersExtended(o)
    BY <2>3 DEF RefreshersExtended
  <2> QED
    BY <1>2, <1>3, <2>1, <2>4, FreshSend
<1>5. CASE ~Fits
  <2>1. UNCHANGED ops /\ missed'[r] = missed[r] \cup {b}
    BY <1>1, <1>5 DEF Refresh, Send, HandlersOK
  <2>2. Keeps(r)
    BY <1>2, <2>1 DEF Keeps
  <2>3. RefreshersKept
    BY <1>2, <1>3, <2>2 DEF RefreshersKept
  <2> QED
    BY <1>2, <1>3, <2>1, <2>3, FreshStays
<1> QED
  BY <1>4, <1>5

LEMMA FreshAsk ==
  ASSUME TypeOK, Asked, Fresh, NEW r \in Requests, Ask(r)
  PROVE  Fresh'
<1>1. HandlersOK /\ Handler(r) /\ ops \in Seq(Ops)
  BY DEF TypeOK, Handler, MetricsOK
<1>2. /\ pc[r] = "refreshing" /\ pc' = [pc EXCEPT ![r] = "waiting"] /\ ops' = Append(ops, Scrape(r))
      /\ UNCHANGED <<gauge, todo, missed, since>>
  BY DEF Ask, Send, history
<1>3. Scrape(r) \in Ops /\ Scrape(r).op = "scrape" /\ Scrape(r).of = r
  BY OpsAre, KindsOfOps
<1>4. /\ Len(ops) \in Nat /\ DOMAIN ops = 1..Len(ops) /\ \A i \in 1..Len(ops) : ops[i] \in Ops
      /\ Len(ops') = Len(ops) + 1 /\ DOMAIN ops' = 1..(Len(ops) + 1)
      /\ \A i \in 1..Len(ops) : ops'[i] = ops[i]
      /\ ops'[Len(ops) + 1] = Scrape(r)
  BY <1>1, <1>2, <1>3, AppendIs
<1>5. \A q \in Requests : Keeps(q) /\ Extends(q, Scrape(r))
  BY <1>2, <1>3 DEF Keeps, Extends, IsHealth
<1>6. ASSUME NEW q \in Requests, pc[q] = "refreshing"
      PROVE  \A b \in Backends \ (missed'[q] \cup todo'[q]) :
                Latest(gauge', ops', Len(ops) + 1, b, since'[q][b])
  <2>1. Sees(q, Len(ops))
    BY <1>6 DEF Fresh
  <2>2. ASSUME NEW n, n = Len(ops)
        PROVE  Sees(q, n + 1)'
    BY <1>2, <1>3, <1>5, <2>1, <2>2, SeesExtended
  <2>3. ASSUME NEW n, n = Len(ops)
        PROVE  \A b \in Backends \ (missed'[q] \cup todo'[q]) : Latest(gauge', ops', n + 1, b, since'[q][b])
    BY <2>2, <2>3 DEF Sees
  <2> QED
    BY <2>3
<1>7. ASSUME NEW i \in 1..Len(ops), ops[i].op = "scrape", NEW q, q = ops[i].of
      PROVE  Sees(q, i)'
  <2>1. q \in Requests /\ Sees(q, i) /\ i \in Nat
    BY <1>4, <1>7, OpsFields DEF Fresh
  <2>2. Keeps(q) /\ \A h \in 1..i : ops'[h] = ops[h]
    BY <1>4, <1>5, <2>1
  <2> QED
    BY <1>2, <2>1, <2>2, SeesKept
<1>8. ASSUME NEW i \in DOMAIN ops', ops'[i].op = "scrape"
      PROVE  \A b \in Backends \ (missed'[ops'[i].of] \cup todo'[ops'[i].of]) :
                Latest(gauge', ops', i, b, since'[ops'[i].of][b])
  <2>1. CASE i \in 1..Len(ops)
    <3>1. ops'[i] = ops[i]
      BY <1>4, <2>1
    <3>2. ASSUME NEW q, q = ops[i].of
          PROVE  \A b \in Backends \ (missed'[q] \cup todo'[q]) : Latest(gauge', ops', i, b, since'[q][b])
      BY <1>7, <1>8, <2>1, <3>1, <3>2 DEF Sees
    <3> QED
      BY <3>1, <3>2
  <2>2. CASE i = Len(ops) + 1
    BY <1>2, <1>3, <1>4, <1>6, <2>2
  <2> QED
    BY <1>4, <1>8, <2>1, <2>2
<1>9. ASSUME NEW q \in Requests, pc'[q] = "refreshing"
      PROVE  \A b \in Backends \ (missed'[q] \cup todo'[q]) :
                Latest(gauge', ops', Len(ops'), b, since'[q][b])
  <2>1. pc[q] = "refreshing"
    BY <1>1, <1>2, <1>9 DEF HandlersOK
  <2> QED
    BY <1>4, <1>6, <2>1
<1> QED
  BY <1>8, <1>9 DEF Fresh, Sees

LEMMA FreshServe ==
  ASSUME TypeOK, Asked, Fresh, Serve
  PROVE  Fresh'
<1>1. /\ HandlersOK /\ ops \in Seq(Ops) /\ ops # <<>> /\ ops' = Tail(ops)
      /\ gauge \in [Backends -> -1..1]
  BY DEF TypeOK, MetricsOK, Serve
<1>2. /\ Len(ops) \in Nat \ {0} /\ DOMAIN ops = 1..Len(ops) /\ \A i \in 1..Len(ops) : ops[i] \in Ops
      /\ Len(ops') = Len(ops) - 1 /\ DOMAIN ops' = 1..(Len(ops) - 1)
      /\ \A i \in 1..(Len(ops) - 1) : ops'[i] = ops[i + 1]
      /\ Head(ops) = ops[1]
  BY <1>1, TailIs
<1>3. ops[1] \in Ops
  BY <1>2
<1>4. ASSUME NEW b \in Backends
      PROVE  gauge'[b] = IF IsHealth(ops[1], b) THEN ops[1].by ELSE gauge[b]
  <2>1. CASE ops[1].op = "health"
    <3>1. gauge' = [gauge EXCEPT ![ops[1].of] = ops[1].by]
      BY <1>2, <2>1 DEF Serve
    <3> QED
      BY <1>1, <2>1, <3>1 DEF IsHealth
  <2>2. CASE ops[1].op # "health"
    <3>1. gauge' = gauge
      BY <1>2, <2>2 DEF Serve
    <3> QED
      BY <2>2, <3>1 DEF IsHealth
  <2> QED
    BY <2>1, <2>2
<1>5. ASSUME NEW q \in Requests, ops[1] # Scrape(q)
      PROVE  /\ pc'[q] = pc[q] /\ todo'[q] = todo[q] /\ missed'[q] = missed[q] /\ since'[q] = since[q]
  <2>1. CASE ops[1].op = "scrape"
    <3>1. ops[1].of \in Requests /\ ScrapeReturns(ops[1].of) /\ ops[1].of # q
      BY <1>2, <1>3, <1>5, <2>1, OpsFields, ServedScrape
    <3> QED
      BY <1>1, <3>1 DEF ScrapeReturns, HandlersOK
  <2>2. CASE ops[1].op # "scrape"
    BY <1>2, <2>2 DEF Serve, requestVars
  <2> QED
    BY <2>1, <2>2
<1>6. ASSUME NEW q \in Requests, ops[1] # Scrape(q), NEW i \in 1..Len(ops), Sees(q, i)
      PROVE  \A b \in Backends \ (missed'[q] \cup todo'[q]) :
                Latest(gauge', ops', i - 1, b, since'[q][b])
  <2>1. ASSUME NEW b \in Backends, b \notin missed[q] \cup todo[q]
        PROVE  Latest(gauge', ops', i - 1, b, since[q][b])
    <3>1. Latest(gauge, ops, i, b, since[q][b])
      BY <1>6, <2>1 DEF Sees
    <3>2. i \in Nat \ {0} /\ \A h \in 1..(i - 1) : ops'[h] = ops[h + 1]
      BY <1>2
    <3> QED
      BY <1>4, <3>1, <3>2, LatestServed
  <2> QED
    BY <1>5, <1>6, <2>1
<1>7. ASSUME NEW q \in Requests, pc'[q] = "refreshing"
      PROVE  \A b \in Backends \ (missed'[q] \cup todo'[q]) :
                Latest(gauge', ops', Len(ops'), b, since'[q][b])
  <2>1. ops[1] # Scrape(q)
    <3>1. SUFFICES ASSUME ops[1] = Scrape(q)
                   PROVE  FALSE
      OBVIOUS
    <3>2. ops[1].op = "scrape" /\ ops[1].of = q
      BY <3>1, KindsOfOps
    <3>3. pc' = [pc EXCEPT ![q] = "done"]
      BY <1>2, <3>2 DEF Serve, ScrapeReturns
    <3> QED
      BY <1>1, <1>7, <3>3 DEF HandlersOK
  <2>2. pc[q] = "refreshing" /\ Len(ops) \in 1..Len(ops)
    BY <1>2, <1>5, <1>7, <2>1
  <2>3. Sees(q, Len(ops))
    BY <2>2 DEF Fresh
  <2> QED
    BY <1>2, <1>6, <2>1, <2>2, <2>3
<1>8. ASSUME NEW i \in 1..(Len(ops) - 1), ops[i + 1].op = "scrape", NEW q, q = ops[i + 1].of
      PROVE  \A b \in Backends \ (missed'[q] \cup todo'[q]) : Latest(gauge', ops', i, b, since'[q][b])
  <2>1. i + 1 \in 1..Len(ops) /\ 1 \in 1..Len(ops) /\ 1 # i + 1 /\ (i + 1) - 1 = i
    BY <1>2
  <2>2. q \in Requests /\ ops[i + 1] = Scrape(q) /\ Sees(q, i + 1)
    BY <1>2, <1>8, <2>1, OpsFields DEF Fresh
  <2>3. ops[1] # Scrape(q)
    BY <1>2, <1>8, <2>1, <2>2 DEF Asked
  <2>4. ASSUME NEW j, j = i + 1
        PROVE  \A b \in Backends \ (missed'[q] \cup todo'[q]) : Latest(gauge', ops', j - 1, b, since'[q][b])
    BY <1>6, <2>1, <2>2, <2>3, <2>4
  <2> QED
    BY <2>1, <2>4
<1>9. ASSUME NEW i \in DOMAIN ops', ops'[i].op = "scrape"
      PROVE  \A b \in Backends \ (missed'[ops'[i].of] \cup todo'[ops'[i].of]) :
                Latest(gauge', ops', i, b, since'[ops'[i].of][b])
  <2>1. i \in 1..(Len(ops) - 1) /\ ops'[i] = ops[i + 1]
    BY <1>2, <1>9
  <2>2. ASSUME NEW q, q = ops[i + 1].of
        PROVE  \A b \in Backends \ (missed'[q] \cup todo'[q]) : Latest(gauge', ops', i, b, since'[q][b])
    BY <1>8, <1>9, <2>1, <2>2
  <2> QED
    BY <2>1, <2>2
<1> QED
  BY <1>7, <1>9 DEF Fresh, Sees

\* Updates of counters pass by what scrapes may show.
LEMMA FreshTally ==
  ASSUME TypeOK, Asked, Fresh, NEW r \in Requests, Handler(r), pc'[r] # "refreshing",
         NEW c \in Counters, NEW n \in {1, -1}, Tally(c, n)
  PROVE  Fresh'
<1>1. WaitersKept /\ \A q \in Requests \ {r} : pc'[q] = "refreshing" => pc[q] = "refreshing" /\ Keeps(q)
  BY HandlerKeeps
<1>2. gauge' = gauge
  BY HandlerFrame
<1>3. CASE Fits
  <2> DEFINE o == Update(c, n)
  <2>1. o \in Ops /\ o.op # "scrape" /\ o.op # "health" /\ ops' = Append(ops, o)
    BY <1>3, OpsAre, KindsOfOps DEF Tally, Send
  <2> HIDE DEF o
  <2>2. RefreshersExtended(o)
    BY <1>1, <2>1, KeepsExtends DEF RefreshersExtended
  <2> QED
    BY <1>1, <1>2, <2>1, <2>2, FreshSend
<1>4. CASE ~Fits
  <2>1. UNCHANGED ops
    BY <1>4 DEF Tally, Send
  <2>2. RefreshersKept
    BY <1>1 DEF RefreshersKept
  <2> QED
    BY <1>1, <1>2, <2>1, <2>2, FreshStays
<1> QED
  BY <1>3, <1>4

LEMMA FreshHandler ==
  ASSUME TypeOK, Asked, Fresh, Shared, NEW r \in Requests, Handler(r)
  PROVE  Fresh'
<1>1. HandlersOK /\ status[r] \in Statuses
  BY DEF TypeOK, HandlersOK
<1>2. WaitersKept /\ \A q \in Requests \ {r} : pc'[q] = "refreshing" => pc[q] = "refreshing" /\ Keeps(q)
  BY HandlerKeeps
<1>3. gauge' = gauge
  BY HandlerFrame
<1>4. CASE ArriveScrape(r)
  <2>1. /\ ops' = ops /\ todo' = [todo EXCEPT ![r] = known]
        /\ missed' = [missed EXCEPT ![r] = Backends \ known]
    BY <1>4 DEF ArriveScrape, metricVars
  <2>2. \A b \in Backends : b \in missed'[r] \cup todo'[r]
    BY <1>1, <2>1 DEF HandlersOK
  <2>3. RefreshersKept
    BY <1>2, <2>2 DEF RefreshersKept
  <2> QED
    BY <1>2, <1>3, <2>1, <2>3, FreshStays
<1>5. ASSUME NEW b \in Backends, Refresh(r, b)
      PROVE  Fresh'
  BY <1>5, FreshRefresh
<1>6. CASE Ask(r)
  BY <1>6, FreshAsk
<1>7. CASE ~ArriveScrape(r) /\ ~(\E b \in Backends : Refresh(r, b)) /\ ~Ask(r)
  <2>1. pc'[r] # "refreshing"
    BY <1>7, HandlerElse
  <2>2. CASE ArriveChat(r) \/ FailOver(r) \/ ArriveAudio(r) \/ Record(r) \/ Leave(r)
    <3>1. \E c \in Counters : \E n \in {1, -1} : Tally(c, n)
      BY <1>1, <2>2, CountersAre DEF ArriveChat, FailOver, ArriveAudio, Record, Leave
    <3> QED
      BY <2>1, <3>1, FreshTally
  <2>3. CASE UNCHANGED ops
    <3>1. RefreshersKept
      BY <1>2, <2>1 DEF RefreshersKept
    <3> QED
      BY <1>2, <1>3, <2>3, <3>1, FreshStays
  <2> QED
    BY <1>7, <2>2, <2>3
    DEF Handler, Reject, Refuse, Route, Answer, Hint, GatewayAnswers, GatewayFails, CopyEnds, GiveUp,
        Ends, PassOn, metricVars
<1> QED
  BY <1>4, <1>5, <1>6, <1>7

LEMMA FreshLoop ==
  ASSUME TypeOK, Asked, Fresh, Loop
  PROVE  Fresh'
<1>1. pc' = pc /\ todo' = todo /\ missed' = missed /\ gauge' = gauge
  BY LoopFrame DEF requestVars
<1>2. since \in [Requests -> [Backends -> SUBSET {0, 1}]]
  BY DEF TypeOK, HandlersOK
<1>3. ASSUME \A q \in Requests : \A c \in Backends : since[q][c] \subseteq since'[q][c]
      PROVE  WaitersKept /\ RefreshersKept /\ \A q \in Requests : Keeps(q)
  <2>1. \A q \in Requests : Keeps(q)
    BY <1>1, <1>3 DEF Keeps
  <2> QED
    BY <1>1, <2>1 DEF WaitersKept, RefreshersKept
<1>4. CASE UNCHANGED <<ops, since>>
  BY <1>1, <1>3, <1>4, FreshStays
<1>5. CASE Publish
  <2>1. ops' = ops
    BY <1>5 DEF Publish, metricVars
  <2>2. since' = [r \in Requests |-> [b \in Backends |->
                IF r \in Scraping THEN since[r][b] \cup {Bit(b, rotation')} ELSE since[r][b]]]
    BY <1>5 DEF Publish
  <2>3. \A q \in Requests : \A c \in Backends : since[q][c] \subseteq since'[q][c]
    BY <2>2
  <2> QED
    BY <1>1, <1>3, <2>1, <2>3, FreshStays
<1>6. ASSUME NEW b \in Backends, Fold(b)
      PROVE  Fresh'
  <2>1. since' = [r \in Requests |->
               IF r \in Scraping THEN [since[r] EXCEPT ![b] = @ \cup {Bit(b, heard)}] ELSE since[r]]
    BY <1>6 DEF Fold
  <2>2. \A q \in Requests : \A c \in Backends : since[q][c] \subseteq since'[q][c]
    BY <1>2, <2>1
  <2>3. WaitersKept /\ RefreshersKept /\ \A q \in Requests : Keeps(q)
    BY <1>3, <2>2
  <2>4. CASE Fits
    <3> DEFINE o == Health(b, Bit(b, heard))
    <3>1. /\ o \in Ops /\ o.op # "scrape" /\ o.by = Bit(b, heard) /\ \A c : IsHealth(o, c) => c = b
          /\ ops' = Append(ops, o)
      BY <1>6, <2>4, OpsAre, KindsOfOps DEF Fold, Send, IsHealth
    <3> HIDE DEF o
    <3>2. ASSUME NEW q \in Requests, pc'[q] = "refreshing"
          PROVE  pc[q] = "refreshing" /\ Extends(q, o)
      <4>1. q \in Scraping
        BY <1>1, <3>2 DEF Scraping
      <4>2. since'[q][b] = since[q][b] \cup {Bit(b, heard)}
        BY <1>2, <2>1, <4>1
      <4>3. o.by \in since'[q][b]
        BY <3>1, <4>2
      <4>4. Keeps(q)
        BY <2>3
      <4> QED
        BY <1>1, <3>1, <3>2, <4>3, <4>4 DEF Extends, Keeps
    <3>3. RefreshersExtended(o)
      BY <3>2 DEF RefreshersExtended
    <3> QED
      BY <1>1, <2>3, <3>1, <3>3, FreshSend
  <2>5. CASE ~Fits
    <3>1. ops' = ops
      BY <1>6, <2>5 DEF Fold, Send
    <3> QED
      BY <1>1, <2>3, <3>1, FreshStays
  <2> QED
    BY <2>4, <2>5
<1> QED
  BY <1>4, <1>5, <1>6, LoopFrame

LEMMA FreshStep ==
  ASSUME TypeOK, Asked, Fresh, Shared, [Next]_vars
  PROVE  Fresh'
<1>1. CASE UNCHANGED <<gauge, ops, pc, todo, missed, since>>
  BY <1>1 DEF Fresh, Sees
<1>2. ASSUME NEW code, Exit(code)
      PROVE  Fresh'
  BY <1>2 DEF Exit, Fresh
<1> QED
  BY <1>1, <1>2, FreshServe, FreshHandler, FreshLoop, ProcessFrame
  DEF Next, StopOwner, vars, metricVars, requestVars, history

------------------------------------------------------------------------------
(* Counting: what the channel holds for a counter, and what happened. *)

\* The places of s at which o waits.
Places(s, o) == {i \in DOMAIN s : s[i] = o}

LEMMA PlacesFinite ==
  ASSUME NEW S, NEW s \in Seq(S), NEW o
  PROVE  IsFiniteSet(Places(s, o)) /\ Cardinality(Places(s, o)) \in Nat
<1>1. Len(s) \in Nat /\ DOMAIN s = 1..Len(s)
  BY LenProperties
<1>2. IsFiniteSet(1..Len(s))
  BY <1>1, FS_Interval
<1>3. Places(s, o) \in SUBSET (1..Len(s))
  BY <1>1 DEF Places
<1>4. IsFiniteSet(Places(s, o))
  BY <1>2, <1>3, FS_Subset
<1> QED
  BY <1>4, FS_CardinalityType

LEMMA PlacesAppend ==
  ASSUME NEW S, NEW s \in Seq(S), NEW p \in S, NEW o
  PROVE  Cardinality(Places(Append(s, p), o)) = Cardinality(Places(s, o)) + (IF p = o THEN 1 ELSE 0)
<1>1. /\ Len(s) \in Nat /\ DOMAIN s = 1..Len(s) /\ DOMAIN Append(s, p) = 1..(Len(s) + 1)
      /\ \A i \in 1..Len(s) : Append(s, p)[i] = s[i]
      /\ Append(s, p)[Len(s) + 1] = p
  BY AppendIs
<1>2. IsFiniteSet(Places(s, o)) /\ Cardinality(Places(s, o)) \in Nat
  BY PlacesFinite
<1>3. CASE p = o
  <2>1. \A i : i \in Places(Append(s, p), o) <=> i \in Places(s, o) \cup {Len(s) + 1}
    BY <1>1, <1>3 DEF Places
  <2>2. Places(Append(s, p), o) = Places(s, o) \cup {Len(s) + 1} /\ Len(s) + 1 \notin Places(s, o)
    BY <1>1, <2>1 DEF Places
  <2> QED
    BY <1>2, <1>3, <2>2, FS_AddElement
<1>4. CASE p # o
  <2>1. \A i : i \in Places(Append(s, p), o) <=> i \in Places(s, o)
    BY <1>1, <1>4 DEF Places
  <2>2. Places(Append(s, p), o) = Places(s, o)
    BY <2>1
  <2> QED
    BY <1>2, <1>4, <2>2
<1> QED
  BY <1>3, <1>4

LEMMA PlacesTail ==
  ASSUME NEW S, NEW s \in Seq(S), s # <<>>, NEW o
  PROVE  Cardinality(Places(Tail(s), o)) = Cardinality(Places(s, o)) - (IF Head(s) = o THEN 1 ELSE 0)
<1>1. /\ Len(s) \in Nat \ {0} /\ DOMAIN s = 1..Len(s)
      /\ Tail(s) \in Seq(S) /\ DOMAIN Tail(s) = 1..(Len(s) - 1)
      /\ \A i \in 1..(Len(s) - 1) : Tail(s)[i] = s[i + 1]
      /\ Head(s) = s[1]
  BY TailIs
<1>2. IsFiniteSet(Places(s, o)) /\ Cardinality(Places(s, o)) \in Nat
  BY PlacesFinite
<1>3. IsFiniteSet(Places(Tail(s), o))
  BY <1>1, PlacesFinite
<1> DEFINE A == Places(Tail(s), o)
           B == Places(s, o) \ {1}
           f == [i \in A |-> i + 1]
<1>4. /\ \A i : i \in A <=> i \in 1..(Len(s) - 1) /\ s[i + 1] = o
      /\ \A i : i \in B <=> i \in 2..Len(s) /\ s[i] = o
  BY <1>1 DEF Places
<1>5. f \in [A -> B]
  BY <1>1, <1>4
<1>6. \A i, j \in A : f[i] = f[j] => i = j
  BY <1>1, <1>4
<1>7. \A k \in B : \E i \in A : f[i] = k
  <2>1. ASSUME NEW k \in B
        PROVE  k - 1 \in A /\ f[k - 1] = k
    <3>1. k \in 2..Len(s) /\ s[k] = o /\ k - 1 \in 1..(Len(s) - 1) /\ (k - 1) + 1 = k
      BY <1>1, <1>4
    <3> QED
      BY <1>4, <3>1
  <2> QED
    BY <2>1
<1>8. ExistsBijection(A, B)
  <2> HIDE DEF A, B, f
  <2>1. f \in Injection(A, B) /\ f \in Surjection(A, B)
    BY <1>5, <1>6, <1>7 DEF Injection, IsInjective, Surjection, f
  <2> QED
    BY <2>1 DEF Bijection, ExistsBijection
<1>9. Cardinality(A) = Cardinality(B)
  <2> HIDE DEF A, B, f
  <2>1. IsFiniteSet(A)
    BY <1>3 DEF A
  <2> QED
    BY <1>8, <2>1, FS_Bijection
<1>10. Cardinality(B) = Cardinality(Places(s, o)) - (IF Head(s) = o THEN 1 ELSE 0)
  <2>1. 1 \in Places(s, o) <=> Head(s) = o
    BY <1>1 DEF Places
  <2>2. Cardinality(Places(s, o) \ {1})
          = IF 1 \in Places(s, o) THEN Cardinality(Places(s, o)) - 1 ELSE Cardinality(Places(s, o))
    BY <1>2, FS_RemoveElement
  <2> QED
    BY <1>2, <2>1, <2>2
<1> QED
  BY <1>9, <1>10

\* What the channel s holds for the counter c, and what an operation is worth to it.
Held(s, c) == Cardinality(Places(s, Update(c, 1))) - Cardinality(Places(s, Update(c, -1)))

Worth(o, c) == IF o.op = "count" /\ o.of = c THEN o.by ELSE 0

LEMMA QueuedIsHeld == \A c : Queued(c) = Held(ops, c) /\ Queued(c)' = Held(ops', c)
BY DEF Queued, Pending, Held, Places

LEMMA WorthIs ==
  ASSUME NEW o \in Ops, NEW c
  PROVE  /\ Worth(o, c) \in Int
         /\ Worth(o, c) = (IF o = Update(c, 1) THEN 1 ELSE 0) - (IF o = Update(c, -1) THEN 1 ELSE 0)
<1>1. CASE o.op = "count"
  <2>1. o = Update(o.of, o.by) /\ o.by \in {1, -1}
    BY <1>1, OpsFields
  <2>2. \A n \in {1, -1} : o = Update(c, n) <=> o.of = c /\ o.by = n
    BY <2>1 DEF Update
  <2> QED
    BY <1>1, <2>1, <2>2 DEF Worth
<1>2. CASE o.op # "count"
  <2>1. o # Update(c, 1) /\ o # Update(c, -1)
    BY <1>2, KindsOfOps
  <2> QED
    BY <1>2, <2>1 DEF Worth
<1> QED
  BY <1>1, <1>2

LEMMA HeldInt ==
  ASSUME NEW s \in Seq(Ops), NEW c
  PROVE  Held(s, c) \in Int
BY PlacesFinite DEF Held

LEMMA HeldAppend ==
  ASSUME NEW s \in Seq(Ops), NEW o \in Ops, NEW c
  PROVE  Held(Append(s, o), c) = Held(s, c) + Worth(o, c)
<1>1. Cardinality(Places(s, Update(c, 1))) \in Nat /\ Cardinality(Places(s, Update(c, -1))) \in Nat
  BY PlacesFinite
<1>2. \A p : Cardinality(Places(Append(s, o), p)) = Cardinality(Places(s, p)) + (IF o = p THEN 1 ELSE 0)
  BY PlacesAppend
<1>3. Worth(o, c) = (IF o = Update(c, 1) THEN 1 ELSE 0) - (IF o = Update(c, -1) THEN 1 ELSE 0)
  BY WorthIs
<1> QED
  BY <1>1, <1>2, <1>3 DEF Held

LEMMA HeldTail ==
  ASSUME NEW s \in Seq(Ops), s # <<>>, NEW c
  PROVE  Held(Tail(s), c) = Held(s, c) - Worth(Head(s), c)
<1>1. Cardinality(Places(s, Update(c, 1))) \in Nat /\ Cardinality(Places(s, Update(c, -1))) \in Nat
  BY PlacesFinite
<1>2. \A p : Cardinality(Places(Tail(s), p)) = Cardinality(Places(s, p)) - (IF Head(s) = p THEN 1 ELSE 0)
  BY PlacesTail
<1>3. Worth(Head(s), c)
        = (IF Head(s) = Update(c, 1) THEN 1 ELSE 0) - (IF Head(s) = Update(c, -1) THEN 1 ELSE 0)
  BY HeadTailProperties, WorthIs
<1> QED
  BY <1>1, <1>2, <1>3 DEF Held

LEMMA HeldNone ==
  ASSUME NEW c
  PROVE  Held(<<>>, c) = 0
<1>1. ASSUME NEW o
      PROVE  Cardinality(Places(<<>>, o)) = 0
  <2>1. Places(<<>>, o) = {}
    BY DEF Places
  <2> QED
    BY <2>1, FS_EmptySet
<1>2. Cardinality(Places(<<>>, Update(c, 1))) = 0 /\ Cardinality(Places(<<>>, Update(c, -1))) = 0
  BY <1>1
<1> QED
  BY <1>2 DEF Held

\* The sum that Accounted compares moves by what is tallied.
LEMMA TallyMoves ==
  ASSUME TypeOK, NEW c \in Counters, NEW n \in {1, -1}, Tally(c, n), NEW d \in Counters
  PROVE  Held(ops', d) + dropped'[d] = Held(ops, d) + dropped[d] + (IF d = c THEN n ELSE 0)
<1>1. ops \in Seq(Ops) /\ dropped \in [Counters -> Int] /\ Update(c, n) \in Ops
  BY OpsAre DEF TypeOK, MetricsOK
<1>2. Held(ops, d) \in Int
  BY <1>1, HeldInt
<1>3. Worth(Update(c, n), d) = IF d = c THEN n ELSE 0
  BY DEF Worth, Update
<1>4. CASE Fits
  <2>1. ops' = Append(ops, Update(c, n)) /\ dropped' = dropped
    BY <1>4 DEF Tally, Send
  <2>2. Held(ops', d) = Held(ops, d) + (IF d = c THEN n ELSE 0)
    BY <1>1, <1>3, <2>1, HeldAppend
  <2> QED
    BY <1>1, <1>2, <2>1, <2>2
<1>5. CASE ~Fits
  <2>1. ops' = ops /\ dropped' = [dropped EXCEPT ![c] = @ + n]
    BY <1>5 DEF Tally, Send
  <2> QED
    BY <1>1, <1>2, <2>1
<1> QED
  BY <1>4, <1>5

LEMMA OtherSends ==
  ASSUME TypeOK, NEW o \in Ops, o.op # "count", Send(o), NEW d
  PROVE  Held(ops', d) = Held(ops, d)
<1>1. ops \in Seq(Ops) /\ Worth(o, d) = 0
  BY DEF TypeOK, MetricsOK, Worth
<1>2. Held(ops, d) \in Int
  BY <1>1, HeldInt
<1>3. CASE Fits
  BY <1>1, <1>2, <1>3, HeldAppend DEF Send
<1>4. CASE ~Fits
  BY <1>4 DEF Send
<1> QED
  BY <1>3, <1>4

\* What really happened, as sets of requests and failovers.
LEMMA TruthFinite ==
  /\ IsFiniteSet(InFlight) /\ IsFiniteSet(InFlight')
  /\ IsFiniteSet(Failovers)
  /\ \A s : IsFiniteSet(Ended(s))
<1>1. IsFiniteSet(Requests)
  BY ServiceAssumption
<1>2. InFlight \in SUBSET Requests /\ InFlight' \in SUBSET Requests /\ \A s : Ended(s) \in SUBSET Requests
  BY DEF InFlight, Ended
<1>3. IsFiniteSet(Requests \X (1..Retries)) /\ Failovers \in SUBSET (Requests \X (1..Retries))
  <2>1. IsFiniteSet(1..Retries)
    BY ServiceAssumption, FS_Interval
  <2> QED
    BY <1>1, <2>1, FS_Product DEF Failovers
<1> QED
  BY <1>1, <1>2, <1>3, FS_Subset

LEMMA CountersSplit ==
  ASSUME NEW c \in Counters
  PROVE  \/ c = Open
         \/ c = Failover /\ c # Open
         \/ c = Done(c[2]) /\ c[2] \in Statuses /\ c # Open /\ c # Failover
BY DEF Counters, Open, Failover, Done

LEMMA TruthOpen == Truth(Open) = Cardinality(InFlight) /\ Truth(Open)' = Cardinality(InFlight')
BY DEF Truth, Failover, Open

LEMMA TruthFailover ==
  Truth(Failover) = Cardinality(Failovers) /\ Truth(Failover)' = Cardinality(Failovers')
BY DEF Truth, Failover, Open

LEMMA TruthDone ==
  ASSUME NEW s
  PROVE  Truth(Done(s)) = Cardinality(Ended(s)) /\ Truth(Done(s))' = Cardinality(Ended(s)')
<1>1. Done(s) # Open /\ Done(s) # Failover /\ Done(s)[2] = s
  BY DEF Open, Failover, Done
<1> QED
  BY <1>1 DEF Truth, Ended

\* A step that q neither joins nor leaves a count by.
Opens == {"reading", "calling", "relaying", "copying", "ending", "leaving"}

StaysOpen(q) == pc'[q] \in Opens <=> pc[q] \in Opens

StaysEnded(q) ==
  kind[q] # "scrape" =>
    /\ pc'[q] \in {"leaving", "done"} <=> pc[q] \in {"leaving", "done"}
    /\ pc[q] \in {"leaving", "done"} => status'[q] = status[q]

LEMMA OpenTruth ==
  ASSUME \A q \in Requests : StaysOpen(q)
  PROVE  InFlight' = InFlight
<1>1. \A q \in Requests : pc'[q] \in Opens <=> pc[q] \in Opens
  BY DEF StaysOpen
<1> QED
  BY <1>1 DEF InFlight, Opens

LEMMA EndedTruth ==
  ASSUME kind' = kind, \A q \in Requests : StaysEnded(q)
  PROVE  \A s : Ended(s)' = Ended(s)
<1>1. ASSUME NEW s
      PROVE  Ended(s)' = Ended(s)
  <2>1. \A q : q \in Ended(s)' <=> q \in Ended(s)
    BY DEF Ended, StaysEnded
  <2> QED
    BY <2>1
<1> QED
  BY <1>1

LEMMA Balance ==
  ASSUME NEW a \in Int, NEW h \in Int, NEW i \in Int, NEW x \in Int, NEW y \in Int, NEW k \in Int,
         NEW t, a + h + x = t, i + y = h + x + k
  PROVE  a + i + y = t + k
OBVIOUS

\* The sums and what they are compared with move alike.
LEMMA AccountedBy ==
  ASSUME TypeOK, Accounted, counted' = counted, NEW n \in {1, -1}, NEW c \in Counters,
         Tally(c, n), \A d \in Counters : Truth(d)' = Truth(d) + (IF d = c THEN n ELSE 0)
  PROVE  Accounted'
<1>1. counted \in [Counters -> Int] /\ dropped \in [Counters -> Int] /\ ops \in Seq(Ops)
  BY DEF TypeOK, MetricsOK
<1>2. ASSUME NEW d \in Counters
      PROVE  counted'[d] + Queued(d)' + dropped'[d] = Truth(d)'
  <2>1. /\ Held(ops', d) + dropped'[d] = Held(ops, d) + dropped[d] + (IF d = c THEN n ELSE 0)
        /\ Queued(d) = Held(ops, d) /\ Queued(d)' = Held(ops', d)
    BY TallyMoves, QueuedIsHeld
  <2>2. counted[d] + Held(ops, d) + dropped[d] = Truth(d)
    BY <2>1 DEF Accounted
  <2>3. ops' \in Seq(Ops) /\ dropped' \in [Counters -> Int]
    BY TallyTyped DEF TypeOK
  <2>4. Held(ops, d) \in Int /\ Held(ops', d) \in Int /\ counted[d] \in Int /\ dropped[d] \in Int
        /\ dropped'[d] \in Int
    BY <1>1, <2>3, HeldInt
  <2>5. Truth(d)' = Truth(d) + (IF d = c THEN n ELSE 0)
    OBVIOUS
  <2>6. counted[d] + Held(ops', d) + dropped'[d] = Truth(d) + (IF d = c THEN n ELSE 0)
    <3> DEFINE k == IF d = c THEN n ELSE 0
    <3>1. k \in Int
      OBVIOUS
    <3>2. Held(ops', d) + dropped'[d] = Held(ops, d) + dropped[d] + k
      BY <2>1
    <3> HIDE DEF k
    <3>3. counted[d] + Held(ops', d) + dropped'[d] = Truth(d) + k
      BY <2>2, <2>4, <3>1, <3>2, Balance
    <3> QED
      BY <3>3 DEF k
  <2> QED
    BY <2>1, <2>5, <2>6
<1> QED
  BY <1>2 DEF Accounted

LEMMA AccountedSame ==
  ASSUME Accounted, UNCHANGED <<counted, dropped>>, \A d : Held(ops', d) = Held(ops, d),
         InFlight' = InFlight, Failovers' = Failovers, \A s : Ended(s)' = Ended(s)
  PROVE  Accounted'
<1>1. ASSUME NEW d \in Counters
      PROVE  counted'[d] + Queued(d)' + dropped'[d] = Truth(d)'
  <2>1. Queued(d)' = Queued(d)
    BY QueuedIsHeld
  <2>2. Truth(d)' = Truth(d)
    BY CountersSplit, TruthOpen, TruthFailover, TruthDone
  <2>3. counted[d] + Queued(d) + dropped[d] = Truth(d)
    BY DEF Accounted
  <2> QED
    BY <2>1, <2>2, <2>3
<1> QED
  BY <1>1 DEF Accounted

LEMMA OthersUncounted ==
  ASSUME HandlersOK, NEW r \in Requests, Handler(r), NEW q \in Requests \ {r}
  PROVE  StaysOpen(q) /\ StaysEnded(q)
BY HandlerOthers DEF StaysOpen, StaysEnded

\* The handlers' steps at which no counter moves.
LEMMA HandlerUncounted ==
  ASSUME HandlersOK, NEW r \in Requests, Handler(r),
         ~(ArriveChat(r) \/ ArriveAudio(r) \/ Record(r) \/ Leave(r))
  PROVE  StaysOpen(r) /\ StaysEnded(r)
<1>1. pc \in [Requests -> UNION {Stages(k) : k \in Kinds}]
  BY DEF HandlersOK
<1>2. \A s : Ends(r, s) => pc'[r] = "ending"
  BY <1>1 DEF Ends
<1>3. \A s, n : PassOn(r, s, n) /\ n \in {"copying", "ending"} => pc'[r] \in {"copying", "ending"}
  BY <1>1 DEF PassOn
<1>4. CASE Reject(r) \/ Refuse(r) \/ Answer(r) \/ GatewayAnswers(r) \/ GatewayFails(r)
  <2>1. pc[r] \in {"reading", "calling", "relaying"} /\ pc'[r] \in {"copying", "ending"}
    BY <1>2, <1>3, <1>4 DEF Reject, Refuse, Answer, GatewayAnswers, GatewayFails
  <2> QED
    BY <2>1 DEF StaysOpen, StaysEnded, Opens
<1>5. CASE Route(r) \/ CopyEnds(r)
  <2>1. pc[r] \in {"reading", "copying"} /\ pc'[r] \in {"calling", "ending"}
    BY <1>1, <1>5 DEF Route, CopyEnds
  <2> QED
    BY <2>1 DEF StaysOpen, StaysEnded, Opens
<1>6. CASE FailOver(r) \/ Hint(r) \/ \E b \in Backends : Refresh(r, b)
  <2>1. pc[r] \in {"calling", "relaying", "refreshing"} /\ pc' = pc
    BY <1>6 DEF FailOver, Hint, Refresh
  <2> QED
    BY <2>1 DEF StaysOpen, StaysEnded
<1>7. CASE ArriveScrape(r) \/ Ask(r) \/ GiveUp(r)
  <2>1. kind[r] = "scrape" /\ pc[r] \in {"absent", "refreshing"}
    BY <1>7, KindOf DEF ArriveScrape, Arrives, Ask, GiveUp
  <2>2. pc'[r] \in {"refreshing", "waiting", "done"}
    BY <1>1, <1>7 DEF ArriveScrape, Arrives, Ask, GiveUp, ScrapeReturns
  <2> QED
    BY <2>1, <2>2 DEF StaysOpen, StaysEnded, Opens
<1> QED
  BY <1>4, <1>5, <1>6, <1>7 DEF Handler

LEMMA AccountedArrival ==
  ASSUME TypeOK, Accounted, NEW r \in Requests, ArriveChat(r) \/ ArriveAudio(r)
  PROVE  Accounted'
<1>1. HandlersOK /\ Handler(r) /\ pc \in [Requests -> UNION {Stages(k) : k \in Kinds}]
  BY DEF TypeOK, Handler, HandlersOK
<1>2. /\ pc[r] = "absent" /\ pc'[r] \in {"reading", "relaying"}
      /\ Tally(Open, 1) /\ UNCHANGED <<counted, kind, retries>>
  BY <1>1 DEF ArriveChat, ArriveAudio, Arrives
<1>3. \A q \in Requests \ {r} : StaysOpen(q) /\ StaysEnded(q)
  BY <1>1, OthersUncounted
<1>4. InFlight' = InFlight \cup {r} /\ r \notin InFlight
  <2>1. \A q : q \in InFlight' <=> q \in InFlight \cup {r}
    BY <1>2, <1>3 DEF InFlight, StaysOpen, Opens
  <2> QED
    BY <1>2, <2>1 DEF InFlight
<1>5. \A s : Ended(s)' = Ended(s)
  <2>1. StaysEnded(r)
    BY <1>2 DEF StaysEnded
  <2> QED
    BY <1>2, <1>3, <2>1, EndedTruth
<1>6. Failovers' = Failovers
  BY <1>2 DEF Failovers
<1>7. Truth(Open)' = Truth(Open) + 1
  BY <1>4, TruthFinite, TruthOpen, FS_AddElement
<1>8. \A d \in Counters : Truth(d)' = Truth(d) + (IF d = Open THEN 1 ELSE 0)
  <2>1. ASSUME NEW d \in Counters, d # Open
        PROVE  Truth(d)' = Truth(d) /\ Truth(d) \in Int
    <3>1. CASE d = Failover
      BY <1>6, <3>1, TruthFailover, TruthFinite, FS_CardinalityType
    <3>2. CASE d = Done(d[2])
      BY <1>5, <3>2, TruthDone, TruthFinite, FS_CardinalityType
    <3> QED
      BY <2>1, <3>1, <3>2, CountersSplit
  <2> QED
    BY <1>7, <2>1
<1> QED
  BY <1>2, <1>8, CountersAre, AccountedBy

LEMMA AccountedLeave ==
  ASSUME TypeOK, Accounted, NEW r \in Requests, Leave(r)
  PROVE  Accounted'
<1>1. HandlersOK /\ Handler(r) /\ pc \in [Requests -> UNION {Stages(k) : k \in Kinds}]
  BY DEF TypeOK, Handler, HandlersOK
<1>2. /\ pc[r] = "leaving" /\ pc'[r] = "done"
      /\ Tally(Open, -1) /\ UNCHANGED <<counted, kind, retries, status>>
  BY <1>1 DEF Leave
<1>3. \A q \in Requests \ {r} : StaysOpen(q) /\ StaysEnded(q)
  BY <1>1, OthersUncounted
<1>4. InFlight' = InFlight \ {r} /\ r \in InFlight
  <2>1. \A q : q \in InFlight' <=> q \in InFlight \ {r}
    BY <1>2, <1>3 DEF InFlight, StaysOpen, Opens
  <2> QED
    BY <1>2, <2>1 DEF InFlight
<1>5. \A s : Ended(s)' = Ended(s)
  <2>1. StaysEnded(r)
    BY <1>2 DEF StaysEnded
  <2> QED
    BY <1>2, <1>3, <2>1, EndedTruth
<1>6. Failovers' = Failovers
  BY <1>2 DEF Failovers
<1>7. Truth(Open)' = Truth(Open) + (-1)
  <2>1. Cardinality(InFlight \ {r}) = Cardinality(InFlight) - 1 /\ Cardinality(InFlight) \in Nat
    BY <1>4, TruthFinite, FS_RemoveElement, FS_CardinalityType
  <2> QED
    BY <1>4, <2>1, TruthOpen
<1>8. \A d \in Counters : Truth(d)' = Truth(d) + (IF d = Open THEN -1 ELSE 0)
  <2>1. ASSUME NEW d \in Counters, d # Open
        PROVE  Truth(d)' = Truth(d) /\ Truth(d) \in Int
    <3>1. CASE d = Failover
      BY <1>6, <3>1, TruthFailover, TruthFinite, FS_CardinalityType
    <3>2. CASE d = Done(d[2])
      BY <1>5, <3>2, TruthDone, TruthFinite, FS_CardinalityType
    <3> QED
      BY <2>1, <3>1, <3>2, CountersSplit
  <2> QED
    BY <1>7, <2>1
<1> QED
  BY <1>2, <1>8, CountersAre, AccountedBy

LEMMA AccountedRecord ==
  ASSUME TypeOK, Accounted, NEW r \in Requests, Record(r)
  PROVE  Accounted'
<1>1. HandlersOK /\ Handler(r) /\ pc \in [Requests -> UNION {Stages(k) : k \in Kinds}]
  BY DEF TypeOK, Handler, HandlersOK
<1> DEFINE u == status[r]
<1>2. /\ pc[r] = "ending" /\ pc'[r] = "leaving" /\ kind[r] # "scrape" /\ u \in Statuses
      /\ Tally(Done(u), 1) /\ UNCHANGED <<counted, kind, retries, status>>
  BY <1>1, KindOf DEF Record, HandlersOK
<1>3. \A q \in Requests \ {r} : StaysOpen(q) /\ StaysEnded(q)
  BY <1>1, OthersUncounted
<1>4. InFlight' = InFlight
  <2>1. StaysOpen(r)
    BY <1>2 DEF StaysOpen, Opens
  <2> QED
    BY <1>3, <2>1, OpenTruth
<1>5. Ended(u)' = Ended(u) \cup {r} /\ r \notin Ended(u)
  <2>1. \A q : q \in Ended(u)' <=> q \in Ended(u) \cup {r}
    BY <1>2, <1>3 DEF Ended, StaysEnded
  <2> QED
    BY <1>2, <2>1 DEF Ended
<1>6. ASSUME NEW s, s # u
      PROVE  Ended(s)' = Ended(s)
  <2>1. \A q : q \in Ended(s)' <=> q \in Ended(s)
    BY <1>2, <1>3, <1>6 DEF Ended, StaysEnded
  <2> QED
    BY <2>1
<1>7. Failovers' = Failovers
  BY <1>2 DEF Failovers
<1> HIDE DEF u
<1>8. ASSUME NEW v, v = u
      PROVE  Truth(Done(v))' = Truth(Done(v)) + 1
  <2>1. Ended(v)' = Ended(v) \cup {r} /\ r \notin Ended(v)
    BY <1>2, <1>3, <1>8 DEF Ended, StaysEnded, u
  <2>2. Cardinality(Ended(v) \cup {r}) = Cardinality(Ended(v)) + 1
    BY <2>1, TruthFinite, FS_AddElement
  <2> QED
    BY <2>1, <2>2, TruthDone
<1>9. ASSUME NEW d \in Counters, NEW v, v = u, d # Done(v)
      PROVE  Truth(d)' = Truth(d) /\ Truth(d) \in Int
  <2>1. CASE d = Open
    BY <1>4, <2>1, TruthOpen, TruthFinite, FS_CardinalityType
  <2>2. CASE d = Failover
    BY <1>7, <2>2, TruthFailover, TruthFinite, FS_CardinalityType
  <2>3. CASE d = Done(d[2])
    <3>1. d[2] # u
      BY <1>9, <2>3
    <3>2. Ended(d[2])' = Ended(d[2])
      BY <1>6, <3>1
    <3> QED
      BY <2>3, <3>2, TruthDone, TruthFinite, FS_CardinalityType
  <2> QED
    BY <2>1, <2>2, <2>3, CountersSplit
<1>10. ASSUME NEW v, v = u
       PROVE  /\ Tally(Done(v), 1) /\ Done(v) \in Counters
              /\ \A d \in Counters : Truth(d)' = Truth(d) + (IF d = Done(v) THEN 1 ELSE 0)
  BY <1>2, <1>8, <1>9, <1>10, CountersAre DEF u
<1>11. ASSUME NEW v, v = u
       PROVE  Accounted'
  BY <1>2, <1>10, <1>11, AccountedBy
<1> QED
  BY <1>11

LEMMA AccountedFailOver ==
  ASSUME TypeOK, Accounted, NEW r \in Requests, FailOver(r)
  PROVE  Accounted'
<1>1. HandlersOK /\ Handler(r) /\ retries \in [Requests -> 0..Retries] /\ Retries \in Nat
  BY ServiceAssumption DEF TypeOK, Handler, HandlersOK
<1>2. /\ retries[r] < Retries /\ retries' = [retries EXCEPT ![r] = @ + 1]
      /\ Tally(Failover, 1) /\ UNCHANGED <<counted, kind, pc, status>>
  BY DEF FailOver
<1>3. \A q \in Requests : StaysOpen(q) /\ StaysEnded(q)
  BY <1>2 DEF StaysOpen, StaysEnded
<1>4. InFlight' = InFlight /\ \A s : Ended(s)' = Ended(s)
  BY <1>2, <1>3, OpenTruth, EndedTruth
<1> DEFINE x == <<r, retries[r] + 1>>
<1>5. Failovers' = Failovers \cup {x} /\ x \notin Failovers
  <2>1. retries[r] \in Nat /\ retries[r] + 1 \in 1..Retries /\ x \in Requests \X (1..Retries)
    BY <1>1, <1>2
  <2>2. \A q \in Requests : retries'[q] = IF q = r THEN retries[r] + 1 ELSE retries[q]
    BY <1>1, <1>2
  <2>3. ASSUME NEW f \in Requests \X (1..Retries)
        PROVE  f[2] <= retries'[f[1]] <=> f[2] <= retries[f[1]] \/ f = x
    <3>1. f[1] \in Requests /\ f[2] \in 1..Retries /\ f = <<f[1], f[2]>>
      OBVIOUS
    <3>2. CASE f[1] = r
      <4>1. f[2] <= retries[r] + 1 <=> f[2] <= retries[r] \/ f[2] = retries[r] + 1
        BY <2>1, <3>1
      <4> QED
        BY <2>2, <3>1, <3>2, <4>1
    <3>3. CASE f[1] # r
      <4>1. f # x
        BY <3>3
      <4> QED
        BY <2>2, <3>1, <3>3, <4>1
    <3> QED
      BY <3>2, <3>3
  <2>4. \A f : f \in Failovers' <=> f \in Failovers \cup {x}
    BY <2>1, <2>3 DEF Failovers
  <2>5. x \notin Failovers
    BY <2>1 DEF Failovers
  <2> QED
    BY <2>4, <2>5
<1>6. Truth(Failover)' = Truth(Failover) + 1
  <2>1. Cardinality(Failovers \cup {x}) = Cardinality(Failovers) + 1
    BY <1>5, TruthFinite, FS_AddElement
  <2> QED
    BY <1>5, <2>1, TruthFailover
<1>7. ASSUME NEW d \in Counters, d # Failover
      PROVE  Truth(d)' = Truth(d) /\ Truth(d) \in Int
  <2>1. CASE d = Open
    BY <1>4, <2>1, TruthOpen, TruthFinite, FS_CardinalityType
  <2>2. CASE d = Done(d[2])
    BY <1>4, <2>2, TruthDone, TruthFinite, FS_CardinalityType
  <2> QED
    BY <1>7, <2>1, <2>2, CountersSplit
<1>8. \A d \in Counters : Truth(d)' = Truth(d) + (IF d = Failover THEN 1 ELSE 0)
  BY <1>6, <1>7
<1> QED
  BY <1>2, <1>8, CountersAre, AccountedBy

LEMMA AccountedHandler ==
  ASSUME TypeOK, Accounted, NEW r \in Requests, Handler(r)
  PROVE  Accounted'
<1>1. HandlersOK
  BY DEF TypeOK
<1>2. CASE ArriveChat(r) \/ ArriveAudio(r) \/ Record(r) \/ Leave(r) \/ FailOver(r)
  BY <1>2, AccountedArrival, AccountedRecord, AccountedLeave, AccountedFailOver
<1>3. CASE ~(ArriveChat(r) \/ ArriveAudio(r) \/ Record(r) \/ Leave(r)) /\ ~FailOver(r)
  <2>1. \A q \in Requests : StaysOpen(q) /\ StaysEnded(q)
    BY <1>1, <1>3, HandlerUncounted, OthersUncounted
  <2>2. counted' = counted /\ kind' = kind
    BY HandlerFrame
  <2>3. InFlight' = InFlight /\ \A s : Ended(s)' = Ended(s)
    BY <2>1, <2>2, OpenTruth, EndedTruth
  <2>4. UNCHANGED <<retries, dropped>>
    BY <1>3
    DEF Handler, Reject, Refuse, Route, Answer, Hint, GatewayAnswers, GatewayFails, CopyEnds, Ends,
        PassOn, ArriveScrape, Refresh, Ask, GiveUp, ScrapeReturns, history
  <2>5. Failovers' = Failovers
    BY <2>4 DEF Failovers
  <2>6. \A d : Held(ops', d) = Held(ops, d)
    <3>1. ASSUME NEW b \in Backends, Refresh(r, b)
          PROVE  \A d : Held(ops', d) = Held(ops, d)
      BY <3>1, OtherSends, OpsAre, KindsOfOps DEF Refresh
    <3>2. CASE Ask(r)
      BY <3>2, OtherSends, OpsAre, KindsOfOps DEF Ask
    <3>3. CASE UNCHANGED ops
      BY <3>3
    <3> QED
      BY <1>3, <3>1, <3>2, <3>3
      DEF Handler, Reject, Refuse, Route, Answer, Hint, GatewayAnswers, GatewayFails, CopyEnds, Ends,
          PassOn, ArriveScrape, GiveUp, metricVars
  <2> QED
    BY <2>2, <2>3, <2>4, <2>5, <2>6, AccountedSame
<1> QED
  BY <1>2, <1>3

LEMMA AccountedServe ==
  ASSUME TypeOK, Asked, Accounted, Serve
  PROVE  Accounted'
<1>1. /\ ops \in Seq(Ops) /\ ops # <<>> /\ ops' = Tail(ops) /\ dropped' = dropped
      /\ counted \in [Counters -> Int] /\ dropped \in [Counters -> Int] /\ HandlersOK
  BY DEF TypeOK, MetricsOK, Serve
<1> DEFINE o == Head(ops)
<1>2. o \in Ops
  BY <1>1, TailIs
<1>3. ASSUME NEW d \in Counters
      PROVE  counted'[d] = counted[d] + Worth(o, d)
  <2>1. CASE o.op = "count"
    <3>1. counted' = [counted EXCEPT ![o.of] = @ + o.by] /\ o.by \in Int
      BY <1>2, <2>1, OpsFields DEF Serve
    <3> QED
      BY <1>1, <2>1, <3>1 DEF Worth
  <2>2. CASE o.op # "count"
    BY <1>1, <2>2 DEF Serve, Worth
  <2> QED
    BY <2>1, <2>2
<1>4. InFlight' = InFlight /\ Failovers' = Failovers /\ \A s : Ended(s)' = Ended(s)
  <2>1. CASE o.op = "scrape"
    <3>1. o.of \in Requests /\ ScrapeReturns(o.of) /\ pc[o.of] = "waiting" /\ kind[o.of] = "scrape"
      BY <2>1, ServedScrape
    <3>2. pc' = [pc EXCEPT ![o.of] = "done"] /\ UNCHANGED <<kind, retries, status>>
      BY <3>1 DEF ScrapeReturns
    <3>3. \A q \in Requests : StaysOpen(q) /\ StaysEnded(q)
      <4>1. \A q \in Requests : pc'[q] = IF q = o.of THEN "done" ELSE pc[q]
        BY <1>1, <3>2 DEF HandlersOK
      <4> QED
        BY <3>1, <3>2, <4>1 DEF StaysOpen, StaysEnded, Opens
    <3> QED
      BY <3>2, <3>3, OpenTruth, EndedTruth DEF Failovers
  <2>2. CASE o.op # "scrape"
    <3>1. UNCHANGED <<pc, kind, retries, status>>
      BY <2>2 DEF Serve, requestVars
    <3> QED
      BY <3>1 DEF InFlight, Failovers, Ended
  <2> QED
    BY <2>1, <2>2
<1> HIDE DEF o
<1>5. ASSUME NEW d \in Counters
      PROVE  counted'[d] + Queued(d)' + dropped'[d] = Truth(d)'
  <2>1. Queued(d) = Held(ops, d) /\ Queued(d)' = Held(ops', d)
    BY QueuedIsHeld
  <2>2. Held(ops', d) = Held(ops, d) - Worth(o, d)
    BY <1>1, HeldTail DEF o
  <2>3. Held(ops, d) \in Int /\ Worth(o, d) \in Int /\ counted[d] \in Int /\ dropped[d] \in Int
    BY <1>1, <1>2, HeldInt, WorthIs
  <2>4. Truth(d)' = Truth(d)
    BY <1>4, CountersSplit, TruthOpen, TruthFailover, TruthDone
  <2>5. counted[d] + Held(ops, d) + dropped[d] = Truth(d)
    BY <2>1 DEF Accounted
  <2>6. counted'[d] + Held(ops', d) + dropped'[d] = Truth(d)
    BY <1>1, <1>3, <2>2, <2>3, <2>5
  <2> QED
    BY <2>1, <2>4, <2>6
<1> QED
  BY <1>5 DEF Accounted

\* Nothing has been counted, and there is nothing to count.
LEMMA AccountedNone ==
  ASSUME HandlersOK, NEW z, z = Zero,
         counted = z, dropped = z, ops = <<>>, \A r \in Requests : pc[r] = "absent" /\ retries[r] = 0
  PROVE  Accounted
<1>1. InFlight = {}
  BY DEF InFlight
<1>2. Failovers = {}
  BY ServiceAssumption DEF Failovers
<1>3. \A s : Ended(s) = {}
  BY DEF Ended
<1>4. Cardinality({}) = 0
  BY FS_EmptySet
<1>5. ASSUME NEW d \in Counters
      PROVE  counted[d] + Queued(d) + dropped[d] = Truth(d)
  <2>1. Queued(d) = 0
    BY QueuedIsHeld, HeldNone
  <2>2. Truth(d) = 0
    BY <1>1, <1>2, <1>3, <1>4, CountersSplit, TruthOpen, TruthFailover, TruthDone
  <2> QED
    BY <2>1, <2>2 DEF Zero
<1> QED
  BY <1>5 DEF Accounted

LEMMA AccountedExit ==
  ASSUME NEW code, Exit(code)
  PROVE  Accounted'
<1>1. /\ counted' = Zero /\ dropped' = Zero /\ ops' = <<>>
      /\ pc' = [r \in Requests |-> "absent"] /\ retries' = [r \in Requests |-> 0]
  BY DEF Exit
<1>2. InFlight' = {} /\ Failovers' = {} /\ \A s : Ended(s)' = {}
  BY <1>1, ServiceAssumption DEF InFlight, Failovers, Ended
<1>3. Cardinality({}) = 0
  BY FS_EmptySet
<1>4. ASSUME NEW d \in Counters
      PROVE  counted'[d] + Queued(d)' + dropped'[d] = Truth(d)'
  <2>1. Queued(d)' = 0
    BY <1>1, QueuedIsHeld, HeldNone
  <2>2. Truth(d)' = 0
    BY <1>2, <1>3, CountersSplit, TruthOpen, TruthFailover, TruthDone
  <2> QED
    BY <1>1, <2>1, <2>2 DEF Zero
<1> QED
  BY <1>4 DEF Accounted

LEMMA AccountedStep ==
  ASSUME TypeOK, Asked, Accounted, [Next]_vars
  PROVE  Accounted'
<1>1. CASE UNCHANGED <<ops, counted, dropped, kind, pc, retries, status>>
  BY <1>1 DEF Accounted, Queued, Pending, Truth, InFlight, Failovers, Ended
<1>2. CASE Loop
  <2>1. UNCHANGED <<counted, dropped, kind, pc, retries, status>>
    BY <1>2, LoopFrame DEF requestVars
  <2>2. ASSUME NEW b \in Backends, Fold(b)
        PROVE  \A d : Held(ops', d) = Held(ops, d)
    BY <2>2, OtherSends, OpsAre, KindsOfOps DEF Fold
  <2>3. CASE \A d : Held(ops', d) = Held(ops, d)
    <3>1. InFlight' = InFlight /\ Failovers' = Failovers /\ \A s : Ended(s)' = Ended(s)
      BY <2>1 DEF InFlight, Failovers, Ended
    <3> QED
      BY <2>1, <2>3, <3>1, AccountedSame
  <2>4. Publish => UNCHANGED ops
    BY DEF Publish, metricVars
  <2> QED
    BY <1>1, <1>2, <2>1, <2>2, <2>3, <2>4, LoopFrame
<1> QED
  BY <1>1, <1>2, AccountedServe, AccountedHandler, AccountedExit, ProcessFrame
  DEF Next, StopOwner, vars, metricVars, requestVars, history

------------------------------------------------------------------------------
(* The theorems. *)

LEMMA TypeInit ==
  ASSUME Init
  PROVE  TypeOK
<1>1. LoopOK
  BY DEF Init, HealthInit, LoopOK
<1>2. MetricsOK
  <2>1. <<>> \in Seq(Ops) /\ Len(<<>>) = 0 /\ QueueSize \in Nat
    BY ServiceAssumption, EmptySeq
  <2>2. Zero \in [Counters -> Int] /\ [b \in Backends |-> -1] \in [Backends -> -1..1]
    BY DEF Zero
  <2>3. ops = <<>> /\ owner = "serving" /\ counted = Zero /\ dropped = Zero /\ gauge = [b \in Backends |-> -1]
    BY DEF Init
  <2>4. ops \in Seq(Ops) /\ Len(ops) <= QueueSize
    BY <2>1, <2>3
  <2> QED
    BY <2>2, <2>3, <2>4 DEF MetricsOK
<1>3. HandlersOK
  <2>1. kind \in Mixes /\ kind \in [Requests -> Kinds] /\ pc = [r \in Requests |-> "absent"]
    BY ServiceAssumption DEF Init
  <2>2. PcOK
    <3>1. "absent" \in Stages("chat") /\ "chat" \in Kinds
      BY StagesAre DEF Kinds
    <3>2. "absent" \in UNION {Stages(k) : k \in Kinds}
      BY <3>1
    <3> QED
      BY <2>1, <3>2, StagesAre DEF PcOK
  <2>3. LocalsOK
    <3>1. 0 \in 0..Retries /\ 200 \in Statuses
      BY ServiceAssumption, StatusesAre
    <3> QED
      BY <3>1 DEF Init, LocalsOK
  <2>4. ScrapesOK
    <3>1. Unseen \in [Backends -> SUBSET {0, 1}]
      BY DEF Unseen
    <3> QED
      BY <3>1 DEF Init, ScrapesOK
  <2> QED
    BY <2>1, <2>2, <2>3, <2>4, HandlersSplit
<1>4. ProcessOK
  BY DEF Init, ProcessOK
<1> QED
  BY <1>1, <1>2, <1>3, <1>4 DEF TypeOK

LEMMA InvInit ==
  ASSUME Init
  PROVE  IInv
<1>1. TypeOK
  BY TypeInit
<1>2. ops = <<>> /\ main = "serving" /\ Zero = counted /\ dropped = Zero
  BY DEF Init
<1>3. /\ \A r \in Requests : pc[r] = "absent" /\ retries[r] = 0 /\ wire[r] = 0 /\ ~hinted[r]
      /\ DOMAIN ops = {}
  BY <1>2 DEF Init
<1>4. Accounted
  BY <1>1, <1>2, <1>3, AccountedNone DEF TypeOK
<1>5. Asked /\ Fresh /\ Shared /\ Refreshed /\ Draining
  BY <1>2, <1>3 DEF Asked, Fresh, Shared, Scraping, Refreshed, Draining
<1>6. Recording
  BY <1>3 DEF Recording
<1> QED
  BY <1>1, <1>4, <1>5, <1>6 DEF IInv

LEMMA InvStep ==
  ASSUME IInv, [Next]_vars
  PROVE  IInv'
BY TypeStep, AccountedStep, AskedStep, FreshStep, SharedStep, RefreshedStep, RecordingStep, DrainingStep
DEF IInv

\* Every reachable state of the process satisfies the inductive invariant.
THEOREM Invariance == Spec => []IInv
<1>1. Init => IInv
  BY InvInit
<1>2. IInv /\ [Next]_vars => IInv'
  BY InvStep
<1> QED
  BY <1>1, <1>2, PTL DEF Spec

\* Every state has its shape; what waits for the metrics owner fits its channel.
THEOREM TypeCorrect == Spec => []TypeOK
<1>1. IInv => TypeOK
  BY DEF IInv
<1> QED
  BY <1>1, Invariance, PTL

\* Whatever the owner has counted, holds in its channel and missed because the
\* channel was full adds up to what the handlers did.
THEOREM AccountsKept == Spec => []Accounted
<1>1. IInv => Accounted
  BY DEF IInv
<1> QED
  BY <1>1, Invariance, PTL

\* The handlers record the status that their client was sent, but for the two cases
\* that StatusRecorded names.
THEOREM StatusKept == Spec => []StatusRecorded
<1>1. IInv => StatusRecorded
  BY DEF IInv, Recording, Agrees, StatusRecorded
<1> QED
  BY <1>1, Invariance, PTL

\* When the owner reaches the question of a scrape, its gauges show what the scrape
\* may show: Fresh, at the head of the channel.
THEOREM PagesFresh == Spec => PageFresh
<1> DEFINE Shows == \A r \in Requests : pc[r] = "waiting" /\ pc'[r] = "done" =>
                      \A b \in Backends \ missed[r] : gauge[b] \in since[r][b]
<1>1. ASSUME IInv, [Next]_vars, NEW r \in Requests, pc[r] = "waiting", pc'[r] = "done"
      PROVE  \A b \in Backends \ missed[r] : gauge[b] \in since[r][b]
  <2>1. TypeOK /\ Asked /\ Fresh /\ todo[r] = {} /\ HandlersOK
    BY <1>1 DEF IInv, Refreshed, TypeOK
  <2>2. Serve
    <3>1. \A q \in Requests : ~Handler(q)
      BY <1>1, <2>1, HandlerPc
    <3>2. \A code : ~Exit(code)
      BY <1>1 DEF Exit
    <3> QED
      BY <1>1, <3>1, <3>2, LoopFrame, ProcessFrame DEF Next, StopOwner, vars, requestVars
  <2>3. ops \in Seq(Ops) /\ ops # <<>> /\ 1 \in DOMAIN ops /\ Head(ops) = ops[1]
    BY <2>1, <2>2, TailIs DEF TypeOK, MetricsOK, Serve
  <2>4. ops[1].op = "scrape" /\ ops[1].of = r
    <3>1. ops[1].op = "scrape"
      BY <1>1, <2>2, <2>3 DEF Serve, requestVars
    <3>2. ops[1].of \in Requests /\ pc' = [pc EXCEPT ![ops[1].of] = "done"]
      BY <2>1, <2>2, <2>3, <3>1, ServedScrape DEF ScrapeReturns
    <3> QED
      BY <1>1, <2>1, <3>1, <3>2 DEF HandlersOK
  <2>5. Sees(r, 1)
    BY <2>1, <2>3, <2>4 DEF Fresh
  <2>6. ASSUME NEW b \in Backends, b \notin missed[r]
        PROVE  gauge[b] \in since[r][b]
    <3>1. Latest(gauge, ops, 1, b, since[r][b])
      BY <2>1, <2>5, <2>6 DEF Sees
    <3>2. \A j \in 1..1 : ~IsHealth(ops[j], b)
      BY <2>4 DEF IsHealth
    <3> QED
      BY <3>1, <3>2 DEF Latest
  <2> QED
    BY <2>6
<1>2. IInv /\ [Next]_vars => [Shows]_vars
  BY <1>1
<1> QED
  BY <1>2, Invariance, PTL DEF Spec, PageFresh

\* The exit code tells why the process ended.
THEOREM ExitTold == Spec => ExitHonest
<1> DEFINE Told == main' = "exited" /\ Alive =>
                     /\ exitCode' = 0 => ~running /\ Active = {}
                     /\ exitCode' = 1 => failed \/ Active # {}
<1>1. IInv /\ [Next]_vars => [Told]_vars
  <2>1. ASSUME IInv, Next, main' = "exited", Alive
        PROVE  Told
    <3>1. Draining
      BY <2>1 DEF IInv
    <3>2. main' # main
      BY <2>1 DEF Alive
    <3>3. Process
      BY <2>1, <3>2, HandlerFrame, LoopFrame, ServeFrame DEF Next, mainVars
    <3>4. Drained \/ DrainTimeout
      BY <2>1, <3>2, <3>3
      DEF Process, Bind, ListenFails, Signal, SignalSeen, ErrorSeen, Drain, Exited, mainVars, vars
    <3> QED
      BY <3>1, <3>4 DEF Drained, DrainTimeout, Exit, Draining
  <2> QED
    BY <2>1
<1> QED
  BY <1>1, Invariance, PTL DEF Spec, ExitHonest
==============================================================================
