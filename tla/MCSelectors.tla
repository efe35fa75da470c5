----------------------------- MODULE MCSelectors -----------------------------
(***************************************************************************)
(* Configurations of three backends of two protocols.  The aliases of the  *)
(* first kind of file are well formed and are asked for under every        *)
(* combination of health and load: ties in cost, an empty tier, one        *)
(* survivor and none.  Files of the other kinds vary one part at a time,   *)
(* in and out of what is valid.                                            *)
(***************************************************************************)
EXTENDS Selectors

CONSTANTS b1, b2, b3

MCBackends   == {b1, b2, b3}
MCProtocols  == {"openai", "anthropic"}
MCProtocolOf == [b \in MCBackends |-> IF b = b3 THEN "anthropic" ELSE "openai"]

State(up, p, n) == [healthy |-> up, models |-> {}, p50 |-> p, inFlight |-> n]

MCOverrides == {-1, 0, 2}

\* A second of latency costs as much as two open calls: 1 and 0 tie with 0 and 2.
MCFleets == [MCBackends -> {State(FALSE, 0, 0), State(TRUE, 1, 0), State(TRUE, 0, 2),
                            State(TRUE, 0, 1)}]

Speaker(b, protocol) == [name |-> b, url |-> TRUE, protocol |-> protocol, credentials |-> protocol = "anthropic"]

Speakers == <<Speaker(b1, ""), Speaker(b2, "openai"), Speaker(b3, "anthropic")>>

Entry(model, backends, q) == [model |-> model, backends |-> backends, quality |-> q]

\* An alias on which only its type is set.
Blank(type) ==
  [type |-> type, selector |-> "", model |-> "", backends |-> <<>>, minQuality |-> 0,
   pool |-> <<>>, panel |-> <<>>, judge |-> Entry("", <<>>, 0), synthesis |-> Entry("", <<>>, 0),
   minPanel |-> 0]

RoundRobin(model, backends) == [Blank("") EXCEPT !.model = model, !.backends = backends]

Pareto(pool) == [Blank("proxy") EXCEPT !.selector = "pareto", !.minQuality = 1, !.pool = pool]

Fusion(panel, judge, min) ==
  [Blank("fusion") EXCEPT !.panel = panel, !.judge = judge,
     !.synthesis = Entry("large", <<b2, b1>>, 0), !.minPanel = min]

File(alias) ==
  [parses |-> TRUE, blankToken |-> FALSE, audio |-> "absent", backends |-> Speakers,
   aliases |-> [a \in {"alias"} |-> alias]]

\* The pools of a pareto alias may host two models on one backend.
Served ==
  {RoundRobin("large", <<x, y, z>>) : x \in {b1, b2}, y \in {b2, b3}, z \in {b1, b3}}
  \cup
  {Pareto(<<Entry("large", <<b1>>, p), Entry("large", <<b2>>, q), Entry("large", <<b3>>, r),
            Entry("large", <<b1>>, 2)>>) : p \in 0..2, q \in 0..2, r \in 1..2}

Lists   == {<<>>, <<b1>>, <<b1, b1>>, <<b1, b3>>, <<b3, b1>>}
Entries == {Entry(m, l, 0) : m \in {"", "large"}, l \in Lists}

\* b3 is not defined, or speaks a protocol it may not or lacks its credentials.
Fleetings ==
  {<<>>, SubSeq(Speakers, 1, 2), Speakers \o SubSeq(Speakers, 1, 1)}
  \cup {SubSeq(Speakers, 1, 2) \o <<b>> :
          b \in {[Speakers[3] EXCEPT !.url = FALSE], [Speakers[3] EXCEPT !.credentials = FALSE],
                 [Speakers[3] EXCEPT !.name = ""], [Speakers[3] EXCEPT !.protocol = "other"]}}

Tried ==
  {RoundRobin(e.model, e.backends) : e \in Entries}
  \cup {Pareto(p) : p \in {<<>>} \cup {<<e>> : e \in Entries} \cup {<<Entry("large", <<b1>>, 1), e>> : e \in Entries}}
  \cup {Fusion(p, j, n) :
          p \in {<<>>, [i \in 1..8 |-> Entry("large", <<b1>>, 0)], [i \in 1..9 |-> Entry("large", <<b1>>, 0)]}
                \cup {<<e, Entry("large", <<b2>>, 0)>> : e \in Entries},
          j \in {Entry("", <<b1>>, 0), Entry("large", <<b1>>, 0), Entry("large", <<b3, b2>>, 0)},
          n \in {-1, 0, 1, 2, 3}}
  \cup {Blank("other"), [Blank("fusion") EXCEPT !.selector = "other"],
        [RoundRobin("large", <<b1>>) EXCEPT !.selector = "other"]}

MCFiles ==
  {File(a) : a \in Served \cup Tried}
  \cup {[File(a) EXCEPT !.backends = s] :
          a \in {RoundRobin("large", <<b1, b3>>), RoundRobin("large", <<b1>>)}, s \in Fleetings}
  \cup {[File(RoundRobin("large", <<b1>>)) EXCEPT !.parses = p, !.blankToken = t, !.audio = g] :
          p \in BOOLEAN, t \in BOOLEAN, g \in {"absent", "valid", "invalid"}}
==============================================================================
