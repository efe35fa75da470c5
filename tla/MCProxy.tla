------------------------------- MODULE MCProxy -------------------------------
(***************************************************************************)
(* One request of every kind against four backends: every plan, every      *)
(* class of upstream status, every failover sequence within the budget.    *)
(***************************************************************************)
EXTENDS Proxy

CONSTANTS b1, b2, b3, b4, r1

MCBackends   == {b1, b2, b3, b4}
MCModels     == {"large", "small", "tiny"}
MCProtocols  == {"openai", "anthropic"}
MCProtocolOf == [b \in MCBackends |-> IF b = b3 THEN "anthropic" ELSE "openai"]

Cand(m, b, q) == [model |-> m, backend |-> b, quality |-> q]

\* An alias over four backends, and a pareto pool in which b2 hosts two models.
MCAliases ==
  [chat |-> [selector |-> "round_robin", minQuality |-> 0, direct |-> FALSE,
             cands |-> <<Cand("large", b1, 0), Cand("large", b2, 0), Cand("large", b3, 0),
                         Cand("large", b4, 0)>>],
   best |-> [selector |-> "pareto", minQuality |-> 2, direct |-> FALSE,
             cands |-> <<Cand("small", b2, 1), Cand("large", b1, 2), Cand("large", b2, 2),
                         Cand("tiny", b4, 0)>>]]

Ask(m, c, s, o) == [model |-> m, consumer |-> c, stream |-> s, override |-> o]

MCInputs ==
  {Ask(m, c, s, -1) : m \in {"chat", "best", "large"}, c \in MCProtocols, s \in BOOLEAN}
    \cup {Ask("best", "openai", FALSE, 0), Ask("tiny", "openai", FALSE, -1)}

Up(ms, p, n) == [healthy |-> TRUE, models |-> ms, p50 |-> p, inFlight |-> n]
Down(ms)     == [healthy |-> FALSE, models |-> ms, p50 |-> 0, inFlight |-> 0]

AllUp == [b \in MCBackends |->
            IF b = b1 THEN Up({"large"}, 2, 1)
            ELSE IF b = b2 THEN Up({"large", "small"}, 1, 0)
            ELSE IF b = b3 THEN Up({"large"}, 1, 3)
            ELSE Up({"tiny"}, 0, 0)]

MCSnapshots ==
  {EmptySnapshot, AllUp,
   [AllUp EXCEPT ![b1] = Down({"large"}), ![b4] = Down({"tiny"})],
   [b \in MCBackends |-> IF b = b1 THEN AllUp[b] ELSE Down(AllUp[b].models)],
   [AllUp EXCEPT ![b1] = Up({"small"}, 1, 0), ![b2] = Down({"large", "small"})]}
==============================================================================
