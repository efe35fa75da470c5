----------------------------- MODULE MCProxyPair -----------------------------
(***************************************************************************)
(* Two requests over two backends: they share the snapshot, the rotation   *)
(* counter and the backends' in-flight slots, and the health loop          *)
(* publishes between any two of their steps.                               *)
(***************************************************************************)
EXTENDS Proxy, TLC

CONSTANTS b1, b2, r1, r2

MCBackends   == {b1, b2}
MCProtocolOf == [b \in MCBackends |-> "openai"]

Large(b) == [model |-> "large", backend |-> b, quality |-> 0]

Alias(sel) == [selector |-> sel, minQuality |-> 0, direct |-> FALSE, cands |-> <<Large(b1), Large(b2)>>]

MCAliases == [chat |-> Alias("round_robin"), cheap |-> Alias("pareto")]

Ask(m, s) == [model |-> m, consumer |-> "openai", stream |-> s, override |-> -1]

MCInputs == {Ask("chat", FALSE), Ask("cheap", FALSE), Ask("large", TRUE)}

Backend(up) == [healthy |-> up, models |-> {"large"}, p50 |-> 0, inFlight |-> 0]

AllUp == [b \in MCBackends |-> Backend(TRUE)]

MCSnapshots == {AllUp, [AllUp EXCEPT ![b1] = Backend(FALSE)]}

RequestSymmetry == Permutations({r1, r2})
==============================================================================
