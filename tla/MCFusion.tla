------------------------------- MODULE MCFusion -------------------------------
(***************************************************************************)
(* A council of three over two backends, one of which hosts two panelists, *)
(* with a quorum of one or of two.                                         *)
(***************************************************************************)
EXTENDS Fusion

CONSTANTS b1, b2, r1

MCBackends == {b1, b2}
MCModels   == {"large"}

Of(min) == [panel |-> <<<<b1, b2>>, <<b1>>, <<b2>>>>, judge |-> <<b1>>, synthesis |-> <<b2, b1>>,
            minPanel |-> min]

MCCouncils == {Of(1), Of(2)}

Up(n) == [healthy |-> TRUE, models |-> {"large"}, p50 |-> 1, inFlight |-> n]

MCSnapshots ==
  {EmptySnapshot, [b \in MCBackends |-> Up(IF b = b1 THEN 2 ELSE 1)],
   [b \in MCBackends |-> Up(1)], [b \in MCBackends |-> IF b = b1 THEN Up(0) ELSE Unprobed]}
==============================================================================
