------------------------------- MODULE Pinning -------------------------------
(***************************************************************************)
(* Fusion aliases, and how one snapshot gives each of their roles a        *)
(* backend (resolveFusion in internal/router/resolve.go).                  *)
(***************************************************************************)
EXTENDS Fleet, Sequences, Ascending

\* A fusion alias: for each role the backends that host its model.
Council == [panel     : Seq(Seq(Backends)),
            judge     : Seq(Backends),
            synthesis : Seq(Backends),
            minPanel  : Nat \ {0}]

Healthy(s, names) == {i \in DOMAIN names : s[names[i]].healthy}

\* pickHealthyBackend: the first of the least loaded healthy ones.
Pick(s, names) ==
  names[CHOOSE i \in Healthy(s, names) :
          \A j \in Healthy(s, names) \ {i} :
            \/ s[names[i]].inFlight < s[names[j]].inFlight
            \/ s[names[i]].inFlight = s[names[j]].inFlight /\ i < j]

\* Panelists without a healthy backend are dropped.
PinnedPanel(s, panel) ==
  LET kept == Ascending({i \in DOMAIN panel : Healthy(s, panel[i]) # {}})
  IN [k \in DOMAIN kept |-> Pick(s, panel[kept[k]])]
==============================================================================
