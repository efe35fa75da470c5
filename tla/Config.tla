-------------------------------- MODULE Config --------------------------------
(***************************************************************************)
(* What the configuration file promises the router: the defaults and the   *)
(* validation of internal/config/config.go, the conversion of an alias in  *)
(* cmd/router/main.go, and the plan that resolve.go makes of it.           *)
(*                                                                         *)
(* A file is a record of what YAML decoding left: "" and 0 are fields that *)
(* are not set.  Durations, sizes and the bind address get defaults too,   *)
(* but validate never looks at them, and they are left out.                *)
(***************************************************************************)
EXTENDS Selection, Pinning, SequencesExt

NotSet == ""

\* The words a file may use where the router tells words apart; any other one
\* means nothing to it.
Words == {NotSet, "openai", "anthropic", "proxy", "fusion", "round_robin", "pareto", "other"}

\* What YAML can decode into: a backend, an entry of a pool or panel, an alias, a
\* file with the given alias names.  Bounds: known models and backends, and
\* qualities up to MaxQuality.
SpeakerType == [name : Backends \cup {NotSet}, url : BOOLEAN, protocol : Words,
                credentials : BOOLEAN]

EntryType == [model : Models \cup {NotSet}, backends : Seq(Backends), quality : 0..MaxQuality]

AliasType == [type : Words, selector : Words, model : Models \cup {NotSet},
              backends : Seq(Backends), minQuality : 0..MaxQuality, pool : Seq(EntryType),
              panel : Seq(EntryType), judge : EntryType, synthesis : EntryType, minPanel : Int]

FileType(names) == [parses : BOOLEAN, blankToken : BOOLEAN, audio : {"absent", "valid", "invalid"},
                    backends : Seq(SpeakerType), aliases : [names -> AliasType]]

OrElse(value, unset, default) == IF value = unset THEN default ELSE value

MaxPanel == 8

\* applyDefaults
SpeakerWithDefaults(speaker) == [speaker EXCEPT !.protocol = OrElse(@, NotSet, "openai")]

AliasWithDefaults(alias) ==
  [alias EXCEPT !.type     = OrElse(@, NotSet, "proxy"),
                !.selector = OrElse(@, NotSet, "round_robin"),
                !.minPanel = OrElse(@, 0, 1)]

WithDefaults(file) ==
  [file EXCEPT !.backends = [i \in DOMAIN @ |-> SpeakerWithDefaults(@[i])],
               !.aliases  = [a \in DOMAIN @ |-> AliasWithDefaults(@[a])]]

------------------------------------------------------------------------------
\* The names that aliases may refer to.
Defined(cfg) == {cfg.backends[i].name : i \in DOMAIN cfg.backends}

\* url stands for the result of validateURL, credentials for an API key and a
\* version that are not blank.
BackendsValid(backends) ==
  /\ backends # <<>>
  /\ \A i \in DOMAIN backends :
       LET b == backends[i]
       IN /\ b.name # NotSet /\ \A j \in 1..(i - 1) : backends[j].name # b.name
          /\ b.url
          /\ b.protocol \in {"openai", "anthropic"}
          /\ b.protocol = "anthropic" => b.credentials

\* Mutant: a list is fine if it names one backend that exists.
RefsValidAny(names, defined) == ToSet(names) \cap defined # {}

\* checkRefs
RefsValid(names, defined) == names # <<>> /\ ToSet(names) \subseteq defined

\* A pool entry, a panelist, the judge or the synthesis model.
EntryValid(entry, defined) == entry.model # NotSet /\ RefsValid(entry.backends, defined)

ProxyValid(alias, defined) ==
  IF alias.selector = "pareto"
  THEN /\ alias.pool # <<>>
       /\ \A i \in DOMAIN alias.pool : EntryValid(alias.pool[i], defined)
  ELSE EntryValid([model |-> alias.model, backends |-> alias.backends], defined)

FusionValid(alias, defined) ==
  /\ Len(alias.panel) \in 1..MaxPanel
  /\ \A i \in DOMAIN alias.panel : EntryValid(alias.panel[i], defined)
  /\ alias.minPanel \in 1..Len(alias.panel)
  /\ EntryValid(alias.judge, defined) /\ EntryValid(alias.synthesis, defined)

AliasValid(alias, defined) ==
  /\ alias.selector \in Selectors
  /\ \/ alias.type = "proxy" /\ ProxyValid(alias, defined)
     \/ alias.type = "fusion" /\ FusionValid(alias, defined)

\* Load: the program starts with this file.  A token that expanded to nothing
\* and an audio gateway with an invalid address are refused, too.
Accepted(file) ==
  LET cfg == WithDefaults(file)
  IN /\ cfg.parses
     /\ ~cfg.blankToken
     /\ BackendsValid(cfg.backends)
     /\ \A a \in DOMAIN cfg.aliases : AliasValid(cfg.aliases[a], Defined(cfg))
     /\ cfg.audio \in {"absent", "valid"}

------------------------------------------------------------------------------
CandidatesOf(model, backends) ==
  [k \in DOMAIN backends |-> [model |-> model, backend |-> backends[k], quality |-> 0]]

\* The candidates of a pool: for each entry, one for each of its backends.
Pooled(pool) ==
  LET places  == UNION {{i} \X (DOMAIN pool[i].backends) : i \in DOMAIN pool}
      upTo(q) == {p \in places : p[1] < q[1] \/ (p[1] = q[1] /\ p[2] <= q[2])}
      at      == Listed(places, UNION {upTo(q) \X {q} : q \in places})
  IN [k \in DOMAIN at |-> [model   |-> pool[at[k][1]].model,
                           backend |-> pool[at[k][1]].backends[at[k][2]],
                           quality |-> pool[at[k][1]].quality]]

\* toAlias and resolveAlias: one candidate per model and backend of the pool.
PlanOf(alias) ==
  [selector   |-> alias.selector,
   minQuality |-> alias.minQuality,
   direct     |-> FALSE,
   cands      |->
     IF alias.selector = "pareto" THEN Pooled(alias.pool)
     ELSE CandidatesOf(alias.model, alias.backends)]

\* toAlias: what resolveFusion is given of a fusion alias.
CouncilOf(alias) ==
  [panel     |-> [i \in DOMAIN alias.panel |-> alias.panel[i].backends],
   judge     |-> alias.judge.backends,
   synthesis |-> alias.synthesis.backends,
   minPanel  |-> alias.minPanel]
==============================================================================
