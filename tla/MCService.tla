------------------------------ MODULE MCService ------------------------------
(***************************************************************************)
(* One backend, a channel that its first update fills, and a chat, an      *)
(* audio request, or two scrapes that may overlap.  The updates of other   *)
(* requests act on these through the channel only, where the health loop's *)
(* compete already.                                                        *)
(***************************************************************************)
EXTENDS Service, TLC

CONSTANTS b1, r1, r2

Mix(k1, k2) == (r1 :> k1) @@ (r2 :> k2)

MCMixes == {Mix("chat", "none"), Mix("audio", "none"), Mix("scrape", "scrape")}
==============================================================================
