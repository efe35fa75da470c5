------------------------------- MODULE MCStream -------------------------------
(***************************************************************************)
(* Every pair of protocols, with and without an idle timeout, for answers  *)
(* and error answers.                                                      *)
(***************************************************************************)
EXTENDS Stream

MCPaths == Path

\* Calls with an idle timeout, for the refuted properties.
MCIdlePaths == {p \in Path : p.idle}
==============================================================================
