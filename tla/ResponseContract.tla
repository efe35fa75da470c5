--------------------------- MODULE ResponseContract ---------------------------
(***************************************************************************)
(* What the failover engine promises a client (ADR-0006, ADR-0007), with   *)
(* every mechanism left out: a request calls candidates one after the      *)
(* other, each at most once and no more than a budget of them; it is       *)
(* answered once, by the candidate it called last or by the router itself; *)
(* once it is answered it calls nobody.                                    *)
(***************************************************************************)
EXTENDS Naturals

CONSTANTS Requests,
          Candidates,   \* positive numbers
          Budget        \* of calls per request

VARIABLES called,   \* the candidates a request has called
          calls,    \* how often it called one
          latest,   \* the one it called last
          answer,   \* who answered it: <<>>, <<c>> for a candidate, <<0>> for the router
          closed    \* the handler returned

contractVars == <<called, calls, latest, answer, closed>>

ContractInit ==
  /\ called = [r \in Requests |-> {}]
  /\ calls = [r \in Requests |-> 0]
  /\ latest = [r \in Requests |-> 0]
  /\ answer = [r \in Requests |-> <<>>]
  /\ closed = [r \in Requests |-> FALSE]

Call(r, c) ==
  /\ ~closed[r]
  /\ answer[r] = <<>>
  /\ c \notin called[r]
  /\ calls[r] < Budget
  /\ called' = [called EXCEPT ![r] = @ \cup {c}]
  /\ calls' = [calls EXCEPT ![r] = @ + 1]
  /\ latest' = [latest EXCEPT ![r] = c]
  /\ UNCHANGED <<answer, closed>>

\* The latest candidate's response starts to reach the client.
Commit(r) ==
  /\ ~closed[r]
  /\ answer[r] = <<>>
  /\ latest[r] \in called[r]
  /\ answer' = [answer EXCEPT ![r] = <<latest[r]>>]
  /\ UNCHANGED <<called, calls, latest, closed>>

Close(r) ==
  /\ ~closed[r]
  /\ answer[r] # <<>>
  /\ closed' = [closed EXCEPT ![r] = TRUE]
  /\ UNCHANGED <<called, calls, latest, answer>>

\* The router's own error answer ends the request.
Refuse(r) ==
  /\ ~closed[r]
  /\ answer[r] = <<>>
  /\ answer' = [answer EXCEPT ![r] = <<0>>]
  /\ closed' = [closed EXCEPT ![r] = TRUE]
  /\ UNCHANGED <<called, calls, latest>>

ContractNext == \E r \in Requests : \/ \E c \in Candidates : Call(r, c)
                                    \/ Commit(r) \/ Close(r) \/ Refuse(r)

Contract == ContractInit /\ [][ContractNext]_contractVars
==============================================================================
