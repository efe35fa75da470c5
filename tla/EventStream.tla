------------------------------ MODULE EventStream ------------------------------
(***************************************************************************)
(* What the response sinks promise an SDK that reads a translated stream   *)
(* (ADR-0007, ADR-0016): events come in the order of the consumer's        *)
(* protocol, the message is opened once before anything in it, and a       *)
(* client that stays sees the terminators, once and last, whatever became  *)
(* of the upstream.  Who produces the events, and when, is left out.       *)
(***************************************************************************)
EXTENDS Sequences

VARIABLES consumer,   \* its protocol
          events,     \* event names the client received
          present,    \* the client is still connected
          closed      \* the response ended

Opening == IF consumer = "openai" THEN <<>> ELSE <<"message_start", "content_block_start">>

Closing == IF consumer = "openai" THEN <<"[DONE]">>
           ELSE <<"content_block_stop", "message_delta", "message_stop">>

Delta == IF consumer = "openai" THEN "chunk" ELSE "content_block_delta"

\* The opening events, if they are still to come.
Missing == IF events = <<>> THEN Opening ELSE <<>>

StreamInit ==
  /\ consumer \in {"openai", "anthropic"}
  /\ events = <<>>
  /\ present = TRUE
  /\ closed = FALSE

\* One piece of the answer, possibly one without an event of its own.
Deliver ==
  /\ present /\ ~closed
  /\ \E piece \in {<<>>, <<Delta>>} : events' = events \o Missing \o piece
  /\ UNCHANGED <<consumer, present, closed>>

Complete ==
  /\ present /\ ~closed
  /\ events' = events \o Missing \o Closing
  /\ closed' = TRUE
  /\ UNCHANGED <<consumer, present>>

Leave ==
  /\ present
  /\ present' = FALSE
  /\ UNCHANGED <<consumer, events, closed>>

Abandon ==
  /\ ~present /\ ~closed
  /\ closed' = TRUE
  /\ UNCHANGED <<consumer, events, present>>

StreamNext == Deliver \/ Complete \/ Leave \/ Abandon

StreamSpec == StreamInit /\ [][StreamNext]_<<consumer, events, present, closed>>
==============================================================================
