---------------------------- MODULE MCTranslation ----------------------------
(***************************************************************************)
(* Requests of two messages whose content has up to two parts of every     *)
(* kind, and system text in every place; answers of up to two blocks with  *)
(* every reason to stop.                                                   *)
(***************************************************************************)
EXTENDS Translation

Texts == {<<>>, <<"a">>, <<"b", "nl", "a">>}

Pictures == {None, [is |-> "other"], [is |-> "base64", media |-> "image/png", data |-> "x"],
             [is |-> "base64", media |-> "image/png", data |-> ""],
             [is |-> "base64", media |-> "", data |-> "x"], [is |-> "url", at |-> "y"]}

Links == {None, DataURL("image/png", "x"), DataURL("", "x"), DataURL("image/png", ""), [DataURL("", "x") EXCEPT !.comma = FALSE],
         [DataURL("image/png", "x") EXCEPT !.base64 = FALSE], [is |-> "web", at |-> "y"]}

Blocks == {TextPart(t) : t \in Texts} \cup {[type |-> "image", source |-> s] : s \in Pictures} \cup {Other}
OParts == {TextPart(t) : t \in Texts} \cup {[type |-> "image_url", url |-> s] : s \in Links} \cup {Other}

Contents(parts) ==
  {Str(t) : t \in Texts} \cup {Null} \cup {Parts(s) : s \in {<<>>} \cup {<<p, q>> : p \in parts, q \in parts}}

Says(role, content) == [role |-> role, content |-> content]

Systems == {Null, Str(<<>>), Str(<<"r">>), Parts(<<TextPart(<<"r">>), TextPart(<<>>), TextPart(<<"s">>)>>)}

Anthropics ==
  {[system |-> s, messages |-> <<Says("user", c), Says(w, Str(<<"b">>))>>, stop |-> e, max |-> n] :
     s \in Systems, c \in Contents(Blocks), w \in {"assistant", "system"}, e \in {<<>>, <<"x", "y">>}, n \in {0, 5}}

OpenAIs ==
  {[messages |-> q, stop |-> e, max |-> n, maxCompletion |-> k] :
     q \in {<<Says("system", s), Says("user", c), Says("system", Str(<<"t">>)), Says("assistant", Null)>> :
              s \in Systems, c \in Contents(OParts)},
     e \in {<<>>, <<"x">>}, n \in {0, 5}, k \in {0, 7}}

MCCalls ==
  {[consumer |-> "anthropic", provider |-> p, strategy |-> s, request |-> r] :
     p \in {"openai", "anthropic"}, s \in {"proxy", "fusion"}, r \in Anthropics}
  \cup
  {[consumer |-> "openai", provider |-> p, strategy |-> s, request |-> r] :
     p \in {"openai", "anthropic"}, s \in {"proxy", "fusion"}, r \in OpenAIs}

Used == [input |-> 3, output |-> 4]

MCOpenAIAnswers ==
  {[is |-> "completion", choices |-> <<[content |-> c, finish |-> f]>>, reasoning |-> <<>>, usage |-> Used] :
     c \in {Null, Str(<<"a", "b">>), Parts(<<TextPart(<<"a">>), Other, TextPart(<<"b">>)>>)},
     f \in {"", "stop", "length", "tool_calls", "function_call", "content_filter"}}
  \cup
  {[is |-> "completion", choices |-> <<>>, reasoning |-> <<>>, usage |-> Used]}
  \cup
  {[is |-> "error", envelope |-> "openai", message |-> m] : m \in {"", "m"}}

MCAnthropicAnswers ==
  {[is |-> "message", content |-> c, stop |-> s, usage |-> Used] :
     c \in {<<>>, <<[type |-> "thinking", text |-> <<"c">>], TextPart(<<"a">>), Other, TextPart(<<"b">>)>>},
     s \in {"", "end_turn", "max_tokens", "stop_sequence", "tool_use", "refusal"}}
  \cup
  {[is |-> "error", envelope |-> "anthropic", message |-> m] : m \in {"", "m"}}
==============================================================================
