----------------------------- MODULE Translation -----------------------------
(***************************************************************************)
(* What the router does to the content of a unary call between a consumer  *)
(* and a provider of different protocols (internal/server/anthropic.go and *)
(* internal/backend/anthropic.go, over internal/model/content.go): the     *)
(* request becomes canonical, which is OpenAI's shape, and then the        *)
(* provider's; the answer comes back the same way.                         *)
(*                                                                         *)
(* A text is a sequence of pieces, one of which is the line break; a       *)
(* content is a string, a list of parts (OpenAI) or blocks (Anthropic), or *)
(* null.  Of a request only what both protocols can say is kept: system,   *)
(* messages, stop sequences and the token limit, 0 when it is not set.     *)
(* Parts and blocks of a type that a translation does not know are other.  *)
(* An image is inline (a source of type base64, or a data: URL, which may  *)
(* lack its comma, its media type, its base64 mark or its payload), at an  *)
(* address that is not empty, or none of these.                            *)
(*                                                                         *)
(* stage: sent, canonical, forwarded, answered, replied                    *)
(***************************************************************************)
EXTENDS Integers, SequencesExt, Ascending

CONSTANTS Calls,              \* consumer, provider, strategy and request, see Call
          OpenAIAnswers,      \* what an OpenAI upstream may answer
          AnthropicAnswers,   \* what an Anthropic upstream may answer
          FusionMaxTokens     \* max_completion_tokens of the fusion alias, 0 if not set

VARIABLES stage, call, canonical, outbound, answer, reply

vars == <<stage, call, canonical, outbound, answer, reply>>

------------------------------------------------------------------------------
LineBreak == "nl"

Str(text)    == [is |-> "string", text |-> text]
Parts(parts) == [is |-> "parts", parts |-> parts]
Null         == [is |-> "null"]

TextPart(text) == [type |-> "text", text |-> text]
Other == [type |-> "other"]
None  == [is |-> "none"]

\* What a consumer may send, and what an upstream may answer.  Of the pieces of a
\* text, of roles and of media types the code names one each.
Text       == Seq({LineBreak} \cup STRING)
Role       == {"system"} \cup STRING
Media      == {"application/octet-stream"} \cup STRING
Address    == STRING \ {""}
TextParts  == [type : {"text"}, text : Text]
Sources    == {None, [is |-> "other"]} \cup [is : {"url"}, at : Address]
              \cup [is : {"base64"}, media : Media, data : STRING]
URLs       == {None} \cup [is : {"web"}, at : Address]
              \cup [is : {"data"}, comma : BOOLEAN, media : Media, base64 : BOOLEAN, data : STRING]
BlockType  == {Other} \cup TextParts \cup [type : {"image"}, source : Sources]
PartType   == {Other} \cup TextParts \cup [type : {"image_url"}, url : URLs]
ContentOf(parts)  == {Null} \cup [is : {"string"}, text : Text] \cup [is : {"parts"}, parts : Seq(parts)]
MessagesOf(parts) == Seq([role : Role, content : ContentOf(parts)])

AnthropicRequest == [system : ContentOf(BlockType), messages : MessagesOf(BlockType),
                     stop : Seq(STRING), max : Int]
OpenAIRequest    == [messages : MessagesOf(PartType), stop : Seq(STRING), max : Int,
                     maxCompletion : Int]

CallType ==
  LET calls(consumer, requests) ==
        [consumer : {consumer}, provider : {"openai", "anthropic"}, strategy : {"proxy", "fusion"},
         request : requests]
  IN calls("anthropic", AnthropicRequest) \cup calls("openai", OpenAIRequest)

Failure(protocol) == [is : {"error"}, envelope : {protocol}, message : STRING]
Usage      == [input : Nat, output : Nat]
Completion == [is : {"completion"}, choices : Seq([content : ContentOf(PartType), finish : STRING]),
               reasoning : Text, usage : Usage]
Message    == [is : {"message"}, stop : STRING, usage : Usage,
               content : Seq({Other} \cup [type : {"text", "thinking"}, text : Text])]

ASSUME TranslationAssumption ==
  /\ Calls \subseteq CallType
  /\ OpenAIAnswers \subseteq Completion \cup Failure("openai")
  /\ AnthropicAnswers \subseteq Message \cup Failure("anthropic")
  /\ FusionMaxTokens \in Int

------------------------------------------------------------------------------
\* The parts or blocks of a type, and what the system says of all messages.
OfType(parts, type) == Kept(parts, {i \in DOMAIN parts : parts[i].type = type})
Ruled(messages)     == Kept(messages, {i \in DOMAIN messages : messages[i].role = "system"})
Spoken(messages)    == Kept(messages, {i \in DOMAIN messages : messages[i].role # "system"})

\* The texts, with a gap before each but the first one that is not empty.
Separated(texts, gap) ==
  FlattenSeq([i \in DOMAIN texts |->
                IF \A j \in 1..(i - 1) : texts[j] = <<>> THEN texts[i] ELSE gap \o texts[i]])

\* The texts that are not empty, on lines of their own.
Lines(texts) ==
  Separated(Kept(texts, {i \in DOMAIN texts : texts[i] # <<>>}), <<LineBreak>>)

\* Content.Text: the texts of its parts.  Bound: other parts have no field text.
TextOf(content) ==
  CASE content.is = "string" -> content.text
    [] content.is = "null"   -> <<>>
    [] content.is = "parts"  ->
         LET texts == OfType(content.parts, "text")
         IN Lines([i \in DOMAIN texts |-> texts[i].text])

------------------------------------------------------------------------------
(* The inbound adapter of server/anthropic.go. *)

DataURL(media, data) == [is |-> "data", comma |-> TRUE, media |-> media, base64 |-> TRUE, data |-> data]

\* A source of neither kind, or an inline one without data, makes an empty URL.
URLOf(source) ==
  CASE source.is = "base64" /\ source.data # "" -> DataURL(source.media, source.data)
    [] source.is = "url"                        -> [is |-> "web", at |-> source.at]
    [] OTHER                                    -> None

\* translateAnthropicBlock: an image without a source becomes an empty text.
PartOf(block) ==
  CASE block.type = "image" /\ block.source = None -> TextPart(<<>>)
    [] block.type = "image" /\ block.source # None ->
         [type |-> "image_url", url |-> URLOf(block.source)]
    [] OTHER -> block

CanonicalContent(content) ==
  CASE content.is = "parts" -> Parts([i \in DOMAIN content.parts |-> PartOf(content.parts[i])])
    [] content.is = "null"  -> Str(<<>>)
    [] OTHER                -> content

\* parseAnthropicRequest: system becomes the first message if it has any text.
FromAnthropic(request) ==
  LET system == TextOf(request.system)
      head   == IF system = <<>> THEN <<>> ELSE <<[role |-> "system", content |-> Str(system)]>>
  IN [messages |-> head \o [i \in DOMAIN request.messages |->
                              [request.messages[i] EXCEPT !.content = CanonicalContent(@)]],
      stop     |-> request.stop,
      max      |-> request.max,
      maxCompletion |-> 0]

------------------------------------------------------------------------------
(* The provider adapter of backend/anthropic.go. *)

\* parseDataURL, and the source of an image elsewhere: none, or one.  A payload
\* is taken to be base64 whether or not the URL says so.
SourcesOf(url) ==
  CASE url.is = "data" /\ url.comma ->
         <<[is |-> "base64", data |-> url.data,
            media |-> IF url.media = "" THEN "application/octet-stream" ELSE url.media]>>
    [] url.is = "web" -> <<[is |-> "url", at |-> url.at]>>
    [] OTHER          -> <<>>

\* Mutant: images that are not inline are forgotten.
BlocksOfInline(part) ==
  CASE part.type = "text"      -> IF part.text = <<>> THEN <<>> ELSE <<part>>
    [] part.type = "image_url" ->
         LET sources == IF part.url.is = "web" THEN <<>> ELSE SourcesOf(part.url)
         IN [i \in DOMAIN sources |-> [type |-> "image", source |-> sources[i]]]
    [] OTHER -> <<>>

\* anthropicContent: empty texts, and what has no translation, are dropped.
BlocksOf(part) ==
  CASE part.type = "text"      -> IF part.text = <<>> THEN <<>> ELSE <<part>>
    [] part.type = "image_url" ->
         LET sources == SourcesOf(part.url)
         IN [i \in DOMAIN sources |-> [type |-> "image", source |-> sources[i]]]
    [] OTHER -> <<>>

AnthropicContent(content) ==
  IF content.is = "string" THEN content
  ELSE LET parts  == IF content.is = "null" THEN <<>> ELSE content.parts
           blocks == FlattenSeq([i \in DOMAIN parts |-> BlocksOf(parts[i])])
       IN IF blocks = <<>> THEN Str(<<>>) ELSE Parts(blocks)

\* The texts of all system messages, with a blank line before each that follows text.
Hoisted(messages) ==
  LET ruled == Ruled(messages)
  IN Separated([i \in DOMAIN ruled |-> TextOf(ruled[i].content)], <<LineBreak, LineBreak>>)

\* openAIToAnthropicRequest
ToAnthropic(request) ==
  LET spoken == Spoken(request.messages)
      asked  == IF request.maxCompletion # 0 THEN request.maxCompletion ELSE request.max
  IN [system   |-> Str(Hoisted(request.messages)),
      messages |-> [i \in DOMAIN spoken |->
                      [spoken[i] EXCEPT !.content = AnthropicContent(@)]],
      stop     |-> request.stop,
      max      |-> IF asked <= 0 THEN 4096 ELSE asked]

\* Mutant: only the ends that tool calls make are told apart.
FinishOfTools(stop) == IF stop = "tool_use" THEN "tool_calls" ELSE "stop"

\* anthropicStopToOpenAIFinish; an empty reason is null.
FinishOf(stop) ==
  CASE stop = ""           -> ""
    [] stop = "max_tokens" -> "length"
    [] stop = "tool_use"   -> "tool_calls"
    [] OTHER               -> "stop"

\* The texts of the blocks of a type, one after the other.
Joined(message, type) ==
  LET of == OfType(message.content, type) IN FlattenSeq([i \in DOMAIN of |-> of[i].text])

\* anthropicToOpenAIResponse: the texts one after the other, and the thinking apart.
CompletionOf(message) ==
  [is        |-> "completion",
   choices   |-> <<[content |-> Str(Joined(message, "text")), finish |-> FinishOf(message.stop)]>>,
   reasoning |-> Joined(message, "thinking"),
   usage     |-> message.usage]

------------------------------------------------------------------------------
(* The response sink of server/anthropic.go. *)

\* openAIFinishToAnthropicStop
StopOf(finish) ==
  CASE finish = "length"                          -> "max_tokens"
    [] finish \in {"tool_calls", "function_call"} -> "tool_use"
    [] OTHER                                      -> "end_turn"

\* translateCompletionToAnthropic: the first choice, its text in one block.
MessageOf(completion) ==
  LET first == completion.choices[1]
  IN [is      |-> "message",
      content |-> <<TextPart(IF completion.choices = <<>> THEN <<>> ELSE TextOf(first.content))>>,
      stop    |-> IF completion.choices = <<>> THEN "end_turn" ELSE StopOf(first.finish),
      usage   |-> completion.usage]

\* anthropicErrorBody
ErrorOf(error) == [error EXCEPT !.envelope = "anthropic",
                                !.message  = IF @ = "" THEN "request failed" ELSE @]

------------------------------------------------------------------------------
Init ==
  /\ stage = "sent"
  /\ call \in Calls
  /\ canonical = None /\ outbound = None /\ answer = None /\ reply = None

\* nativeRelayFor: Execute forwards an Anthropic request to an Anthropic provider
\* as it came.  The fusion strategy has no such path.
Native ==
  call.strategy = "proxy" /\ call.consumer = "anthropic" /\ call.provider = "anthropic"

Decode ==
  /\ stage = "sent"
  /\ stage' = "canonical"
  /\ canonical' = IF call.consumer = "anthropic" THEN FromAnthropic(call.request) ELSE call.request
  /\ UNCHANGED <<call, outbound, answer, reply>>

\* buildFusionBody: a panelist is sent the messages, and the limit of the alias, if it
\* is positive.
Body ==
  IF call.strategy = "proxy" THEN canonical
  ELSE [canonical EXCEPT !.stop = <<>>, !.maxCompletion = 0,
                         !.max = IF FusionMaxTokens > 0 THEN FusionMaxTokens ELSE 0]

Forward ==
  /\ stage = "canonical"
  /\ stage' = "forwarded"
  /\ outbound' = CASE Native                      -> call.request
                   [] call.provider = "openai"    -> Body
                   [] OTHER                       -> ToAnthropic(Body)
  /\ UNCHANGED <<call, canonical, answer, reply>>

\* The upstream answers; of a fusion it is the synthesis, whose answer is shown.
Answer ==
  /\ stage = "forwarded"
  /\ stage' = "answered"
  /\ answer' \in IF call.provider = "openai" THEN OpenAIAnswers ELSE AnthropicAnswers
  /\ UNCHANGED <<call, canonical, outbound, reply>>

\* chatAnthropic translates a 200 and passes an error on; the sink of an
\* Anthropic consumer translates either.
Reply ==
  /\ stage = "answered"
  /\ stage' = "replied"
  /\ LET received == IF answer.is = "message" THEN CompletionOf(answer) ELSE answer
     IN reply' = CASE Native                    -> answer
                   [] call.consumer = "openai"  -> received
                   [] call.consumer = "anthropic" /\ ~Native ->
                        IF received.is = "error" THEN ErrorOf(received) ELSE MessageOf(received)
  /\ UNCHANGED <<call, canonical, outbound, answer>>

Next == Decode \/ Forward \/ Answer \/ Reply

Spec == Init /\ [][Next]_vars

------------------------------------------------------------------------------
(* What a request or an answer says, in whichever protocol it is. *)

Words(text) == Kept(text, {i \in DOMAIN text : text[i] # LineBreak})

\* An image is its address, or its media type and payload; without either it is none.
Shown(picture) ==
  CASE picture.is \in {"web", "url"} -> <<[type |-> "picture", at |-> picture.at]>>
    [] picture.is = "base64" \/ (picture.is = "data" /\ picture.comma) ->
         IF picture.data = "" THEN <<>>
         ELSE <<[type |-> "picture", data |-> picture.data,
                 media |-> IF picture.media = "" THEN "application/octet-stream" ELSE picture.media]>>
    [] OTHER -> <<>>

Item(part) ==
  CASE part.type = "text"      -> IF part.text = <<>> THEN <<>> ELSE <<part>>
    [] part.type = "image"     -> Shown(part.source)
    [] part.type = "image_url" -> Shown(part.url)
    [] OTHER                   -> <<part>>

\* The texts and images of a content in order, and what cannot be translated.
Items(content) ==
  CASE content.is = "parts"  -> FlattenSeq([i \in DOMAIN content.parts |-> Item(content.parts[i])])
    [] content.is = "string" -> IF content.text = <<>> THEN <<>> ELSE <<TextPart(content.text)>>
    [] OTHER                 -> <<>>

\* Who says what, the system's words apart.
Dialogue(request, protocol) ==
  LET spoken == Spoken(request.messages)
      ruled  == Ruled(request.messages)
      rules  == [i \in DOMAIN ruled |-> Words(TextOf(ruled[i].content))]
      system == IF protocol = "anthropic" THEN Words(TextOf(request.system)) ELSE <<>>
  IN [system |-> system \o FlattenSeq(rules),
      turns  |-> [i \in DOMAIN spoken |->
                    [role |-> spoken[i].role, items |-> Items(spoken[i].content)]]]

\* Without the parts that have no translation.
KnownItems(items) == Kept(items, {i \in DOMAIN items : items[i].type \in {"text", "picture"}})

Known(dialogue) ==
  [dialogue EXCEPT !.turns =
     [i \in DOMAIN @ |-> [role |-> @[i].role, items |-> KnownItems(@[i].items)]]]

Limit(request, protocol) ==
  IF protocol = "openai" /\ request.maxCompletion # 0 THEN request.maxCompletion ELSE request.max

\* The upstream is sent what the consumer sent: all system text, every turn with
\* its role, its texts and its images in order, and from a proxy the stop
\* sequences and the limit, which an Anthropic provider always gets.  Only parts
\* that an Anthropic provider's adapter does not know are dropped.
RequestFaithful ==
  stage \notin {"sent", "canonical"} =>
    LET sent == Dialogue(call.request, call.consumer)
        got  == Dialogue(outbound, call.provider)
        adapted == call.provider = "anthropic" /\ ~Native
    IN /\ got = IF adapted THEN Known(sent) ELSE sent
       /\ call.strategy = "proxy" =>
            /\ outbound.stop = call.request.stop
            /\ \/ Limit(outbound, call.provider) = Limit(call.request, call.consumer)
               \/ adapted /\ Limit(call.request, call.consumer) <= 0
       /\ adapted => outbound.max > 0

\* The words of an answer, why it ended and what it cost.
Said(a) ==
  IF a.is = "message"
  THEN [words |-> Words(Joined(a, "text")),
        end   |-> CASE a.stop = "max_tokens" -> "length" [] a.stop = "tool_use" -> "tools" [] OTHER -> "end",
        usage |-> a.usage]
  ELSE IF a.choices = <<>> THEN [words |-> <<>>, end |-> "end", usage |-> a.usage]
  ELSE [words |-> Words(TextOf(a.choices[1].content)),
        end   |-> CASE a.choices[1].finish = "length" -> "length"
                    [] a.choices[1].finish \in {"tool_calls", "function_call"} -> "tools"
                    [] OTHER -> "end",
        usage |-> a.usage]

\* The consumer is told what the upstream answered, in its own protocol: all the
\* text in order, an answer cut short as one cut short, the tokens used, and of an
\* error its message.
ReplyFaithful ==
  stage = "replied" =>
    IF answer.is = "error"
    THEN reply.is = "error" /\ reply.message \in {answer.message, "request failed"}
         /\ (answer.message # "" => reply.message = answer.message)
    ELSE /\ reply.is = (IF call.consumer = "anthropic" THEN "message" ELSE "completion")
         /\ Said(reply) = Said(answer)
==============================================================================
