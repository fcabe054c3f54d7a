---------------------------- MODULE StreamChunks ----------------------------
(***************************************************************************)
(* What flows into an adapter and out of it: StreamChunk                   *)
(* (abstraction/streaming.py), the chunks that the parsers of seven        *)
(* families of providers make of what their upstream sends, and the events *)
(* a client gets. A text, a piece of reasoning or of arguments is only     *)
(* counted, a tool call is a name.                                         *)
(***************************************************************************)
EXTENDS Naturals, SequencesExt

CONSTANTS
  Functions,  \* tool calls whose arguments are JSON
  Customs     \* custom tool calls, with free text for input

Calls == Functions \cup Customs

\* Calls are kept apart from the reasoning and the text of an answer, and from the
\* response itself.
ASSUME CallsAssumption ==
  IsFiniteSet(Calls) /\ Calls \cap {"reasoning", "thinking", "text", "response"} = {}

\* An entry of tool_calls: the call, whether it carries the id that starts the
\* call, and its piece of arguments: none, one that leaves what has been
\* accumulated unparsable, or one that makes it parse as JSON.
Tool(call, start, args) == [call |-> call, start |-> start, args |-> args]

\* usage: what it reports, nothing when it is None; whole: the text is the full
\* one, already sent (_skip_content_on_finish_reason); verbatim: the usage carries
\* the upstream's own response; first: is_first_chunk; event_type: what the parser
\* took it for.
Chunk ==
  [role |-> FALSE, reasoning |-> FALSE, text |-> FALSE, whole |-> FALSE, tools |-> <<>>,
   finish |-> FALSE, usage |-> {}, verbatim |-> FALSE, first |-> FALSE,
   event_type |-> "content"]

Role == [Chunk EXCEPT !.role = TRUE]
Reasoning == [Chunk EXCEPT !.reasoning = TRUE]
Text == [Chunk EXCEPT !.text = TRUE]
Tools(entries) == [Chunk EXCEPT !.tools = entries]
Finish(c) == [c EXCEPT !.finish = TRUE]
Using(c, reported) == [c EXCEPT !.usage = reported]
UsageEvent(c) == [c EXCEPT !.event_type = "usage"]
AllTokens == {"input", "output"}

\* An event of a stream: its item or block, the index that names it, how much was
\* added up in it, the usage it tells and the output it lists.
Event(type, kind, index, size) ==
  [type |-> type, kind |-> kind, index |-> index, size |-> size, usage |-> {}, output |-> <<>>]
Telling(event, usage) == [event EXCEPT !.usage = usage]

-----------------------------------------------------------------------------
(* The calls of a stream so far: started, and parsed when the arguments     *)
(* have become JSON. Only free text goes on after that.                     *)
Entries(chunks) == UNION {ToSet(c.tools) : c \in ToSet(chunks)}
Started(chunks) == {t.call : t \in {x \in Entries(chunks) : x.start}}
Parsed(chunks) == {t.call : t \in {x \in Entries(chunks) : x.args = "last"}}

Startable(chunks, C) == C \ Started(chunks)
Growable(chunks, C) == {c \in Started(chunks) \cap C : c \notin Parsed(chunks) \/ c \in Customs}

Opening(c) == Tools(<<Tool(c, TRUE, "none")>>)
Piece(c, args) == Tools(<<Tool(c, FALSE, args)>>)
WholeCall(c) == Tool(c, TRUE, "last")

\* Arguments in pieces, told apart by the index of their call.
Pieces(chunks, C) ==
  {Opening(c) : c \in Startable(chunks, C)}
    \cup {Piece(c, p) : c \in Growable(chunks, C), p \in {"part", "last"}}

\* Arguments in pieces that do not tell their call: they are for the one that
\* started last, which the upstream ends before it starts another.
Latest(chunks) ==
  LET starts == SelectSeq(chunks, LAMBDA c : \E t \in ToSet(c.tools) : t.start)
  IN  IF starts = <<>> THEN {} ELSE {t.call : t \in ToSet(Last(starts).tools)}
PiecesOfLatest(chunks, C) ==
  {Opening(c) : c \in Startable(chunks, C)}
    \cup {Piece(c, p) : c \in Growable(chunks, C) \cap Latest(chunks), p \in {"part", "last"}}

\* _parse_stream_chunk of the OpenAI compatible providers: the last text may come
\* with finish_reason (MiniMax, Bailian), usage with it or in a chunk of its own.
OpenAIContent(chunks) == {Reasoning, Text} \cup Pieces(chunks, Functions)
OpenAIFinish ==
  {Finish(c) : c \in {Chunk, Text}} \cup {Using(Finish(c), AllTokens) : c \in {Chunk, Text}}

\* _parse_stream_chunk of Gemini: whole calls, several at once, parts of several
\* kinds in one chunk, usage in any of them; an end without content is a usage
\* event.
GeminiCalls(chunks) ==
  LET whole == {WholeCall(c) : c \in Startable(chunks, Functions)}
  IN  {<<t>> : t \in whole} \cup {p \in whole \X whole : p[1] # p[2]}
GeminiContent(chunks) ==
  {Reasoning, Text, Using(Text, AllTokens), [Text EXCEPT !.reasoning = TRUE]}
    \cup {Tools(t) : t \in GeminiCalls(chunks)}
    \cup {[Text EXCEPT !.tools = t] : t \in GeminiCalls(chunks)}
GeminiFinish(chunks) ==
  {Using(Finish(c), AllTokens) : c \in GeminiContent(chunks)}
    \cup {UsageEvent(Using(Finish(Chunk), AllTokens)), UsageEvent(Finish(Chunk))}

\* stream_chat of Azure: response.completed carries the full text, when there is
\* any, and the response itself, in its usage.
AzureContent(chunks) == {Reasoning, Text} \cup Pieces(chunks, Calls)
WholeText(chunks) ==
  [Finish(IF \E c \in ToSet(chunks) : c.text THEN Text ELSE Chunk) EXCEPT !.whole = TRUE]
AzureFinish(chunks) == {[Using(WholeText(chunks), AllTokens) EXCEPT !.verbatim = TRUE]}

\* _parse_responses_stream_event of Volcengine: the role comes with the message,
\* response.completed with the full text and usage.
VolcengineContent(chunks) ==
  {Reasoning} \cup PiecesOfLatest(chunks, Calls)
    \cup (IF Role \in ToSet(chunks) THEN {Text} ELSE {Role})
VolcengineFinish(chunks) == {Using(WholeText(chunks), AllTokens)}

\* _parse_responses_event of the compatible Responses API: response.completed is a
\* usage event, and no chunk at all when it has no usage.
CompatContent(chunks) == {Text} \cup Pieces(chunks, Calls)
CompatFinish == {UsageEvent(Using(Finish(Chunk), AllTokens))}

\* _stream_chat_responses of Tencent VOD: response.completed is usage only, there
\* is no finish_reason ever.
VodContent(chunks) == {Text} \cup PiecesOfLatest(chunks, Calls)
VodFinish == {UsageEvent(Using(Chunk, AllTokens))}

\* _parse_stream_event of Anthropic: message_start reports the input, message_delta
\* the output and perhaps the input again, and is a usage event.
AnthropicContent(chunks) == {Reasoning, Text} \cup Pieces(chunks, Functions)
AnthropicFinish == {UsageEvent(Using(Finish(Chunk), r)) : r \in {{"output"}, AllTokens}}

Families == {"openai", "gemini", "azure", "anthropic", "volcengine", "compat", "vod"}

\* A first chunk for the role, in three families.
FirstChunks(family) ==
  CASE family = "anthropic" ->
         {[Role EXCEPT !.first = TRUE, !.usage = r] : r \in {{}, {"input"}}}
    [] family \in {"openai", "azure"} -> {Role}
    [] OTHER -> {}

ContentChunks(family, chunks) ==
  CASE family = "openai" -> OpenAIContent(chunks)
    [] family = "gemini" -> GeminiContent(chunks)
    [] family = "azure" -> AzureContent(chunks)
    [] family = "volcengine" -> VolcengineContent(chunks)
    [] family = "compat" -> CompatContent(chunks)
    [] family = "vod" -> VodContent(chunks)
    [] OTHER -> AnthropicContent(chunks)

LastChunks(family, chunks) ==
  CASE family = "openai" -> OpenAIFinish
    [] family = "gemini" -> GeminiFinish(chunks)
    [] family = "azure" -> AzureFinish(chunks)
    [] family = "volcengine" -> VolcengineFinish(chunks)
    [] family = "compat" -> CompatFinish
    [] family = "vod" -> VodFinish
    [] OTHER -> AnthropicFinish

\* After the last chunk of content: usage of its own.
UsageChunks(family) ==
  IF family \in {"openai", "gemini"} THEN {UsageEvent(Using(Chunk, AllTokens))} ELSE {}
=============================================================================
