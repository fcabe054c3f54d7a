-------------------------- MODULE ResponsesAdapter --------------------------
(***************************************************************************)
(* OpenAIResponsesAdapter.create_stream_response and what it calls         *)
(* (adapters/responses_adapter.py): from the chunks of a stream to the     *)
(* events of the Responses API. An item is the reasoning, the message or a *)
(* tool call. The events that open or close an item always come together   *)
(* and are one event here.                                                 *)
(***************************************************************************)
EXTENDS StreamChunks

Items == {"reasoning", "text"} \cup Calls

NoItem == [state |-> "none", index |-> 0, size |-> 0]

\* The local variables of generate() and the _stream_ attributes:
\*   item       reasoning_started / _stream_text_started / _stream_tool_calls, with
\*              their _closed or done flags and what they have accumulated
\*   calls      the order of _stream_tool_calls
\*   next       _stream_output_index
\*   full       the pieces of full_text
\*   thought    the pieces of _stream_full_reasoning
\*   buffered   finish_chunk, at most one
\*   deferred   _stream_deferred_usage
\*   completed  _stream_completed_emitted
ResponsesStart ==
  [item |-> [k \in Items |-> NoItem], calls |-> <<>>, next |-> 0, full |-> 0, thought |-> 0,
   buffered |-> <<>>, deferred |-> {}, completed |-> FALSE, sent |-> <<>>]

-----------------------------------------------------------------------------
Emit(a, event) == [a EXCEPT !.sent = Append(@, event)]

\* output_item.added and what opens its part: the item takes the next index.
AddItem(a, k) ==
  Emit([a EXCEPT !.item[k] = [state |-> "open", index |-> a.next, size |-> 0],
                 !.next = @ + 1],
       Event("added", k, a.next, 0))

Grow(a, k) == Emit([a EXCEPT !.item[k].size = @ + 1], Event("delta", k, a.item[k].index, 1))

\* The done events of an item, which repeat the whole of it.
CloseItem(a, k, size) ==
  Emit([a EXCEPT !.item[k].state = "closed"], Event("done", k, a.item[k].index, size))

CloseReasoning(a) ==
  IF a.item["reasoning"].state = "open" THEN CloseItem(a, "reasoning", a.item["reasoning"].size)
  ELSE a

\* _emit_text_close_events
CloseText(a) == IF a.item["text"].state = "open" THEN CloseItem(a, "text", a.full) ELSE a

-----------------------------------------------------------------------------
(* format_stream_chunk *)

\* An entry of tool_calls. The call is done as soon as its arguments parse.
ToolEntry(a, tool) ==
  LET k == tool.call
      b == IF tool.start THEN [AddItem(a, k) EXCEPT !.calls = Append(@, k)] ELSE a
      c == IF tool.args = "none" THEN b ELSE Grow(b, k)
  IN  IF tool.args = "last" /\ c.item[k].state = "open" THEN CloseItem(c, k, c.item[k].size) ELSE c

ToolEntries(a, tools) ==
  LET upTo[i \in 0..Len(tools)] == IF i = 0 THEN a ELSE ToolEntry(upTo[i - 1], tools[i])
  IN  upTo[Len(tools)]

\* Mutant: a custom call without input is left open like an empty function call.
NeedsClose_ArgumentsOnly(a, k) == a.item[k].state = "open" /\ a.item[k].size > 0

\* Calls that never parsed: an empty one of a function is not closed at all.
NeedsClose(a, k) == a.item[k].state = "open" /\ (a.item[k].size > 0 \/ k \in Customs)

CloseCalls(a) ==
  LET upTo[i \in 0..Len(a.calls)] ==
        IF i = 0 THEN a
        ELSE LET b == upTo[i - 1]
             IN  IF NeedsClose(b, a.calls[i])
                 THEN CloseItem(b, a.calls[i], b.item[a.calls[i]].size) ELSE b
  IN  upTo[Len(a.calls)]

OutputOf(k, size) == IF size = 0 /\ k \in {"reasoning", "text"} THEN <<>>
                     ELSE <<[kind |-> k, size |-> size]>>
CallsOutput(a) == [i \in 1..Len(a.calls) |->
                     [kind |-> a.calls[i], size |-> a.item[a.calls[i]].size]]

\* response.completed
Complete(a, output, usage) ==
  Emit([a EXCEPT !.completed = TRUE],
       [Telling(Event("completed", "response", 0, 0), usage) EXCEPT !.output = output])

\* A chunk with finish_reason whose delta_content has become full_text. The text
\* is done, though not marked as closed. With calls and no text the completion
\* waits for the end of the stream; a response that the provider completed itself
\* is passed on as it is.
FormatFinish(a, tools, usage, verbatim) ==
  LET b == CloseCalls(ToolEntries(a, tools))
      text == b.item["text"]
      d == IF text.state = "open" THEN Emit(b, Event("done", "text", text.index, b.full)) ELSE b
      message == IF text.state # "none" THEN <<[kind |-> "text", size |-> b.full]>> ELSE <<>>
  IN  IF b.calls # <<>> /\ text.state = "none" THEN [d EXCEPT !.deferred = usage]
      ELSE IF d.completed THEN d
      ELSE Complete(d, IF verbatim THEN <<[kind |-> "upstream", size |-> 0]>>
                       ELSE OutputOf("reasoning", d.thought) \o message \o CallsOutput(d), usage)

\* A chunk without finish_reason: its tools first, then its text.
FormatDelta(a, c) ==
  LET b == ToolEntries(a, c.tools)
      d == IF c.text /\ b.item["text"].state = "none" THEN AddItem(b, "text") ELSE b
  IN  IF c.text THEN Grow(d, "text") ELSE d

-----------------------------------------------------------------------------
(* _process_chunk *)

ReasoningPart(a, c) ==
  LET b == IF a.item["reasoning"].state = "none" THEN AddItem(a, "reasoning") ELSE a
      d == IF c.reasoning THEN Grow(b, "reasoning") ELSE a
  IN  IF c.text THEN CloseReasoning(d) ELSE d

\* Finish and usage together: the chunk's own text gives way to full_text.
FinishWithUsage(a, c) ==
  LET b == CloseReasoning(a)
  IN  FormatFinish([b EXCEPT !.buffered = <<>>, !.thought = b.item["reasoning"].size],
                   c.tools, c.usage, c.verbatim)

\* Finish alone: it waits for the usage.
FinishAlone(a, c) ==
  [CloseReasoning(a) EXCEPT !.full = @ + (IF c.text THEN 1 ELSE 0), !.buffered = <<c>>]

UsageOnly(c) == c.usage # {} /\ ~c.finish /\ c.tools = <<>> /\ ~c.text /\ ~c.reasoning

UsageArrives(a, c) ==
  IF a.buffered = <<>> THEN a
  ELSE FormatFinish([a EXCEPT !.buffered = <<>>, !.thought = a.item["reasoning"].size],
                    a.buffered[1].tools, c.usage, FALSE)

\* Mutant: the text is not closed before the tools.
Delta_TextOpen(a, c) ==
  LET b == [a EXCEPT !.full = @ + (IF c.text THEN 1 ELSE 0)]
  IN  FormatDelta(IF c.tools = <<>> THEN b ELSE CloseReasoning(b), c)

\* Anything else. Tools close the reasoning and the text before them.
Delta(a, c) ==
  LET b == [a EXCEPT !.full = @ + (IF c.text THEN 1 ELSE 0)]
  IN  FormatDelta(IF c.tools = <<>> THEN b ELSE CloseText(CloseReasoning(b)), c)

ProcessChunk(a, c) ==
  LET b == ReasoningPart(a, c)
  IN  IF c.finish /\ c.usage # {} THEN FinishWithUsage(b, c)
      ELSE IF c.finish THEN FinishAlone(b, c)
      ELSE IF UsageOnly(c) THEN UsageArrives(b, c)
      ELSE Delta(b, c)

-----------------------------------------------------------------------------
(* generate *)

IsMarker(c) == c.role /\ ~c.text /\ ~c.reasoning /\ ~c.finish /\ c.tools = <<>>

\* format_stream_start, once the leading markers are over.
Open(a) == IF a.sent = <<>> THEN Emit(a, Event("created", "response", 0, 0)) ELSE a

ResponsesFeed(a, c) == IF a.sent = <<>> /\ IsMarker(c) THEN a ELSE ProcessChunk(Open(a), c)

\* After the last chunk: a finish that still waits, a completion that was put off,
\* and the end marker.
ResponsesEnd(a) ==
  LET o == Open(a)
      b == IF o.buffered = <<>> THEN o
           ELSE FormatFinish(o, o.buffered[1].tools, o.buffered[1].usage, FALSE)
      text == IF b.item["text"].state = "none" THEN 0 ELSE b.full
      d == IF b.completed THEN b
           ELSE Complete(b, OutputOf("reasoning", b.item["reasoning"].size)
                              \o OutputOf("text", text) \o CallsOutput(b), b.deferred)
  IN  Emit(d, Event("end", "response", 0, 0))

\* An exception of the source.
ResponsesError(a) == Emit(Emit(a, Event("error", "response", 0, 0)), Event("end", "response", 0, 0))
=============================================================================
