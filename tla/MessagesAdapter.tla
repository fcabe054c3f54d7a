-------------------------- MODULE MessagesAdapter --------------------------
(***************************************************************************)
(* AnthropicMessagesAdapter.create_stream_response                         *)
(* (adapters/anthropic_adapter.py) and StreamChunk.to_anthropic_events     *)
(* (abstraction/streaming.py): from the chunks of a stream to the events   *)
(* of the Messages API, whose content is a sequence of blocks.             *)
(***************************************************************************)
EXTENDS StreamChunks

\* The local variables of generate(): first_chunk (negated), accumulated_usage,
\* pending_finish_chunk with its anthropic_index (at most one), the two
\* _block_started flags, block_open and content_block_index.
MessagesStart ==
  [started |-> FALSE, usage |-> {}, pending |-> <<>>, thinking |-> FALSE, text |-> FALSE,
   open |-> FALSE, index |-> 0, sent |-> <<>>]

MessageDelta(usage) == Telling(Event("message_delta", "message", 0, 0), usage)
BlockStop(index) == Event("block_stop", "block", index, 0)

EmitBlocks(a, events) == [a EXCEPT !.sent = @ \o events]

-----------------------------------------------------------------------------
(* to_anthropic_events: of several tool calls only the first is taken. *)

EventIf(condition, event) == IF condition THEN <<event>> ELSE <<>>

ToolEvents(tool, index) ==
  EventIf(tool.start, Event("block_start", tool.call, index, 0))
    \o EventIf(tool.args # "none", Event("delta", tool.call, index, 1))

ContentEvents(c, index) ==
  EventIf(c.reasoning, Event("delta", "thinking", index, 1))
    \o EventIf(c.text /\ ~(c.whole /\ c.finish), Event("delta", "text", index, 1))
    \o (IF c.tools = <<>> THEN <<>> ELSE ToolEvents(c.tools[1], index))

\* stopped: generate() leaves out the stop, since it has stopped the block itself.
AnthropicEvents(c, index, stopped) ==
  IF c.event_type = "usage" THEN <<MessageDelta(c.usage)>>
  ELSE ContentEvents(c, index) \o EventIf(c.finish /\ ~stopped, BlockStop(index))
         \o EventIf(c.finish, MessageDelta(c.usage))

-----------------------------------------------------------------------------
(* generate *)

\* Mutant: text goes on in the block that is open.
NewBlock_TextShares(a, c) ==
  CASE c.reasoning /\ ~a.thinking -> "thinking"
    [] ~(c.reasoning /\ ~a.thinking) /\ c.text /\ ~a.text /\ ~a.open -> "text"
    [] OTHER -> IF c.tools # <<>> /\ ~c.finish /\ c.tools[1].start THEN "tool_use" ELSE "none"

\* new_block_type: a tool call opens one only in a chunk without finish_reason.
NewBlock(a, c) ==
  CASE c.reasoning /\ ~a.thinking -> "thinking"
    [] ~(c.reasoning /\ ~a.thinking) /\ c.text /\ ~a.text -> "text"
    [] OTHER -> IF c.tools # <<>> /\ ~c.finish /\ c.tools[1].start THEN "tool_use" ELSE "none"

\* Mutant: the block before it stays open.
OpenBlock_NoStop(a, type) ==
  LET b == IF a.open THEN [a EXCEPT !.index = @ + 1] ELSE a
      d == [b EXCEPT !.open = TRUE, !.thinking = @ \/ type = "thinking",
                     !.text = @ \/ type = "text"]
  IN  CASE type = "none" -> a
        [] type = "tool_use" -> d
        [] OTHER -> EmitBlocks(d, <<Event("block_start", type, d.index, 0)>>)

\* Mutant: the first block takes the next index, too.
OpenBlock_FirstIsNext(a, type) ==
  LET b == [a EXCEPT !.index = @ + 1, !.sent = @ \o EventIf(a.open, BlockStop(a.index))]
      d == [b EXCEPT !.open = TRUE, !.thinking = @ \/ type = "thinking",
                     !.text = @ \/ type = "text"]
  IN  CASE type = "none" -> a
        [] type = "tool_use" -> d
        [] OTHER -> EmitBlocks(d, <<Event("block_start", type, d.index, 0)>>)

\* The block before it is stopped; the start of a tool's block is left to its chunk.
OpenBlock(a, type) ==
  LET b == IF a.open THEN EmitBlocks([a EXCEPT !.index = @ + 1], <<BlockStop(a.index)>>) ELSE a
      d == [b EXCEPT !.open = TRUE, !.thinking = @ \/ type = "thinking",
                     !.text = @ \/ type = "text"]
  IN  CASE type = "none" -> a
        [] type = "tool_use" -> d
        [] OTHER -> EmitBlocks(d, <<Event("block_start", type, d.index, 0)>>)

Inline(a, c) ==
  LET b == OpenBlock(a, NewBlock(a, c))
  IN  EmitBlocks(b, AnthropicEvents([c EXCEPT !.finish = FALSE], b.index, FALSE))

\* Mutant: the text of a finish chunk is always taken for one already sent.
HoldFinish_Dropped(a, c) ==
  LET rest == [c EXCEPT !.text = FALSE, !.reasoning = FALSE]
  IN  [a EXCEPT !.pending = <<[chunk |-> rest, index |-> 0]>>]

\* A finish chunk: what it adds goes out, the rest waits for the end of the stream.
HoldFinish(a, c) ==
  LET inline == ~c.whole /\ (c.text \/ c.reasoning)
      b == IF inline THEN Inline(a, c) ELSE a
      rest == [c EXCEPT !.text = FALSE, !.reasoning = FALSE]
  IN  [b EXCEPT !.pending = <<[chunk |-> rest, index |-> IF inline THEN b.index ELSE 0]>>]

MessagesFeed(a, c) ==
  LET start == Telling(Event("message_start", "message", 0, 0), IF c.first THEN c.usage ELSE {})
      b == IF a.started THEN a ELSE EmitBlocks([a EXCEPT !.started = TRUE], <<start>>)
      d == IF c.usage = {} THEN b ELSE [b EXCEPT !.usage = c.usage]
  IN  IF c.finish THEN HoldFinish(d, c)
      ELSE IF c.event_type = "usage" THEN d
      ELSE Inline(d, c)

\* Mutant: no message_delta for a stream without a finish chunk.
MessagesEnd_NoFallback(a) ==
  LET b == IF a.open THEN EmitBlocks(a, <<BlockStop(a.index)>>) ELSE a
      held == a.pending[1]
      usage == IF a.usage = {} THEN held.chunk.usage ELSE a.usage
      last == IF a.pending = <<>> THEN <<>>
              ELSE AnthropicEvents([held.chunk EXCEPT !.usage = usage], held.index, a.open)
  IN  EmitBlocks(b, last \o <<Event("message_stop", "message", 0, 0)>>)

MessagesEnd(a) ==
  LET b == IF a.open THEN EmitBlocks(a, <<BlockStop(a.index)>>) ELSE a
      held == a.pending[1]
      usage == IF a.usage = {} THEN held.chunk.usage ELSE a.usage
      last == IF a.pending = <<>> THEN <<MessageDelta(a.usage)>>
              ELSE AnthropicEvents([held.chunk EXCEPT !.usage = usage], held.index, a.open)
  IN  EmitBlocks(b, last \o <<Event("message_stop", "message", 0, 0)>>)

MessagesError(a) ==
  EmitBlocks(a, <<Event("error", "message", 0, 0), Event("message_stop", "message", 0, 0)>>)
=============================================================================
