---------------------------- MODULE ChatAdapter ----------------------------
(***************************************************************************)
(* BaseAdapter.create_stream_response as OpenAIChatAdapter uses it         *)
(* (adapters/base.py, adapters/openai_adapter.py) with                     *)
(* StreamChunk.to_openai_format and to_sse (abstraction/streaming.py): one *)
(* chunk is one event of Chat Completions, with the chunk's parts.         *)
(***************************************************************************)
EXTENDS StreamChunks

ChatStart == [sent |-> <<>>]

ChatEvent(type) == [type |-> type, delta |-> [Chunk EXCEPT !.event_type = "none"]]

\* What the client sees of a chunk: not the usage of a finish chunk, which is an
\* event of its own, nor a full text again.
Visible(c) ==
  [c EXCEPT !.text = @ /\ ~(c.whole /\ c.finish), !.usage = IF c.finish THEN {} ELSE @,
            !.event_type = "none", !.whole = FALSE, !.verbatim = FALSE, !.first = FALSE]

HasDelta(c) == c.role \/ c.text \/ c.reasoning \/ c.tools # <<>>

ChatFeed(a, c) ==
  LET event == [ChatEvent("chunk") EXCEPT !.delta = Visible(c)]
      usage == [ChatEvent("chunk") EXCEPT !.delta.usage = c.usage]
  IN  IF c.finish /\ c.usage # {} THEN [a EXCEPT !.sent = @ \o <<event, usage>>]
      ELSE IF c.finish \/ c.usage # {} \/ HasDelta(c) THEN [a EXCEPT !.sent = Append(@, event)]
      ELSE a

ChatEnd(a) == [a EXCEPT !.sent = Append(@, ChatEvent("done"))]
ChatError(a) == [a EXCEPT !.sent = @ \o <<ChatEvent("error"), ChatEvent("done")>>]
=============================================================================
