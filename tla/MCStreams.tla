----------------------------- MODULE MCStreams -----------------------------
(* Streams of a few chunks from every family of providers to every API: long *)
(* enough for two calls to interleave, or for one to come in pieces behind   *)
(* text; Gemini, which has most kinds of chunks, needs fewer.                *)
EXTENDS GatewayStream

MCMaxContent == [x \in Families |-> IF x = "gemini" THEN 2 ELSE 4]
=============================================================================
