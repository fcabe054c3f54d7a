--------------------------- MODULE GatewayStream ---------------------------
(***************************************************************************)
(* A streamed answer, from the provider's chunks to the client:            *)
(* _chunks_with_usage_recording (routes/gateway.py) and                    *)
(* _resp_chunks_with_usage (routes/gateway_responses.py) take the chunks,  *)
(* hand them to the adapter of the API the client called and bill the      *)
(* usage they saw. The upstream may break off or fail and the client may   *)
(* leave, at any point.                                                    *)
(***************************************************************************)
EXTENDS ResponsesAdapter, MessagesAdapter, ChatAdapter

CONSTANTS
  MaxContent  \* bound: chunks of content in a stream, for each family

ASSUME MaxContentAssumption == MaxContent \in [Families -> Nat]

VARIABLES
  api,      \* what the client called
  family,   \* of the provider
  fed,      \* the chunks the provider has yielded
  adapter,  \* generate() of the adapter, with the events sent
  usage,    \* last_usage
  phase,    \* of the wrapper: in its loop, before its finally, in the await of it, over
  outcome,  \* how the loop ended
  billed    \* the calls of record_stream_usage

vars == <<api, family, fed, adapter, usage, phase, outcome, billed>>

Apis == {"chat", "messages", "responses"}
Phases == {"streaming", "unwinding", "reconciling", "closed", "ended"}
Outcomes == {"none", "exhausted", "failed", "left", "cancelled"}

Init ==
  /\ api \in Apis
  /\ family \in Families
  /\ fed = <<>>
  /\ adapter = CASE api = "chat" -> ChatStart
                 [] api = "messages" -> MessagesStart
                 [] api = "responses" -> ResponsesStart
  /\ usage = {}
  /\ phase = "streaming"
  /\ outcome = "none"
  /\ billed = <<>>

-----------------------------------------------------------------------------
(* What the provider yields next. *)

FedWith(Has(_)) == {i \in DOMAIN fed : Has(fed[i])}
HasContent(c) == c.reasoning \/ c.text \/ c.tools # <<>>
ContentFed == FedWith(LAMBDA c : HasContent(c) /\ ~c.finish)
FinishFed == FedWith(LAMBDA c : c.finish)

\* The upstream has finished; what may follow is usage.
Over == fed # <<>> /\ (Last(fed).finish \/ Last(fed).event_type = "usage")

Upcoming ==
  LET first == FirstChunks(family)
  IN  CASE fed = <<>> /\ first # {} -> first
        [] Over -> IF Last(fed).finish THEN UsageChunks(family) ELSE {}
        [] OTHER -> LastChunks(family, fed)
                      \cup (IF Cardinality(ContentFed) < MaxContent[family]
                            THEN ContentChunks(family, fed) ELSE {})

AdapterFeed(c) ==
  adapter' = CASE api = "chat" -> ChatFeed(adapter, c)
               [] api = "messages" -> MessagesFeed(adapter, c)
               [] api = "responses" -> ResponsesFeed(adapter, c)

\* Mutant: the usage stays in the chunks.
Stripped_Inline(c) == c

\* For Chat Completions the usage is taken out of the chunk.
Stripped(c) == IF api = "chat" THEN [c EXCEPT !.usage = {}] ELSE c

\* A turn of the loop.
Feed ==
  /\ phase = "streaming"
  /\ \E c \in Upcoming :
       /\ fed' = Append(fed, c)
       /\ usage' = IF c.usage = {} THEN usage ELSE c.usage
       /\ AdapterFeed(Stripped(c))
  /\ UNCHANGED <<api, family, phase, outcome, billed>>

\* Mutant: the usage is recorded with the price and once more at the end.
Exhaust_Recorded ==
  /\ phase = "streaming"
  /\ phase' = "unwinding"
  /\ outcome' = "exhausted"
  /\ IF usage = {} THEN UNCHANGED <<adapter, billed>>
     ELSE AdapterFeed(Using(Chunk, usage)) /\ billed' = Append(billed, usage)
  /\ UNCHANGED <<api, family, fed, usage>>

\* The upstream has no more, whether it finished or broke off: a chunk with the
\* price goes out when there is usage.
Exhaust ==
  /\ phase = "streaming"
  /\ phase' = "unwinding"
  /\ outcome' = "exhausted"
  /\ IF usage = {} THEN UNCHANGED adapter ELSE AdapterFeed(Using(Chunk, usage))
  /\ UNCHANGED <<api, family, fed, usage, billed>>

\* The upstream raises.
Fail ==
  /\ phase = "streaming"
  /\ phase' = "unwinding"
  /\ outcome' = "failed"
  /\ UNCHANGED <<api, family, fed, adapter, usage, billed>>

\* Mutant: nothing is recorded for a client that leaves.
Leave_Unrecorded ==
  /\ phase = "streaming" \/ (phase = "unwinding" /\ outcome = "exhausted" /\ usage # {})
  /\ phase' = "closed"
  /\ outcome' = "left"
  /\ UNCHANGED <<api, family, fed, adapter, usage, billed>>

\* The client leaves while the loop waits for the upstream or hands out a chunk:
\* the generators are closed or cancelled there.
Leave ==
  /\ phase = "streaming" \/ (phase = "unwinding" /\ outcome = "exhausted" /\ usage # {})
  /\ phase' = "unwinding"
  /\ outcome' = "left"
  /\ UNCHANGED <<api, family, fed, adapter, usage, billed>>

Bill == billed' = Append(billed, usage)

\* The finally block. On routes/gateway.py it first awaits the reconciliation of
\* the tokens per minute.
Unwind ==
  /\ phase = "unwinding"
  /\ IF usage = {} THEN phase' = "closed" /\ UNCHANGED billed
     ELSE IF api = "responses" THEN phase' = "closed" /\ Bill
     ELSE phase' = "reconciling" /\ UNCHANGED billed
  /\ UNCHANGED <<api, family, fed, adapter, usage, outcome>>

Record ==
  /\ phase = "reconciling"
  /\ phase' = "closed"
  /\ Bill
  /\ UNCHANGED <<api, family, fed, adapter, usage, outcome>>

\* The client leaves during that await: the cancellation ends the finally block.
\* A request the client left before is not cancelled again.
LeaveReconciling ==
  /\ phase = "reconciling"
  /\ outcome # "left"
  /\ phase' = "closed"
  /\ outcome' = "cancelled"
  /\ UNCHANGED <<api, family, fed, adapter, usage, billed>>

\* The loop of the adapter ends after that of the wrapper.
Close ==
  /\ phase = "closed"
  /\ outcome \in {"exhausted", "failed"}
  /\ phase' = "ended"
  /\ adapter' = CASE api = "chat" ->
                       IF outcome = "failed" THEN ChatError(adapter) ELSE ChatEnd(adapter)
                  [] api = "messages" ->
                       IF outcome = "failed" THEN MessagesError(adapter) ELSE MessagesEnd(adapter)
                  [] api = "responses" ->
                       IF outcome = "failed" THEN ResponsesError(adapter)
                       ELSE ResponsesEnd(adapter)
  /\ UNCHANGED <<api, family, fed, usage, outcome, billed>>

Next ==
  \/ Feed \/ Exhaust \/ Fail \/ Leave \/ Unwind \/ Record \/ LeaveReconciling \/ Close

\* A request runs on, up to its end; the upstream may be silent for ever.
Fairness == WF_vars(Unwind) /\ WF_vars(Record) /\ WF_vars(Close)

Spec == Init /\ [][Next]_vars /\ Fairness
-----------------------------------------------------------------------------
(* What the stream promises. *)

\* The values the variables range over, and how far the counters of the items and
\* of the blocks can come.
TypeOK ==
  /\ api \in Apis /\ family \in Families /\ phase \in Phases /\ outcome \in Outcomes
  /\ usage \subseteq AllTokens
  /\ \A i \in DOMAIN billed : billed[i] \subseteq AllTokens
  /\ Len(fed) <= MaxContent[family] + 3
  /\ api = "responses" => adapter.next \in 0..Cardinality(Items)
  /\ api = "messages" => adapter.index = 0 \/ adapter.index < Cardinality(FedWith(HasContent))

sent == adapter.sent
Sent(type) == {i \in DOMAIN sent : sent[i].type = type}
SentOf(type, kind) == {i \in Sent(type) : sent[i].kind = kind}
Served == phase = "ended" /\ outcome = "exhausted"

\* The usage of a request is billed once, with the last report of the provider,
\* by the time the client has its end, except when the client left during the
\* reconciliation.
BilledOnce ==
  /\ Len(billed) <= 1
  /\ phase = "ended" => billed = (IF usage = {} THEN <<>> ELSE <<usage>>)
  /\ \A i \in DOMAIN billed :
       LET reports == FedWith(LAMBDA c : c.usage # {})
       IN  reports # {} /\ billed[i] = fed[CHOOSE n \in reports : \A k \in reports : k <= n].usage

\* Also a request that the client leaves or the upstream breaks is billed in the
\* end, if usage was reported and the client did not leave while the tokens were
\* reconciled.
Unwound ==
  (phase # "streaming" /\ usage # {}) ~> (billed # <<>> \/ outcome = "cancelled")

\* Every piece of text and of reasoning reaches the client exactly once, also
\* the last one, except that the Responses API has no delta for a text that comes
\* with the finish.
LastText(c) == c.text /\ c.finish
TextSent == IF api = "chat" THEN {i \in DOMAIN sent : sent[i].delta.text}
            ELSE SentOf("delta", "text")
ReasoningSent ==
  CASE api = "chat" -> {i \in DOMAIN sent : sent[i].delta.reasoning}
    [] api = "messages" -> SentOf("delta", "thinking")
    [] api = "responses" -> SentOf("delta", "reasoning")
Delivered ==
  Served =>
    /\ Cardinality(TextSent) = Cardinality(FedWith(LAMBDA c : c.text /\ ~c.whole))
         - (IF api = "responses" THEN Cardinality(FedWith(LAMBDA c : LastText(c) /\ ~c.whole)) ELSE 0)
    /\ Cardinality(ReasoningSent) = Cardinality(FedWith(LAMBDA c : c.reasoning))

\* The client is told the usage that is billed, once, in every API; a Responses
\* stream without a finish does not tell it, whether it broke off or comes from
\* Tencent VOD, which never sends one.
Told ==
  LET telling == CASE api = "chat" -> {i \in DOMAIN sent : sent[i].delta.usage # {}}
                   [] api = "messages" -> {i \in Sent("message_delta") : sent[i].usage # {}}
                   [] api = "responses" -> {i \in Sent("completed") : sent[i].usage # {}}
      told(i) == IF api = "chat" THEN sent[i].delta.usage ELSE sent[i].usage
  IN  Served /\ (api = "responses" => FinishFed # {}) =>
        /\ Cardinality(telling) = Len(billed)
        /\ \A i \in telling : told(i) = billed[1]

-----------------------------------------------------------------------------
(* The kinds of content in the order most upstreams have: reasoning, text, *)
(* calls, each kind in chunks of its own.                                  *)

KindsIn(c) ==
  (IF c.reasoning THEN {1} ELSE {}) \cup (IF c.text THEN {2} ELSE {})
    \cup (IF c.tools # <<>> THEN {3} ELSE {})
OneKind(i) == Cardinality(KindsIn(fed[i])) <= 1
InOrder ==
  /\ \A i \in DOMAIN fed : OneKind(i)
  /\ \A i, j \in DOMAIN fed : i < j => \A k \in KindsIn(fed[i]), l \in KindsIn(fed[j]) : k <= l

\* Pieces of a custom call after its input happened to be JSON.
Overrun(c) ==
  \E i, j \in DOMAIN fed :
    i < j /\ Tool(c, FALSE, "last") \in ToSet(fed[i].tools)
          /\ \E t \in ToSet(fed[j].tools) : t.call = c
FinishTools == \E i \in FinishFed : fed[i].tools # <<>>

\* The last text, when it had to wait for the usage.
LateTexts == Cardinality(FedWith(LAMBDA c : LastText(c) /\ c.usage = {}))

\* Responses: an item is added once, under an index of its own; its deltas follow
\* and add up to what its done event, the last of it, repeats. Nothing comes
\* between the events of the reasoning or of the message. This holds for content
\* in order, without calls in the finish chunk.
EventsOf(k) == {i \in DOMAIN sent : sent[i].kind = k}
ItemsInOrder ==
  api = "responses" =>
    /\ \A k \in Items : Cardinality(SentOf("added", k)) <= 1
    /\ \A i, j \in Sent("added") : i < j => sent[i].index < sent[j].index
    /\ InOrder /\ ~FinishTools =>
         \A k \in Items :
           \A i \in EventsOf(k) :
             /\ \E n \in SentOf("added", k) : n <= i /\ sent[n].index = sent[i].index
             /\ sent[i].type = "done" /\ ~Overrun(k) =>
                  /\ \A j \in EventsOf(k) : j <= i
                  /\ sent[i].size = Cardinality(SentOf("delta", k)) + (IF k = "text" THEN LateTexts ELSE 0)
             /\ k \in {"reasoning", "text"} =>
                  \A j \in EventsOf(k) : \A n \in i..j : sent[n].kind = k

\* Responses: a stream that ends has one response.completed, followed by the end
\* marker only. Behind a finish every item that was added has its done event, but
\* for a function call without arguments, and the completed response lists it with all
\* that its deltas brought, or is the upstream's own.
Upstream == [kind |-> "upstream", size |-> 0]
CompletedInFull ==
  api = "responses" /\ Served =>
    /\ \E n \in DOMAIN sent :
         /\ Sent("completed") = {n} /\ n = Len(sent) - 1 /\ Sent("end") = {Len(sent)}
         /\ FinishFed # {} =>
              \A i \in Sent("added") :
                LET k == sent[i].kind
                    size == Cardinality(SentOf("delta", k)) + (IF k = "text" THEN LateTexts ELSE 0)
                IN  /\ (k \in Functions => size > 0) => SentOf("done", k) # {}
                    /\ \/ sent[n].output = <<Upstream>>
                       \/ \E o \in ToSet(sent[n].output) : o.kind = k /\ o.size = size
                       \/ k = "reasoning" /\ usage = {}

\* Messages: message_start comes first, one message_delta and message_stop come
\* last, with every block between them.
Envelope ==
  api = "messages" =>
    /\ fed # <<>> => Sent("message_start") = {1}
    /\ Served => Sent("message_delta") = {Len(sent) - 1} /\ Sent("message_stop") = {Len(sent)}

\* Messages: the blocks have the indexes from 0 on and follow each other, each start
\* with its stop before the next start. Not so when a chunk mixes a call with text or
\* reasoning, when calls come with the finish, or when an answer is empty: then
\* there is a stop without a start.
Mixed(c) == c.tools # <<>> /\ (c.text \/ c.reasoning)
Before(type, i) == Cardinality({j \in Sent(type) : j < i})
BlocksPaired ==
  api = "messages" /\ FedWith(Mixed) = {} /\ ~FinishTools =>
    /\ \A i \in Sent("block_start") :
         Before("block_start", i) = sent[i].index /\ Before("block_stop", i) = sent[i].index
    /\ \A i \in Sent("block_stop") :
         \/ Sent("block_start") = {} /\ Sent("block_stop") = {i}
         \/ /\ Before("block_start", i) = sent[i].index + 1
            /\ Before("block_stop", i) = sent[i].index
    /\ Served /\ Sent("block_start") # {} =>
         Cardinality(Sent("block_start")) = Cardinality(Sent("block_stop"))

\* Messages: a delta is in the block of its own kind that is open, for content in
\* order of which the calls do not interleave.
Interleaved ==
  \E i, j \in DOMAIN fed :
    i < j /\ \E t \in ToSet(fed[i].tools), u \in ToSet(fed[j].tools) :
               u.call # t.call /\ \E k \in j..Len(fed) : \E v \in ToSet(fed[k].tools) : v.call = t.call
DeltasInBlock ==
  api = "messages" /\ InOrder /\ ~Interleaved =>
    \A i \in Sent("delta") :
      \E n \in SentOf("block_start", sent[i].kind) :
        /\ n < i /\ sent[n].index = sent[i].index
        /\ \A j \in n..i : sent[j].type # "block_stop"
=============================================================================
