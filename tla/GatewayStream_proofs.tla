------------------------ MODULE GatewayStream_proofs ------------------------
(***************************************************************************)
(* For chunks of any number and calls of any names: the usage of a         *)
(* streamed answer is billed at most once, with the last report; the       *)
(* events of the Messages API are in their envelope, the blocks paired,    *)
(* the deltas in the block of their kind; and in all three APIs the        *)
(* variables keep their types, every piece of text and of reasoning is     *)
(* delivered once and the usage that is billed is told once.               *)
(***************************************************************************)
EXTENDS GatewayStream, InductionLemmas, SequenceTheorems

-----------------------------------------------------------------------------
(* Billing.                                                                *)

Reports == {i \in DOMAIN fed : fed[i].usage # {}}
LastOf(n) == n \in Reports /\ \A k \in Reports : k <= n

\* last_usage is the last report, and nothing before there is one.
UsageInv ==
  /\ \E S : fed \in Seq(S)
  /\ IF Reports = {} THEN usage = {} ELSE \E n \in Reports : LastOf(n) /\ usage = fed[n].usage

\* What is billed, by the place of the wrapper: nothing before its finally block,
\* and not without usage.
BilledInv ==
  /\ phase \in Phases
  /\ phase \in {"streaming", "unwinding", "reconciling"} => billed = <<>> /\ outcome # "cancelled"
  /\ phase = "reconciling" => usage # {}
  /\ phase \in {"closed", "ended"} =>
       billed = IF usage = {} \/ outcome = "cancelled" THEN <<>> ELSE <<usage>>
  /\ phase = "ended" => outcome # "cancelled"

IInv == UsageInv /\ BilledInv

-----------------------------------------------------------------------------
\* Every step keeps the invariant.
THEOREM Induction == Spec => []IInv
  <1>1. Init => IInv
    <2> SUFFICES ASSUME Init PROVE IInv
      OBVIOUS
    <2>1. fed = <<>> /\ usage = {} /\ phase = "streaming" /\ billed = <<>> /\ outcome = "none"
      BY DEF Init
    <2>2. <<>> \in Seq({}) /\ DOMAIN <<>> = {}
      OBVIOUS
    <2>3. Reports = {}
      BY <2>1, <2>2 DEF Reports
    <2>4. QED
      BY <2>1, <2>2, <2>3 DEF IInv, UsageInv, BilledInv, Phases
  <1>2. IInv /\ [Next]_vars => IInv'
    <2> SUFFICES ASSUME IInv, [Next]_vars PROVE UsageInv' /\ BilledInv'
      BY DEF IInv
    <2> USE DEF IInv, BilledInv, Phases
    <2>1. ASSUME UNCHANGED <<fed, usage>> PROVE UsageInv'
      BY <2>1 DEF UsageInv, Reports, LastOf
    <2>a. \A x : Append(<<>>, x) = <<x>>
      OBVIOUS
    <2>2. CASE Feed
      <3>1. PICK c \in Upcoming : /\ fed' = Append(fed, c)
                                  /\ usage' = IF c.usage = {} THEN usage ELSE c.usage
        BY <2>2 DEF Feed
      <3>2. PICK S : fed \in Seq(S)
        BY DEF UsageInv
      <3>m. PICK m \in Nat : m = Len(fed)
        BY <3>2
      <3>3. /\ fed \in Seq(S \cup {c}) /\ fed' \in Seq(S \cup {c})
            /\ DOMAIN fed = 1..m /\ DOMAIN fed' = 1..(m + 1)
            /\ fed'[m + 1] = c /\ \A i \in 1..m : fed'[i] = fed[i]
        BY <3>1, <3>2, <3>m
      <3>4. Reports' = IF c.usage = {} THEN Reports ELSE Reports \cup {m + 1}
        BY <3>3 DEF Reports
      <3>5. Reports \subseteq 1..m
        BY <3>3 DEF Reports
      <3>a. \E T : fed' \in Seq(T)
        BY <3>3
      <3>6. ASSUME c.usage = {} PROVE UsageInv'
        <4>1. Reports' = Reports /\ usage' = usage /\ \A n \in Reports : fed'[n] = fed[n]
          BY <3>1, <3>3, <3>4, <3>5, <3>6
        <4>2. IF Reports' = {} THEN usage' = {}
              ELSE \E n \in Reports' : (\A k \in Reports' : k <= n) /\ usage' = fed'[n].usage
          BY <4>1 DEF UsageInv, LastOf
        <4>3. IF Reports' = {} THEN usage' = {} ELSE \E n \in Reports' : LastOf(n)' /\ usage' = fed'[n].usage
          BY <4>2 DEF LastOf
        <4>4. QED
          BY <4>3, <3>a DEF UsageInv
      <3>7. ASSUME c.usage # {} PROVE UsageInv'
        <4>1. /\ Reports' = Reports \cup {m + 1} /\ usage' = fed'[m + 1].usage
              /\ \A k \in Reports' : k <= m + 1
          BY <3>1, <3>3, <3>4, <3>5, <3>7
        <4>2. m + 1 \in Reports' /\ LastOf(m + 1)'
          BY <4>1 DEF LastOf
        <4>3. QED
          BY <4>1, <4>2, <3>a DEF UsageInv
      <3>8. UsageInv'
        BY <3>6, <3>7
      <3>9. BilledInv'
        BY <2>2 DEF Feed
      <3>10. QED
        BY <3>8, <3>9
    <2>3. CASE Exhaust
      BY <2>1, <2>3 DEF Exhaust
    <2>4. CASE Fail
      BY <2>1, <2>4 DEF Fail
    <2>5. CASE Leave
      BY <2>1, <2>5 DEF Leave
    <2>6. CASE Unwind
      <3>1. /\ phase = "unwinding" /\ UNCHANGED <<fed, usage, outcome>>
            /\ \/ usage = {} /\ phase' = "closed" /\ billed' = billed
               \/ usage # {} /\ phase' = "closed" /\ billed' = Append(billed, usage)
               \/ usage # {} /\ phase' = "reconciling" /\ billed' = billed
        BY <2>6 DEF Unwind, Bill
      <3>2. billed = <<>> /\ outcome # "cancelled"
        BY <3>1
      <3>3. BilledInv'
        BY <3>1, <3>2, <2>a
      <3>4. QED
        BY <2>1, <3>1, <3>3
    <2>7. CASE Record
      <3>1. /\ phase = "reconciling" /\ phase' = "closed" /\ UNCHANGED <<fed, usage, outcome>>
            /\ billed' = Append(billed, usage)
        BY <2>7 DEF Record, Bill
      <3>2. billed = <<>> /\ usage # {} /\ outcome # "cancelled"
        BY <3>1
      <3>3. BilledInv'
        BY <3>1, <3>2, <2>a
      <3>4. QED
        BY <2>1, <3>1, <3>3
    <2>8. CASE LeaveReconciling
      BY <2>1, <2>8 DEF LeaveReconciling
    <2>9. CASE Close
      BY <2>1, <2>9 DEF Close
    <2>10. CASE UNCHANGED vars
      BY <2>1, <2>10 DEF vars
    <2>11. QED
      BY <2>2, <2>3, <2>4, <2>5, <2>6, <2>7, <2>8, <2>9, <2>10 DEF Next
  <1>3. QED
    BY <1>1, <1>2, PTL DEF Spec

\* However chunks, failures, departures of the client and the reconciliation of
\* its tokens interleave, record_stream_usage is called at most once, with the
\* last report, and has been called when the client has its end.
THEOREM UsageBilledOnce == Spec => []BilledOnce
  <1>1. IInv => BilledOnce
    <2> SUFFICES ASSUME IInv PROVE BilledOnce
      OBVIOUS
    <2>1. /\ billed = <<>> \/ (billed = <<usage>> /\ usage # {})
          /\ phase = "ended" => billed = (IF usage = {} THEN <<>> ELSE <<usage>>)
      BY DEF IInv, BilledInv, Phases
    <2>2. Len(billed) <= 1
      BY <2>1
    <2>3. ASSUME NEW i \in DOMAIN billed
          PROVE  /\ Reports # {}
                 /\ billed[i] = fed[CHOOSE n \in Reports : \A k \in Reports : k <= n].usage
      <3>1. usage # {} /\ billed[i] = usage
        BY <2>1
      <3>2. PICK n \in Reports : LastOf(n) /\ usage = fed[n].usage
        BY <3>1 DEF IInv, UsageInv
      <3>3. Reports \subseteq Nat
        BY DEF IInv, UsageInv, Reports
      <3> DEFINE m == CHOOSE x \in Reports : \A k \in Reports : k <= x
      <3>4. m \in Reports /\ \A k \in Reports : k <= m
        BY <3>2 DEF LastOf
      <3> HIDE DEF m
      <3>5. m = n
        BY <3>2, <3>3, <3>4 DEF LastOf
      <3>6. QED
        BY <3>1, <3>2, <3>5 DEF m
    <2>4. FedWith(LAMBDA c : c.usage # {}) = Reports
      BY DEF FedWith, Reports
    <2>5. QED
      BY <2>1, <2>2, <2>3, <2>4 DEF BilledOnce
  <1>2. QED
    BY <1>1, Induction, PTL

-----------------------------------------------------------------------------
(* Counting in a sequence.                                                 *)

\* The places of the members of T in s, and their number.
At(s, T) == {i \in DOMAIN s : s[i] \in T}
Count(s, T) == Cardinality(At(s, T))

\* What an element more does.
LEMMA AppendFacts ==
  ASSUME NEW S, NEW s \in Seq(S), NEW e \in S
  PROVE  /\ Append(s, e) \in Seq(S) /\ Len(Append(s, e)) = Len(s) + 1 /\ Len(s) \in Nat
         /\ DOMAIN s = 1..Len(s) /\ DOMAIN Append(s, e) = 1..(Len(s) + 1)
         /\ \A i \in 1..Len(s) : Append(s, e)[i] = s[i]
         /\ Append(s, e)[Len(s) + 1] = e
         /\ Append(s, e) = s \o <<e>>
  BY AppendProperties, AppendIsConcat, LenProperties

\* An element counts once.
LEMMA CountAppend ==
  ASSUME NEW S, NEW s \in Seq(S), NEW e \in S, NEW T
  PROVE  /\ IsFiniteSet(At(s, T)) /\ Count(s, T) \in Nat
         /\ At(Append(s, e), T) = At(s, T) \cup (IF e \in T THEN {Len(s) + 1} ELSE {})
         /\ Count(Append(s, e), T) = Count(s, T) + (IF e \in T THEN 1 ELSE 0)
  <1>1. /\ DOMAIN s = 1..Len(s) /\ DOMAIN Append(s, e) = 1..(Len(s) + 1) /\ Len(s) \in Nat
        /\ \A i \in 1..Len(s) : Append(s, e)[i] = s[i]
        /\ Append(s, e)[Len(s) + 1] = e
    BY AppendFacts
  <1>2. At(s, T) \subseteq 1..Len(s)
    BY <1>1 DEF At
  <1>3. IsFiniteSet(At(s, T)) /\ Count(s, T) \in Nat
    <2>1. IsFiniteSet(1..Len(s))
      BY <1>1, FS_Interval
    <2>2. QED
      BY <1>2, <2>1, FS_Subset, FS_CardinalityType DEF Count
  <1>4. At(Append(s, e), T) = At(s, T) \cup (IF e \in T THEN {Len(s) + 1} ELSE {})
    BY <1>1 DEF At
  <1>5. Len(s) + 1 \notin At(s, T)
    BY <1>1, <1>2
  <1>6. Cardinality(At(s, T) \cup {Len(s) + 1}) = Cardinality(At(s, T)) + 1
    BY <1>3, <1>5, FS_AddElement
  <1>7. e \in T => At(Append(s, e), T) = At(s, T) \cup {Len(s) + 1}
    BY <1>4
  <1>8. e \notin T => At(Append(s, e), T) = At(s, T)
    BY <1>4
  <1>9. Count(Append(s, e), T) = Count(s, T) + (IF e \in T THEN 1 ELSE 0)
    <2>1. CASE e \in T
      <3>1. Cardinality(At(Append(s, e), T)) = Cardinality(At(s, T)) + 1
        BY <1>6, <1>7, <2>1
      <3>2. QED
        BY <2>1, <3>1 DEF Count
    <2>2. CASE e \notin T
      BY <1>3, <1>8, <2>2 DEF Count
    <2>3. QED
      BY <2>1, <2>2
  <1>10. QED
    BY <1>3, <1>4, <1>9

\* Nothing counts in the empty sequence.
LEMMA CountEmpty == ASSUME NEW T PROVE At(<<>>, T) = {} /\ Count(<<>>, T) = 0
  BY FS_EmptySet DEF At, Count

\* A count of nothing is of no place.
LEMMA CountZero ==
  ASSUME NEW S, NEW s \in Seq(S), NEW T
  PROVE  /\ IsFiniteSet(At(s, T)) /\ Count(s, T) \in Nat /\ At(s, T) \subseteq 1..Len(s)
         /\ Count(s, T) = 0 <=> At(s, T) = {}
  <1>1. DOMAIN s = 1..Len(s) /\ Len(s) \in Nat
    BY LenProperties
  <1>2. At(s, T) \subseteq 1..Len(s)
    BY <1>1 DEF At
  <1>3. IsFiniteSet(At(s, T))
    <2>1. IsFiniteSet(1..Len(s))
      BY <1>1, FS_Interval
    <2>2. QED
      BY <1>2, <2>1, FS_Subset
  <1>4. QED
    BY <1>2, <1>3, FS_EmptySet, FS_CardinalityType DEF Count

-----------------------------------------------------------------------------
(* Chunks.                                                                 *)

ToolType == [call : Calls, start : BOOLEAN, args : {"none", "part", "last"}]
ChunkType ==
  [role : BOOLEAN, reasoning : BOOLEAN, text : BOOLEAN, whole : BOOLEAN, tools : Seq(ToolType),
   finish : BOOLEAN, usage : SUBSET AllTokens, verbatim : BOOLEAN, first : BOOLEAN,
   event_type : {"content", "usage"}]

\* What the adapters rely on in a chunk that comes behind chunks f.
Shape(c, f) ==
  /\ c \in ChunkType
  /\ c.event_type = "usage" => ~HasContent(c)
  /\ c.whole => c.finish /\ ~c.reasoning /\ c.tools = <<>>
  /\ c.finish /\ c.tools # <<>> => c.usage # {}
  /\ c.usage # {} /\ ~c.finish /\ ~HasContent(c) => c.event_type = "usage" \/ c.first
  /\ ~HasContent(c) /\ ~c.finish /\ c.event_type # "usage" => c.role
  /\ \A i \in DOMAIN c.tools :
       /\ c.tools[i].start => c.tools[i].call \notin Started(f)
       /\ ~c.tools[i].start => c.tools[i].call \in Started(f) /\ ~c.finish /\ Len(c.tools) = 1
       /\ \A j \in DOMAIN c.tools : i # j => c.tools[i].call # c.tools[j].call

\* The plain chunks.
LEMMA PlainChunks ==
  /\ Chunk \in ChunkType /\ Role \in ChunkType /\ Reasoning \in ChunkType /\ Text \in ChunkType
  /\ [Text EXCEPT !.reasoning = TRUE] \in ChunkType
  /\ \A x \in {Chunk, Role, Reasoning, Text, [Text EXCEPT !.reasoning = TRUE]} :
       /\ x.tools = <<>> /\ ~x.finish /\ x.usage = {} /\ ~x.whole /\ x.event_type = "content"
       /\ ~x.first
  /\ Role.role /\ ~HasContent(Role) /\ ~Chunk.role /\ ~HasContent(Chunk)
  /\ Reasoning.reasoning /\ ~Reasoning.text /\ ~Reasoning.role
  /\ Text.text /\ ~Text.reasoning /\ ~Text.role
  /\ HasContent(Reasoning) /\ HasContent(Text) /\ HasContent([Text EXCEPT !.reasoning = TRUE])
  <1>1. <<>> \in Seq(ToolType)
    BY EmptySeq
  <1>2. Chunk \in ChunkType /\ Role \in ChunkType /\ Reasoning \in ChunkType /\ Text \in ChunkType
    BY <1>1 DEF ChunkType, Chunk, Role, Reasoning, Text
  <1>3. [Text EXCEPT !.reasoning = TRUE] \in ChunkType
    BY <1>1 DEF ChunkType, Chunk, Text
  <1>4. QED
    BY <1>2, <1>3 DEF Chunk, Role, Reasoning, Text, HasContent

\* A chunk with calls.
Calling(c, u) == [c EXCEPT !.tools = u]

\* Finish changes the mark only.
LEMMA FinishChunk ==
  ASSUME NEW c \in ChunkType
  PROVE  /\ Finish(c) \in ChunkType /\ Finish(c).finish /\ Finish(c).usage = c.usage
         /\ Finish(c).tools = c.tools /\ Finish(c).text = c.text /\ Finish(c).whole = c.whole
         /\ Finish(c).reasoning = c.reasoning /\ Finish(c).event_type = c.event_type
         /\ Finish(c).role = c.role /\ Finish(c).first = c.first
  BY DEF Finish, ChunkType
\* Using changes the usage only.
LEMMA UsingChunk ==
  ASSUME NEW c \in ChunkType, NEW r \in SUBSET AllTokens
  PROVE  /\ Using(c, r) \in ChunkType /\ Using(c, r).finish = c.finish /\ Using(c, r).usage = r
         /\ Using(c, r).tools = c.tools /\ Using(c, r).text = c.text /\ Using(c, r).whole = c.whole
         /\ Using(c, r).reasoning = c.reasoning /\ Using(c, r).event_type = c.event_type
         /\ Using(c, r).role = c.role /\ Using(c, r).first = c.first
  BY DEF Using, ChunkType
\* UsageEvent changes the type only.
LEMMA UsageEventChunk ==
  ASSUME NEW c \in ChunkType
  PROVE  /\ UsageEvent(c) \in ChunkType /\ UsageEvent(c).finish = c.finish
         /\ UsageEvent(c).usage = c.usage /\ UsageEvent(c).event_type = "usage"
         /\ UsageEvent(c).tools = c.tools /\ UsageEvent(c).text = c.text
         /\ UsageEvent(c).whole = c.whole /\ UsageEvent(c).reasoning = c.reasoning
         /\ UsageEvent(c).role = c.role /\ UsageEvent(c).first = c.first
  BY DEF UsageEvent, ChunkType
\* Calling changes the calls only.
LEMMA CallingChunk ==
  ASSUME NEW c \in ChunkType, NEW u \in Seq(ToolType)
  PROVE  /\ Calling(c, u) \in ChunkType /\ Calling(c, u).tools = u
         /\ Calling(c, u).finish = c.finish /\ Calling(c, u).usage = c.usage
         /\ Calling(c, u).event_type = c.event_type /\ Calling(c, u).whole = c.whole
  BY DEF Calling, ChunkType

\* Every call in the chunk starts in it.
AllStart(c) == \A i \in DOMAIN c.tools : c.tools[i].start

\* A call that starts in it has no arguments there.
Bare(c) == \A i \in DOMAIN c.tools : c.tools[i].start => c.tools[i].args = "none"

\* Chunks without calls.
LEMMA CallFree ==
  ASSUME NEW f, NEW c \in ChunkType, c.tools = <<>>, c.event_type = "usage" => ~HasContent(c),
         c.whole => c.finish /\ ~c.reasoning,
         ~HasContent(c) /\ ~c.finish => (c.usage # {} => c.event_type = "usage" \/ c.first)
                                        /\ (c.event_type # "usage" => c.role)
  PROVE  Shape(c, f)
  BY EmptySeq DEF Shape

\* A chunk with one call, or a piece of one.
LEMMA OneCall ==
  ASSUME NEW f, NEW t \in ToolType, t.start <=> t.call \notin Started(f),
         NEW c \in ChunkType, ~c.finish \/ (t.start /\ c.usage # {}),
         ~c.whole, c.event_type = "content"
  PROVE  LET d == Calling(c, <<t>>)
         IN  Shape(d, f) /\ HasContent(d) /\ d.finish = c.finish /\ d.event_type = "content"
             /\ d.usage = c.usage /\ (t.start => AllStart(d)) /\ Len(d.tools) = 1
             /\ ((t.start => t.args = "none") => Bare(d))
  <1> DEFINE u == <<t>>
  <1>1. u \in Seq(ToolType) /\ DOMAIN u = {1} /\ u[1] = t /\ u # <<>> /\ Len(u) = 1
    OBVIOUS
  <1> HIDE DEF u
  <1> DEFINE d == Calling(c, u)
  <1>2. /\ d \in ChunkType /\ d.tools = u /\ d.finish = c.finish /\ d.event_type = c.event_type
        /\ d.usage = c.usage /\ d.whole = c.whole
    BY <1>1, CallingChunk
  <1> HIDE DEF d
  <1>3. HasContent(d)
    BY <1>1, <1>2 DEF HasContent
  <1>4. Shape(d, f)
    BY <1>1, <1>2, <1>3 DEF Shape, ToolType
  <1>5. QED
    BY <1>1, <1>2, <1>3, <1>4 DEF d, u, AllStart, Bare

\* The entries of tool_calls.
LEMMA Entry ==
  ASSUME NEW k \in Calls, NEW p \in {"none", "part", "last"}
  PROVE  /\ Tool(k, FALSE, p) \in ToolType /\ Tool(k, FALSE, p).call = k /\ ~Tool(k, FALSE, p).start
         /\ Tool(k, TRUE, p) \in ToolType /\ Tool(k, TRUE, p).call = k /\ Tool(k, TRUE, p).start
         /\ WholeCall(k) \in ToolType /\ WholeCall(k).call = k /\ WholeCall(k).start
  BY DEF Tool, ToolType, WholeCall

\* A chunk with two calls.
LEMMA TwoCalls ==
  ASSUME NEW f, NEW k \in Calls \ Started(f), NEW l \in Calls \ Started(f), k # l,
         NEW c \in ChunkType, c.finish => c.usage # {}, ~c.whole, c.event_type = "content"
  PROVE  LET d == Calling(c, <<WholeCall(k), WholeCall(l)>>)
         IN  Shape(d, f) /\ HasContent(d) /\ d.finish = c.finish /\ d.event_type = "content"
             /\ d.usage = c.usage /\ AllStart(d)
  <1> DEFINE t == WholeCall(k)
             v == WholeCall(l)
  <1>1. t \in ToolType /\ t.call = k /\ t.start /\ v \in ToolType /\ v.call = l /\ v.start
    BY Entry
  <1> HIDE DEF t, v
  <1> DEFINE u == <<t, v>>
  <1>2. /\ u \in Seq(ToolType) /\ DOMAIN u = {1, 2} /\ u[1] = t /\ u[2] = v /\ u # <<>>
    BY <1>1
  <1> HIDE DEF u
  <1> DEFINE d == Calling(c, u)
  <1>4. /\ d \in ChunkType /\ d.tools = u /\ d.finish = c.finish /\ d.event_type = c.event_type
        /\ d.usage = c.usage /\ d.whole = c.whole
    BY <1>2, CallingChunk
  <1> HIDE DEF d
  <1>5. HasContent(d)
    BY <1>2, <1>4 DEF HasContent
  <1>6. Shape(d, f)
    BY <1>1, <1>2, <1>4, <1>5 DEF Shape
  <1>7. QED
    BY <1>1, <1>2, <1>4, <1>5, <1>6 DEF d, t, v, u, AllStart

\* A chunk of content.
Content(c, f) == Shape(c, f) /\ HasContent(c) /\ ~c.finish /\ c.event_type = "content"

\* A chunk at the end.
Ending(c, f) == Shape(c, f) /\ (c.finish \/ (c.event_type = "usage" /\ c.usage # {}))

\* Text and reasoning.
LEMMA PlainContent ==
  ASSUME NEW f
  PROVE  Content(Reasoning, f) /\ Content(Text, f) /\ Content([Text EXCEPT !.reasoning = TRUE], f)
         /\ Shape(Role, f)
  BY PlainChunks, CallFree DEF Content

\* Calls in pieces.
LEMMA PiecesContent ==
  ASSUME NEW f, NEW C \in SUBSET Calls, NEW c \in Pieces(f, C) \cup PiecesOfLatest(f, C)
  PROVE  Content(c, f) /\ Len(c.tools) <= 1 /\ Bare(c)
  <1>1. Chunk \in ChunkType /\ ~Chunk.finish /\ ~Chunk.whole /\ Chunk.event_type = "content"
    BY PlainChunks
  <1>2. ASSUME NEW k \in Startable(f, C), c = Opening(k) PROVE Content(c, f) /\ Len(c.tools) <= 1 /\ Bare(c)
    <2>1. k \in Calls /\ k \notin Started(f)
      BY DEF Startable
    <2>2. PICK t \in ToolType : /\ t.call = k /\ t.start = TRUE /\ t.args = "none"
                                 /\ c = Calling(Chunk, <<t>>)
      <3>1. Tool(k, TRUE, "none") \in ToolType
        BY <2>1, Entry
      <3>2. c = Calling(Chunk, <<Tool(k, TRUE, "none")>>)
        BY <1>2 DEF Tools, Calling, Opening
      <3>3. QED
        BY <3>1, <3>2 DEF Tool
    <2>3. LET d == Calling(Chunk, <<t>>)
          IN  Shape(d, f) /\ HasContent(d) /\ d.finish = Chunk.finish /\ d.event_type = "content"
                /\ Len(d.tools) = 1 /\ Bare(d)
      BY <1>1, <2>1, <2>2, OneCall
    <2>4. QED
      <3>1. Shape(c, f) /\ HasContent(c) /\ ~c.finish /\ c.event_type = "content"
        BY <1>1, <2>2, <2>3
      <3>2. Len(c.tools) = 1 /\ Bare(c)
        BY <2>2, <2>3
      <3>3. QED
        BY <3>1, <3>2 DEF Content
  <1>3. ASSUME NEW k \in Growable(f, C), NEW p \in {"part", "last"}, c = Piece(k, p)
        PROVE  Content(c, f) /\ Len(c.tools) <= 1 /\ Bare(c)
    <2>1. k \in Calls /\ k \in Started(f)
      BY DEF Growable
    <2>2. PICK t \in ToolType : t.call = k /\ t.start = FALSE /\ c = Calling(Chunk, <<t>>)
      <3>1. p \in {"none", "part", "last"}
        OBVIOUS
      <3>2. Tool(k, FALSE, p) \in ToolType /\ Tool(k, FALSE, p).call = k /\ ~Tool(k, FALSE, p).start
        BY <2>1, <3>1, Entry
      <3>3. c = Calling(Chunk, <<Tool(k, FALSE, p)>>)
        BY <1>3 DEF Tools, Calling, Piece
      <3>4. Tool(k, FALSE, p).start = FALSE
        BY <3>2 DEF Tool
      <3>5. QED
        BY <3>2, <3>3, <3>4
    <2>3. LET d == Calling(Chunk, <<t>>)
          IN  Shape(d, f) /\ HasContent(d) /\ d.finish = Chunk.finish /\ d.event_type = "content"
                /\ Len(d.tools) = 1 /\ Bare(d)
      BY <1>1, <2>1, <2>2, OneCall
    <2>4. QED
      <3>1. Shape(c, f) /\ HasContent(c) /\ ~c.finish /\ c.event_type = "content"
        BY <1>1, <2>2, <2>3
      <3>2. Len(c.tools) = 1 /\ Bare(c)
        BY <2>2, <2>3
      <3>3. QED
        BY <3>1, <3>2 DEF Content
  <1>4. CASE c \in Pieces(f, C)
    <2>1. \/ \E k \in Startable(f, C) : c = Opening(k)
          \/ \E k \in Growable(f, C), p \in {"part", "last"} : c = Piece(k, p)
      BY <1>4 DEF Pieces
    <2>2. QED
      BY <1>2, <1>3, <2>1
  <1>5. CASE c \in PiecesOfLatest(f, C)
    <2>1. \/ \E k \in Startable(f, C) : c = Opening(k)
          \/ \E k \in Growable(f, C) \cap Latest(f), p \in {"part", "last"} :
               c = Piece(k, p)
      BY <1>5 DEF PiecesOfLatest
    <2>2. QED
      BY <1>2, <1>3, <2>1
  <1>6. QED
    BY <1>4, <1>5

\* Whole calls, one or two.
LEMMA GeminiCallsShape ==
  ASSUME NEW f, NEW u \in GeminiCalls(f), NEW c \in ChunkType, c.finish => c.usage # {}, ~c.whole,
         c.event_type = "content"
  PROVE  LET d == Calling(c, u)
         IN  Shape(d, f) /\ HasContent(d) /\ d.finish = c.finish /\ d.event_type = "content"
             /\ d.usage = c.usage /\ AllStart(d)
  <1> DEFINE whole == {WholeCall(k) : k \in Startable(f, Functions)}
  <1>1. (\E t \in whole : u = <<t>>) \/ u \in {p \in whole \X whole : p[1] # p[2]}
    BY DEF GeminiCalls
  <1>2. CASE \E t \in whole : u = <<t>>
    <2>1. PICK k \in Startable(f, Functions) : u = <<WholeCall(k)>>
      BY <1>2
    <2>2. k \in Calls /\ k \notin Started(f)
      BY DEF Startable, Calls
    <2>3. PICK t \in ToolType : t.call = k /\ t.start /\ u = <<t>>
      BY <2>1, <2>2, Entry
    <2>4. LET d == Calling(c, <<t>>)
          IN  Shape(d, f) /\ HasContent(d) /\ d.finish = c.finish /\ d.event_type = "content"
             /\ d.usage = c.usage /\ (t.start => AllStart(d))
      BY <2>2, <2>3, OneCall
    <2>5. QED
      BY <2>3, <2>4
  <1>3. CASE u \in {p \in whole \X whole : p[1] # p[2]}
    <2>1. PICK t \in whole, v \in whole : u = <<t, v>> /\ t # v
      <3>1. u \in whole \X whole /\ u[1] # u[2]
        BY <1>3
      <3> HIDE DEF whole
      <3>2. u[1] \in whole /\ u[2] \in whole /\ u = <<u[1], u[2]>>
        BY <3>1
      <3>3. QED
        BY <3>1, <3>2
    <2>2. PICK k \in Startable(f, Functions) : t = WholeCall(k)
      OBVIOUS
    <2>3. PICK l \in Startable(f, Functions) : v = WholeCall(l)
      OBVIOUS
    <2>4. k \in Calls \ Started(f) /\ l \in Calls \ Started(f) /\ k # l
      BY <2>1, <2>2, <2>3 DEF Startable, Calls
    <2>5. u = <<WholeCall(k), WholeCall(l)>>
      BY <2>1, <2>2, <2>3
    <2> HIDE DEF whole
    <2>6. LET d == Calling(c, <<WholeCall(k), WholeCall(l)>>)
          IN  Shape(d, f) /\ HasContent(d) /\ d.finish = c.finish /\ d.event_type = "content"
             /\ d.usage = c.usage /\ AllStart(d)
      BY <2>4, TwoCalls
    <2>7. QED
      BY <2>5, <2>6
  <1>4. QED
    BY <1>1, <1>2, <1>3

\* Content of Gemini.
LEMMA GeminiContentShape == ASSUME NEW f, NEW c \in GeminiContent(f) PROVE Content(c, f) /\ AllStart(c)
  <1>1. CASE c \in {Reasoning, Text, [Text EXCEPT !.reasoning = TRUE]}
    <2>1. Content(c, f) /\ c.tools = <<>>
      BY <1>1, PlainContent, PlainChunks
    <2>2. QED
      BY <2>1 DEF AllStart
  <1>2. CASE c = Using(Text, AllTokens)
    <2>1. c \in ChunkType /\ c.text /\ ~c.finish /\ c.event_type = "content" /\ c.tools = <<>> /\ ~c.whole
      BY <1>2, PlainChunks, UsingChunk
    <2>2. HasContent(c)
      BY <2>1 DEF HasContent
    <2>3. QED
      BY <2>1, <2>2, CallFree DEF Content, AllStart
  <1>3. CASE \E u \in GeminiCalls(f) : c = Tools(u) \/ c = [Text EXCEPT !.tools = u]
    <2>1. PICK u \in GeminiCalls(f) : c = Calling(Chunk, u) \/ c = Calling(Text, u)
      BY <1>3 DEF Tools, Calling
    <2>2. PICK d \in {Chunk, Text} : c = Calling(d, u)
      BY <2>1
    <2>3. d \in ChunkType /\ ~d.finish /\ ~d.whole /\ d.event_type = "content"
      BY PlainChunks
    <2>4. QED
      BY <2>2, <2>3, GeminiCallsShape DEF Content
  <1>4. QED
    BY <1>1, <1>2, <1>3 DEF GeminiContent

\* A chunk of content that also finishes.
LEMMA FinishContent ==
  ASSUME NEW f, NEW c, Content(c, f), AllStart(c)
  PROVE  LET d == Using(Finish(c), AllTokens) IN Ending(d, f) /\ d.finish /\ AllStart(d)
  <1>1. c \in ChunkType
    BY DEF Content, Shape
  <1> DEFINE e == Finish(c)
             d == Using(e, AllTokens)
  <1>2. /\ e \in ChunkType /\ e.finish /\ e.tools = c.tools /\ e.text = c.text
        /\ e.reasoning = c.reasoning /\ e.whole = c.whole /\ e.event_type = c.event_type
    BY <1>1, FinishChunk
  <1> HIDE DEF e
  <1>3. /\ d \in ChunkType /\ d.finish /\ d.usage = AllTokens /\ d.tools = c.tools /\ d.text = c.text
        /\ d.reasoning = c.reasoning /\ d.whole = c.whole /\ d.event_type = c.event_type
    BY <1>2, UsingChunk
  <1> HIDE DEF d
  <1>4. Ending(d, f) /\ d.finish /\ AllStart(d)
    BY <1>3 DEF Content, Shape, Ending, HasContent, AllTokens, AllStart
  <1>5. QED
    BY <1>4 DEF d, e

\* Only Gemini has several calls in a chunk, and has them whole.
FewCalls(x, c) == IF x = "gemini" THEN AllStart(c) ELSE Len(c.tools) <= 1 /\ Bare(c)

\* Chunks without calls have few.
LEMMA NoEntries == ASSUME NEW x, NEW c, c.tools = <<>> PROVE FewCalls(x, c)
  BY DEF FewCalls, AllStart, Bare

\* What the families send.
LEMMA ContentShape ==
  ASSUME NEW x \in Families, NEW f, NEW c \in ContentChunks(x, f)
  PROVE  /\ Content(c, f) \/ (c = Role /\ x = "volcengine" /\ Role \notin ToSet(f))
         /\ FewCalls(x, c)
  <1>a. Functions \in SUBSET Calls /\ Calls \in SUBSET Calls
    BY DEF Calls
  <1>c. \A d \in {Reasoning, Text, Role} : FewCalls(x, d)
    BY PlainChunks, NoEntries
  <1> USE DEF FewCalls
  <1>1. CASE x = "openai"
    BY <1>1, <1>a, <1>c, PlainContent, PiecesContent DEF ContentChunks, OpenAIContent
  <1>2. CASE x = "gemini"
    BY <1>2, GeminiContentShape DEF ContentChunks
  <1>3. CASE x = "azure"
    BY <1>3, <1>a, <1>c, PlainContent, PiecesContent DEF ContentChunks, AzureContent
  <1>4. CASE x = "volcengine"
    BY <1>4, <1>a, <1>c, PlainContent, PiecesContent DEF ContentChunks, VolcengineContent
  <1>5. CASE x = "compat"
    BY <1>5, <1>a, <1>c, PlainContent, PiecesContent DEF ContentChunks, CompatContent
  <1>6. CASE x = "vod"
    BY <1>6, <1>a, <1>c, PlainContent, PiecesContent DEF ContentChunks, VodContent
  <1>7. CASE x = "anthropic"
    BY <1>7, <1>a, <1>c, PlainContent, PiecesContent DEF ContentChunks, AnthropicContent
  <1>8. QED
    BY <1>1, <1>2, <1>3, <1>4, <1>5, <1>6, <1>7 DEF Families

\* A first chunk carries nothing but the role and perhaps the tokens of the input.
LEMMA FirstShape ==
  ASSUME NEW x \in Families, NEW f, NEW c \in FirstChunks(x)
  PROVE  Shape(c, f) /\ ~HasContent(c) /\ ~c.finish /\ c.event_type = "content" /\ c.role
         /\ x # "volcengine"
  <1>1. CASE x = "anthropic"
    <2>1. PICK r \in SUBSET AllTokens : c = [Role EXCEPT !.first = TRUE, !.usage = r]
      BY <1>1 DEF FirstChunks, AllTokens
    <2>2. c \in ChunkType /\ c.first /\ c.role /\ ~c.text /\ ~c.reasoning /\ c.tools = <<>> /\ ~c.finish
          /\ ~c.whole /\ c.event_type = "content"
      BY <2>1, PlainChunks DEF ChunkType, Role, Chunk
    <2>3. QED
      BY <1>1, <2>2, CallFree DEF HasContent
  <1>2. CASE x # "anthropic"
    <2>1. c = Role /\ x # "volcengine"
      BY <1>2 DEF FirstChunks
    <2>2. QED
      BY <2>1, PlainContent, PlainChunks
  <1>3. QED
    BY <1>1, <1>2

\* The chunk behind the finish carries usage and nothing else.
LEMMA UsageShape ==
  ASSUME NEW x \in Families, NEW f, NEW c \in UsageChunks(x)
  PROVE  Shape(c, f) /\ ~HasContent(c) /\ ~c.finish /\ c.event_type = "usage" /\ c.usage = AllTokens
         /\ Ending(c, f)
  <1>1. c = UsageEvent(Using(Chunk, AllTokens))
    BY DEF UsageChunks
  <1>2. /\ c \in ChunkType /\ c.tools = <<>> /\ ~c.finish /\ c.event_type = "usage" /\ ~c.text
        /\ ~c.reasoning /\ ~c.whole /\ c.usage = AllTokens
    <2>1. ~Chunk.text /\ ~Chunk.reasoning
      BY DEF Chunk
    <2>2. QED
      BY <1>1, <2>1, PlainChunks, UsingChunk, UsageEventChunk
  <1>3. ~HasContent(c)
    BY <1>2 DEF HasContent
  <1>4. Shape(c, f)
    BY <1>2, <1>3, CallFree
  <1>5. QED
    BY <1>2, <1>3, <1>4 DEF Ending, AllTokens

\* The ways to end without calls.
LEMMA PlainEnding ==
  ASSUME NEW f, NEW c \in ChunkType, c.tools = <<>>, c.finish \/ (c.event_type = "usage" /\ c.usage # {}),
         c.event_type = "usage" => ~c.text /\ ~c.reasoning, c.whole => c.finish /\ ~c.reasoning
  PROVE  Ending(c, f)
  BY CallFree DEF HasContent, Ending

\* The text of a finish chunk that has all of it.
LEMMA WholeTextShape ==
  ASSUME NEW f
  PROVE  /\ WholeText(f) \in ChunkType /\ WholeText(f).finish /\ WholeText(f).tools = <<>>
         /\ ~WholeText(f).reasoning /\ WholeText(f).event_type = "content"
  <1>1. PICK d \in {Text, Chunk} : WholeText(f) = [Finish(d) EXCEPT !.whole = TRUE]
    BY DEF WholeText
  <1>2. d \in ChunkType /\ d.tools = <<>> /\ ~d.reasoning /\ d.event_type = "content"
    BY PlainChunks DEF Chunk, Text
  <1> DEFINE e == Finish(d)
  <1>3. e \in ChunkType /\ e.finish /\ e.tools = <<>> /\ ~e.reasoning /\ e.event_type = "content"
    BY <1>2, FinishChunk
  <1> HIDE DEF e
  <1>4. WholeText(f) = [e EXCEPT !.whole = TRUE]
    BY <1>1 DEF e
  <1>5. QED
    BY <1>3, <1>4 DEF ChunkType

\* Each family ends in a chunk with the finish or with the usage.
LEMMA LastShape ==
  ASSUME NEW x \in Families, NEW f, NEW c \in LastChunks(x, f)
  PROVE  Ending(c, f) /\ FewCalls(x, c)
  <1>a. AllTokens \in SUBSET AllTokens /\ {"output"} \in SUBSET AllTokens /\ AllTokens # {}
    BY DEF AllTokens
  <1>b. /\ Finish(Chunk) \in ChunkType /\ Finish(Chunk).finish /\ Finish(Chunk).tools = <<>>
        /\ ~Finish(Chunk).text /\ ~Finish(Chunk).reasoning /\ ~Finish(Chunk).whole
        /\ Finish(Chunk).event_type = "content"
        /\ Finish(Text) \in ChunkType /\ Finish(Text).finish /\ Finish(Text).tools = <<>>
        /\ ~Finish(Text).reasoning /\ ~Finish(Text).whole /\ Finish(Text).event_type = "content"
    <2>1. ~Chunk.text /\ ~Chunk.reasoning
      BY DEF Chunk
    <2>2. QED
      BY <2>1, FinishChunk, PlainChunks
  <1>1. CASE x = "openai"
    <2>1. PICK d \in {Finish(Chunk), Finish(Text)} : c = d \/ c = Using(d, AllTokens)
      BY <1>1 DEF LastChunks, OpenAIFinish
    <2>2. d \in ChunkType /\ d.finish /\ d.tools = <<>> /\ ~d.reasoning /\ ~d.whole /\ d.event_type = "content"
      BY <1>b
    <2>3. c \in ChunkType /\ c.finish /\ c.tools = <<>> /\ ~c.reasoning /\ ~c.whole /\ c.event_type = "content"
      BY <1>a, <2>1, <2>2, UsingChunk
    <2>4. QED
      BY <2>3, PlainEnding, NoEntries
  <1>2. CASE x = "gemini"
    <2>1. CASE \E d \in GeminiContent(f) : c = Using(Finish(d), AllTokens)
      <3>1. PICK d \in GeminiContent(f) : c = Using(Finish(d), AllTokens)
        BY <2>1
      <3>2. Content(d, f) /\ AllStart(d)
        BY GeminiContentShape
      <3>3. QED
        BY <1>2, <3>1, <3>2, FinishContent DEF FewCalls
    <2>2. CASE c = UsageEvent(Finish(Chunk))
      <3>1. c \in ChunkType /\ c.finish /\ c.tools = <<>> /\ ~c.reasoning /\ ~c.whole /\ ~c.text
        BY <1>b, <2>2, UsageEventChunk
      <3>2. QED
        BY <3>1, PlainEnding, NoEntries
    <2>3. CASE c = UsageEvent(Using(Finish(Chunk), AllTokens))
      <3>1. c \in ChunkType /\ c.finish /\ c.tools = <<>> /\ ~c.reasoning /\ ~c.whole /\ ~c.text
        BY <1>a, <1>b, <2>3, UsingChunk, UsageEventChunk
      <3>2. QED
        BY <3>1, PlainEnding, NoEntries
    <2>4. QED
      BY <1>2, <2>1, <2>2, <2>3 DEF LastChunks, GeminiFinish
  <1>3. CASE x \in {"azure", "volcengine"}
    <2>1. PICK d \in ChunkType : /\ d = Using(WholeText(f), AllTokens)
                                 /\ c = d \/ c = [d EXCEPT !.verbatim = TRUE]
      BY <1>a, <1>3, WholeTextShape, UsingChunk DEF LastChunks, AzureFinish, VolcengineFinish
    <2>2. d.finish /\ d.tools = <<>> /\ ~d.reasoning /\ d.event_type = "content"
      BY <1>a, <2>1, WholeTextShape, UsingChunk
    <2>3. c \in ChunkType /\ c.finish /\ c.tools = <<>> /\ ~c.reasoning /\ c.event_type = "content"
      BY <2>1, <2>2 DEF ChunkType
    <2>4. QED
      BY <2>3, PlainEnding, NoEntries
  <1>4. CASE x \in {"compat", "anthropic"}
    <2>1. PICK r \in SUBSET AllTokens : c = UsageEvent(Using(Finish(Chunk), r))
      BY <1>a, <1>4 DEF LastChunks, CompatFinish, AnthropicFinish
    <2>2. c \in ChunkType /\ c.finish /\ c.tools = <<>> /\ ~c.reasoning /\ ~c.whole /\ ~c.text
      BY <1>b, <2>1, UsingChunk, UsageEventChunk
    <2>3. QED
      BY <2>2, PlainEnding, NoEntries
  <1>5. CASE x = "vod"
    <2>1. c = UsageEvent(Using(Chunk, AllTokens))
      BY <1>5 DEF LastChunks, VodFinish
    <2>2. ~Chunk.text /\ ~Chunk.reasoning
      BY DEF Chunk
    <2>3. /\ c \in ChunkType /\ c.tools = <<>> /\ c.event_type = "usage" /\ ~c.text /\ ~c.reasoning
          /\ ~c.whole /\ c.usage = AllTokens
      BY <1>a, <2>1, <2>2, PlainChunks, UsingChunk, UsageEventChunk
    <2>4. QED
      BY <1>a, <2>3, PlainEnding, NoEntries
  <1>6. QED
    BY <1>1, <1>2, <1>3, <1>4, <1>5 DEF Families

\* A chunk that comes next is one of four.
LEMMA UpcomingShape ==
  ASSUME family \in Families, NEW c \in Upcoming
  PROVE  /\ Shape(c, fed) /\ FewCalls(family, c)
         /\ \/ fed = <<>> /\ c \in FirstChunks(family) /\ ~c.finish /\ ~HasContent(c) /\ c.event_type = "content"
            \/ /\ ~Over /\ Cardinality(ContentFed) < MaxContent[family]
               /\ c \in ContentChunks(family, fed) /\ ~c.finish /\ c.event_type = "content"
               /\ fed = <<>> => FirstChunks(family) = {}
               /\ Content(c, fed) \/ (c = Role /\ family = "volcengine" /\ Role \notin ToSet(fed))
            \/ ~Over /\ Ending(c, fed) /\ (fed = <<>> => FirstChunks(family) = {})
            \/ Over /\ Last(fed).finish /\ Ending(c, fed) /\ ~c.finish /\ ~HasContent(c) /\ c.usage = AllTokens
               /\ c.event_type = "usage"
  <1>1. CASE fed = <<>> /\ FirstChunks(family) # {}
    <2>1. c \in FirstChunks(family)
      BY <1>1 DEF Upcoming, Over
    <2>2. QED
      BY <1>1, <2>1, FirstShape, NoEntries DEF HasContent
  <1>2. CASE ~(fed = <<>> /\ FirstChunks(family) # {}) /\ Over
    <2>1. Last(fed).finish /\ c \in UsageChunks(family)
      BY <1>2 DEF Upcoming
    <2>2. QED
      BY <1>2, <2>1, UsageShape, NoEntries DEF HasContent
  <1>3. CASE ~(fed = <<>> /\ FirstChunks(family) # {}) /\ ~Over
    <2>1. \/ c \in LastChunks(family, fed)
          \/ Cardinality(ContentFed) < MaxContent[family] /\ c \in ContentChunks(family, fed)
      BY <1>3 DEF Upcoming
    <2>2. CASE c \in LastChunks(family, fed)
      BY <1>3, <2>2, LastShape DEF Ending
    <2>3. CASE Cardinality(ContentFed) < MaxContent[family] /\ c \in ContentChunks(family, fed)
      <3>1. /\ Content(c, fed) \/ (c = Role /\ family = "volcengine" /\ Role \notin ToSet(fed))
            /\ FewCalls(family, c)
        BY <2>3, ContentShape
      <3>2. Shape(c, fed) /\ ~c.finish /\ c.event_type = "content"
        BY <3>1, PlainContent, PlainChunks DEF Content
      <3>3. QED
        BY <1>3, <2>3, <3>1, <3>2
    <2>4. QED
      BY <2>1, <2>2, <2>3
  <1>4. QED
    BY <1>1, <1>2, <1>3

-----------------------------------------------------------------------------
(* The Messages API: what a chunk adds to the stream.                      *)

EventType ==
  [type : {"message_start", "block_start", "delta", "block_stop", "message_delta", "message_stop", "error"},
   kind : {"thinking", "text", "block", "message"} \cup Calls, index : Nat, size : {0, 1},
   usage : SUBSET AllTokens, output : {<<>>}]
PendingType == [chunk : ChunkType, index : Nat]
MessagesType ==
  [started : BOOLEAN, usage : SUBSET AllTokens, pending : Seq(PendingType), thinking : BOOLEAN,
   text : BOOLEAN, open : BOOLEAN, index : Nat, sent : Seq(EventType)]

\* The index a chunk's events get, and the stream behind each event it may add:
\* the stop and the start of a block, reasoning, text, the start of a call and a
\* piece of its arguments.
Index(a, c) == IF NewBlock(a, c) # "none" /\ a.open THEN a.index + 1 ELSE a.index
Stopped(a, c) ==
  IF NewBlock(a, c) # "none" /\ a.open THEN Append(a.sent, BlockStop(a.index)) ELSE a.sent
Begun(a, c) ==
  IF NewBlock(a, c) \in {"thinking", "text"}
  THEN Append(Stopped(a, c), Event("block_start", NewBlock(a, c), Index(a, c), 0)) ELSE Stopped(a, c)
Thought(s, c, n) == IF c.reasoning THEN Append(s, Event("delta", "thinking", n, 1)) ELSE s
Said(s, c, n) ==
  IF c.text /\ ~(c.whole /\ c.finish) THEN Append(s, Event("delta", "text", n, 1)) ELSE s
Called(s, c, n) ==
  IF c.tools # <<>> /\ c.tools[1].start
  THEN Append(s, Event("block_start", c.tools[1].call, n, 0)) ELSE s
Argued(s, c, n) ==
  IF c.tools # <<>> /\ c.tools[1].args # "none"
  THEN Append(s, Event("delta", c.tools[1].call, n, 1)) ELSE s
Added(s, c, n) == Argued(Called(Said(Thought(s, c, n), c, n), c, n), c, n)

\* The events are events.
LEMMA EventTypes ==
  /\ \A n \in Nat : BlockStop(n) \in EventType
  /\ \A u \in SUBSET AllTokens :
       /\ MessageDelta(u) \in EventType
       /\ Telling(Event("message_start", "message", 0, 0), u) \in EventType
  /\ Event("message_stop", "message", 0, 0) \in EventType
  /\ Event("error", "message", 0, 0) \in EventType
  /\ \A k \in {"thinking", "text"} \cup Calls, n \in Nat :
       Event("block_start", k, n, 0) \in EventType /\ Event("delta", k, n, 1) \in EventType
  <1>1. {} \in SUBSET AllTokens
    OBVIOUS
  <1>2. QED
    BY <1>1 DEF EventType, BlockStop, MessageDelta, Telling, Event

\* A call is named by the first entry.
LEMMA FirstEntry ==
  ASSUME NEW c \in ChunkType, c.tools # <<>>
  PROVE  /\ 1 \in DOMAIN c.tools /\ Len(c.tools) \in Nat /\ Len(c.tools) >= 1
         /\ c.tools[1] \in ToolType /\ c.tools[1].call \in Calls
         /\ c.tools[1].start \in BOOLEAN /\ c.tools[1].args \in {"none", "part", "last"}
  <1>1. c.tools \in Seq(ToolType)
    BY DEF ChunkType
  <1>2. 1 \in DOMAIN c.tools /\ c.tools[1] \in ToolType /\ Len(c.tools) \in Nat /\ Len(c.tools) >= 1
    BY <1>1
  <1>3. QED
    BY <1>2 DEF ToolType

\* The new block of a chunk.
LEMMA NewBlockType ==
  ASSUME NEW a \in MessagesType, NEW c \in ChunkType
  PROVE  /\ NewBlock(a, c) \in {"none", "thinking", "text", "tool_use"}
         /\ NewBlock(a, c) = "thinking" <=> c.reasoning /\ ~a.thinking
         /\ NewBlock(a, c) = "text" <=> ~(c.reasoning /\ ~a.thinking) /\ c.text /\ ~a.text
         /\ NewBlock(a, c) = "tool_use" <=> /\ ~(c.reasoning /\ ~a.thinking) /\ ~(c.text /\ ~a.text)
                                            /\ c.tools # <<>> /\ ~c.finish /\ c.tools[1].start
  BY DEF NewBlock

\* The streams are streams.
LEMMA AddedTypes ==
  ASSUME NEW s \in Seq(EventType), NEW c \in ChunkType, NEW n \in Nat
  PROVE  /\ Thought(s, c, n) \in Seq(EventType) /\ Said(s, c, n) \in Seq(EventType)
         /\ Called(s, c, n) \in Seq(EventType) /\ Argued(s, c, n) \in Seq(EventType)
  <1>1. Thought(s, c, n) \in Seq(EventType)
    BY EventTypes, AppendFacts DEF Thought
  <1>2. Said(s, c, n) \in Seq(EventType)
    BY EventTypes, AppendFacts DEF Said
  <1>3. Called(s, c, n) \in Seq(EventType)
    BY EventTypes, AppendFacts, FirstEntry DEF Called
  <1>4. Argued(s, c, n) \in Seq(EventType)
    BY EventTypes, AppendFacts, FirstEntry DEF Argued
  <1>5. QED
    BY <1>1, <1>2, <1>3, <1>4
\* So are those of a block that begins.
LEMMA BegunTypes ==
  ASSUME NEW a \in MessagesType, NEW c \in ChunkType
  PROVE  /\ Index(a, c) \in Nat
         /\ Stopped(a, c) \in Seq(EventType) /\ Begun(a, c) \in Seq(EventType)
  <1>1. Index(a, c) \in Nat /\ a.index \in Nat /\ a.sent \in Seq(EventType)
    BY DEF Index, MessagesType
  <1>2. Stopped(a, c) \in Seq(EventType)
    BY <1>1, EventTypes, AppendFacts DEF Stopped
  <1>3. Begun(a, c) \in Seq(EventType)
    BY <1>1, <1>2, EventTypes, AppendFacts DEF Begun
  <1>4. QED
    BY <1>1, <1>2, <1>3

\* What opening a block makes of the adapter.
LEMMA OpenBlockEffect ==
  ASSUME NEW a \in MessagesType, NEW c \in ChunkType
  PROVE  LET b == OpenBlock(a, NewBlock(a, c))
         IN  /\ b \in MessagesType
             /\ b.started = a.started /\ b.usage = a.usage /\ b.pending = a.pending
             /\ b.open = (a.open \/ NewBlock(a, c) # "none") /\ b.index = Index(a, c)
             /\ b.thinking = (a.thinking \/ NewBlock(a, c) = "thinking")
             /\ b.text = (a.text \/ NewBlock(a, c) = "text")
             /\ b.sent = Begun(a, c)
  <1> DEFINE type == NewBlock(a, c)
             stopped == EmitBlocks([a EXCEPT !.index = @ + 1], <<BlockStop(a.index)>>)
             x == IF a.open THEN stopped ELSE a
             y == [x EXCEPT !.open = TRUE, !.thinking = @ \/ type = "thinking", !.text = @ \/ type = "text"]
             z == EmitBlocks(y, <<Event("block_start", type, y.index, 0)>>)
             b == OpenBlock(a, type)
  <1>1. b = IF type = "none" THEN a ELSE IF type = "tool_use" THEN y ELSE z
    BY DEF OpenBlock
  <1> HIDE DEF b
  <1>2. type \in {"none", "thinking", "text", "tool_use"}
    BY NewBlockType
  <1> HIDE DEF type
  <1>3. a.index \in Nat /\ a.sent \in Seq(EventType) /\ a.index + 1 \in Nat
    BY DEF MessagesType
  <1>4. /\ x \in MessagesType /\ x.started = a.started /\ x.usage = a.usage /\ x.pending = a.pending
        /\ x.thinking = a.thinking /\ x.text = a.text
        /\ x.index = (IF a.open THEN a.index + 1 ELSE a.index)
        /\ x.sent = (IF a.open THEN Append(a.sent, BlockStop(a.index)) ELSE a.sent)
    <2>1. CASE a.open
      <3>1. BlockStop(a.index) \in EventType
        BY <1>3, EventTypes
      <3> DEFINE s == a.sent \o <<BlockStop(a.index)>>
      <3>2. s = Append(a.sent, BlockStop(a.index)) /\ s \in Seq(EventType)
        BY <1>3, <3>1, AppendFacts
      <3>3. stopped = [[a EXCEPT !.index = a.index + 1] EXCEPT !.sent = s]
        BY DEF EmitBlocks, MessagesType
      <3> HIDE DEF s
      <3>4. x = [[a EXCEPT !.index = a.index + 1] EXCEPT !.sent = s]
        BY <2>1, <3>3
      <3> HIDE DEF x
      <3>5. QED
        BY <1>3, <2>1, <3>2, <3>4 DEF MessagesType
    <2>2. CASE ~a.open
      BY <2>2
    <2>3. QED
      BY <2>1, <2>2
  <1> HIDE DEF x
  <1>5. /\ y \in MessagesType /\ y.started = a.started /\ y.usage = a.usage /\ y.pending = a.pending
        /\ y.thinking = (a.thinking \/ type = "thinking") /\ y.text = (a.text \/ type = "text")
        /\ y.index = x.index /\ y.sent = x.sent /\ y.open
    BY <1>4 DEF MessagesType
  <1> HIDE DEF y
  <1>6. CASE type = "none"
    <2>1. b = a /\ Begun(a, c) = a.sent /\ Index(a, c) = a.index
      BY <1>1, <1>6 DEF type, Begun, Stopped, Index
    <2>2. QED
      BY <1>6, <2>1 DEF b, type, MessagesType
  <1>7. CASE type # "none"
    <2>1. Index(a, c) = x.index /\ Stopped(a, c) = x.sent
      BY <1>4, <1>7 DEF type, Stopped, Index
    <2>2. CASE type = "tool_use"
      <3>1. b = y /\ Begun(a, c) = x.sent
        BY <1>1, <2>1, <2>2 DEF type, Begun
      <3>2. QED
        BY <1>5, <2>1, <2>2, <3>1 DEF b, type, MessagesType
    <2>3. CASE type \in {"thinking", "text"}
      <3> DEFINE e == Event("block_start", type, y.index, 0)
      <3>1. y.index \in Nat /\ y.sent \in Seq(EventType)
        BY <1>5 DEF MessagesType
      <3>2. e \in EventType
        BY <2>3, <3>1, EventTypes
      <3>3. y.sent \o <<e>> = Append(y.sent, e) /\ Append(y.sent, e) \in Seq(EventType)
        BY <3>1, <3>2, AppendFacts
      <3>4. b = [y EXCEPT !.sent = y.sent \o <<e>>]
        BY <1>1, <2>3 DEF EmitBlocks
      <3>5. Begun(a, c) = Append(y.sent, e)
        BY <1>5, <2>1, <2>3 DEF type, Begun
      <3> HIDE DEF e
      <3>6. /\ b \in MessagesType /\ b.started = y.started /\ b.usage = y.usage /\ b.pending = y.pending
            /\ b.open = y.open /\ b.index = y.index /\ b.thinking = y.thinking /\ b.text = y.text
            /\ b.sent = Append(y.sent, e)
        BY <1>5, <3>3, <3>4 DEF MessagesType
      <3>7. QED
        BY <1>5, <1>7, <2>1, <3>5, <3>6 DEF b, type
    <2>4. QED
      BY <1>2, <1>7, <2>2, <2>3
  <1>8. QED
    BY <1>6, <1>7

\* Sequences of events are put together in any order.
LEMMA EventsConcat ==
  ASSUME NEW s \in Seq(EventType), NEW t \in Seq(EventType), NEW u \in Seq(EventType)
  PROVE  (s \o t) \o u = s \o (t \o u) /\ s \o t \in Seq(EventType) /\ t \o u \in Seq(EventType)
  <1>1. (s \o t) \o u = s \o (t \o u)
    BY ConcatAssociative
  <1>2. QED
    BY <1>1, ConcatProperties

\* The events of a chunk's content, one after the other.
LEMMA ContentSent ==
  ASSUME NEW s \in Seq(EventType), NEW c \in ChunkType, NEW n \in Nat
  PROVE  /\ ContentEvents(c, n) \in Seq(EventType)
         /\ s \o ContentEvents(c, n) = Added(s, c, n) /\ Added(s, c, n) \in Seq(EventType)
  <1> DEFINE S == Seq(EventType)
             u1 == EventIf(c.reasoning, Event("delta", "thinking", n, 1))
             u2 == EventIf(c.text /\ ~(c.whole /\ c.finish), Event("delta", "text", n, 1))
             v1 == EventIf(c.tools[1].start, Event("block_start", c.tools[1].call, n, 0))
             v2 == EventIf(c.tools[1].args # "none", Event("delta", c.tools[1].call, n, 1))
             u3 == IF c.tools = <<>> THEN <<>> ELSE v1 \o v2
             s1 == Thought(s, c, n)
             s2 == Said(s1, c, n)
             s3 == Called(s2, c, n)
             s4 == Argued(s3, c, n)
  <1>1. ContentEvents(c, n) = (u1 \o u2) \o u3 /\ Added(s, c, n) = s4
    BY DEF ContentEvents, ToolEvents, Added
  <1>a. <<>> \in S
    BY EmptySeq
  <1>2. s1 \in S
    BY AddedTypes
  <1>3. u1 \in S /\ s \o u1 = s1
    <2>1. Event("delta", "thinking", n, 1) \in EventType
      BY EventTypes
    <2>2. CASE c.reasoning
      BY <2>1, <2>2, AppendFacts DEF EventIf, Thought
    <2>3. CASE ~c.reasoning
      BY <1>a, <2>3, ConcatEmptySeq DEF EventIf, Thought
    <2>4. QED
      BY <2>2, <2>3
  <1> HIDE DEF s1, u1
  <1>4. s2 \in S
    BY <1>2, AddedTypes
  <1>5. u2 \in S /\ s1 \o u2 = s2
    <2>1. Event("delta", "text", n, 1) \in EventType
      BY EventTypes
    <2>2. CASE c.text /\ ~(c.whole /\ c.finish)
      BY <1>2, <2>1, <2>2, AppendFacts DEF EventIf, Said
    <2>3. CASE ~(c.text /\ ~(c.whole /\ c.finish))
      BY <1>a, <1>2, <2>3, ConcatEmptySeq DEF EventIf, Said
    <2>4. QED
      BY <2>2, <2>3
  <1> HIDE DEF s2, u2
  <1>6. s3 \in S
    BY <1>4, AddedTypes
  <1>7. s4 \in S
    BY <1>6, AddedTypes
  <1>8. u3 \in S /\ s2 \o u3 = s4
    <2>1. CASE c.tools = <<>>
      BY <1>a, <1>4, <2>1, ConcatEmptySeq DEF Called, Argued
    <2>2. CASE c.tools # <<>>
      <3>1. /\ Event("block_start", c.tools[1].call, n, 0) \in EventType
            /\ Event("delta", c.tools[1].call, n, 1) \in EventType
        BY <2>2, FirstEntry, EventTypes
      <3>2. v1 \in S /\ s2 \o v1 = s3
        <4>1. CASE c.tools[1].start
          BY <1>4, <2>2, <3>1, <4>1, AppendFacts DEF EventIf, Called
        <4>2. CASE ~c.tools[1].start
          BY <1>a, <1>4, <2>2, <4>2, ConcatEmptySeq DEF EventIf, Called
        <4>3. QED
          BY <4>1, <4>2
      <3>3. v2 \in S /\ s3 \o v2 = s4
        <4> HIDE DEF s3
        <4>1. CASE c.tools[1].args # "none"
          BY <1>6, <2>2, <3>1, <4>1, AppendFacts DEF EventIf, Argued
        <4>2. CASE c.tools[1].args = "none"
          BY <1>a, <1>6, <2>2, <4>2, ConcatEmptySeq DEF EventIf, Argued
        <4>3. QED
          BY <4>1, <4>2
      <3>4. u3 = v1 \o v2
        BY <2>2
      <3> HIDE DEF v1, v2, s3, s4, u3
      <3>5. (s2 \o v1) \o v2 = s2 \o (v1 \o v2) /\ v1 \o v2 \in S
        <4>1. s2 \in Seq(EventType) /\ v1 \in Seq(EventType) /\ v2 \in Seq(EventType)
          BY <1>4, <3>2, <3>3
        <4>2. QED
          BY <4>1, EventsConcat
      <3>6. QED
        BY <3>2, <3>3, <3>4, <3>5
    <2>3. QED
      BY <2>1, <2>2
  <1> HIDE DEF u3, s4
  <1>9. u1 \o u2 \in S /\ (u1 \o u2) \o u3 \in S
    BY <1>3, <1>5, <1>8, EventsConcat
  <1>10. s \o ((u1 \o u2) \o u3) = (s \o (u1 \o u2)) \o u3 /\ s \o (u1 \o u2) = (s \o u1) \o u2
    <2>1. s \o (u1 \o u2) = (s \o u1) \o u2
      BY <1>3, <1>5, EventsConcat
    <2>2. s \o ((u1 \o u2) \o u3) = (s \o (u1 \o u2)) \o u3
      BY <1>8, <1>9, EventsConcat
    <2>3. QED
      BY <2>1, <2>2
  <1>11. QED
    BY <1>1, <1>3, <1>5, <1>7, <1>8, <1>9, <1>10

\* What a chunk with content makes of the adapter.
LEMMA InlineEffect ==
  ASSUME NEW a \in MessagesType, NEW c \in ChunkType, c.event_type = "content", c.finish => ~c.whole
  PROVE  LET b == Inline(a, c)
         IN  /\ b \in MessagesType
             /\ b.started = a.started /\ b.usage = a.usage /\ b.pending = a.pending
             /\ b.open = (a.open \/ NewBlock(a, c) # "none") /\ b.index = Index(a, c)
             /\ b.thinking = (a.thinking \/ NewBlock(a, c) = "thinking")
             /\ b.text = (a.text \/ NewBlock(a, c) = "text")
             /\ b.sent = Added(Begun(a, c), c, Index(a, c))
  <1> DEFINE d == OpenBlock(a, NewBlock(a, c))
             x == [c EXCEPT !.finish = FALSE]
             n == Index(a, c)
             e == AnthropicEvents(x, d.index, FALSE)
             b == Inline(a, c)
  <1>1. /\ d \in MessagesType
        /\ d.started = a.started /\ d.usage = a.usage /\ d.pending = a.pending
        /\ d.open = (a.open \/ NewBlock(a, c) # "none") /\ d.index = n
        /\ d.thinking = (a.thinking \/ NewBlock(a, c) = "thinking")
        /\ d.text = (a.text \/ NewBlock(a, c) = "text")
        /\ d.sent = Begun(a, c)
    BY OpenBlockEffect
  <1>2. b = [d EXCEPT !.sent = d.sent \o e]
    BY DEF Inline, EmitBlocks
  <1> HIDE DEF d, b
  <1>3. /\ x \in ChunkType /\ ~x.finish /\ x.event_type = "content" /\ x.tools = c.tools
        /\ x.text = c.text /\ x.reasoning = c.reasoning /\ x.whole = c.whole
    BY DEF ChunkType
  <1> HIDE DEF x
  <1>a. n \in Nat /\ Begun(a, c) \in Seq(EventType)
    BY BegunTypes
  <1> HIDE DEF n
  <1>4. ContentEvents(x, n) \in Seq(EventType)
    BY <1>3, <1>a, ContentSent
  <1>5. e = ContentEvents(x, n)
    <2>1. e = (ContentEvents(x, n) \o <<>>) \o <<>>
      BY <1>1, <1>3 DEF AnthropicEvents, EventIf
    <2>2. QED
      BY <1>4, <2>1, ConcatEmptySeq
  <1> HIDE DEF e
  <1> DEFINE s == Added(Begun(a, c), x, n)
  <1>6. d.sent \o e = s /\ s \in Seq(EventType)
    BY <1>1, <1>3, <1>a, <1>5, ContentSent
  <1>7. s = Added(Begun(a, c), c, n)
    <2>1. \A y : /\ Thought(y, x, n) = Thought(y, c, n) /\ Said(y, x, n) = Said(y, c, n)
                 /\ Called(y, x, n) = Called(y, c, n) /\ Argued(y, x, n) = Argued(y, c, n)
      BY <1>3 DEF Thought, Said, Called, Argued, ChunkType
    <2>2. QED
      BY <2>1 DEF Added
  <1> HIDE DEF s
  <1>8. /\ b \in MessagesType /\ b.started = d.started /\ b.usage = d.usage /\ b.pending = d.pending
        /\ b.open = d.open /\ b.index = d.index /\ b.thinking = d.thinking /\ b.text = d.text
        /\ b.sent = s
    BY <1>1, <1>2, <1>6 DEF MessagesType
  <1>9. QED
    BY <1>1, <1>7, <1>8 DEF b, n

-----------------------------------------------------------------------------
(* The chunks so far.                                                      *)

ContentChunk == {c \in ChunkType : HasContent(c) /\ ~c.finish}
EndChunk == {c \in ChunkType : c.finish \/ c.event_type = "usage"}
QuietChunk == {c \in ChunkType : ~HasContent(c) /\ ~c.finish /\ c.event_type = "content"}

\* No call starts in two of the chunks.
StartOnce(f) ==
  \A i, j \in DOMAIN f : i < j =>
    \A m \in DOMAIN f[i].tools, n \in DOMAIN f[j].tools :
      f[i].tools[m].start /\ f[j].tools[n].start => f[i].tools[m].call # f[j].tools[n].call

\* A chunk of which no call was started before keeps that.
LEMMA StartOnceAppend ==
  ASSUME NEW f \in Seq(ChunkType), NEW c, Shape(c, f), StartOnce(f)
  PROVE  StartOnce(Append(f, c))
  <1> DEFINE g == Append(f, c)
             l == Len(f) + 1
  <1>1. /\ Len(f) \in Nat /\ \A i \in 1..Len(f) : g[i] = f[i]
        /\ g[l] = c /\ DOMAIN f = 1..Len(f) /\ DOMAIN g = 1..l
    BY AppendFacts DEF Shape
  <1> HIDE DEF g
  <1>2. SUFFICES ASSUME NEW i \in DOMAIN g, NEW j \in DOMAIN g, i < j,
                        NEW m \in DOMAIN g[i].tools, NEW n \in DOMAIN g[j].tools,
                        g[i].tools[m].start, g[j].tools[n].start
                 PROVE  g[i].tools[m].call # g[j].tools[n].call
    BY DEF StartOnce, g
  <1>3. i \in DOMAIN f /\ g[i] = f[i]
    BY <1>1, <1>2
  <1>4. CASE j = l
    <2>1. g[i].tools[m].call \in Started(f)
      <3>1. f[i] \in ToSet(f) /\ f[i].tools[m] \in ToSet(f[i].tools)
        BY <1>2, <1>3 DEF ToSet
      <3>2. f[i].tools[m] \in Entries(f)
        BY <3>1 DEF Entries
      <3>3. QED
        BY <1>2, <1>3, <3>2 DEF Started
    <2>2. c.tools[n].call \notin Started(f) /\ g[j] = c
      BY <1>1, <1>2, <1>4 DEF Shape
    <2>3. QED
      BY <2>1, <2>2
  <1>5. CASE j # l
    <2>1. j \in DOMAIN f /\ g[j] = f[j]
      BY <1>1, <1>5
    <2>2. QED
      BY <1>2, <1>3, <2>1 DEF StartOnce
  <1>6. QED
    BY <1>4, <1>5

\* Content up to the bound, a chunk for the role, and at the end one or two chunks.
\* Calls start once, and go on once started.
FedInv ==
  /\ family \in Families /\ fed \in Seq(ChunkType)
  /\ \A i \in DOMAIN fed :
       /\ fed[i].event_type = "usage" => ~HasContent(fed[i])
       /\ fed[i].whole => fed[i].finish /\ ~fed[i].reasoning /\ fed[i].tools = <<>>
       /\ FewCalls(family, fed[i])
       /\ fed[i].finish => AllStart(fed[i])
  /\ StartOnce(fed)
  /\ Len(fed) = Count(fed, ContentChunk) + Count(fed, EndChunk) + Count(fed, QuietChunk)
  /\ Count(fed, ContentChunk) <= MaxContent[family]
  /\ Count(fed, QuietChunk) <= 1
  /\ family = "volcengine" => \A i \in At(fed, QuietChunk) : fed[i] = Role
  /\ Count(fed, EndChunk) <= 2
  /\ ~Over => Count(fed, EndChunk) = 0
  /\ Over /\ Last(fed).finish => Count(fed, EndChunk) = 1

\* A sequence and one element more.
LEMMA LastAppend ==
  ASSUME NEW S, NEW s \in Seq(S), NEW e \in S
  PROVE  Last(Append(s, e)) = e /\ Append(s, e) # <<>>
  BY AppendFacts, AppendProperties DEF Last

\* The places of the chunks with content.
LEMMA ContentPlaces ==
  ASSUME fed \in Seq(ChunkType)
  PROVE  ContentFed = At(fed, ContentChunk) /\ Cardinality(ContentFed) = Count(fed, ContentChunk)
  <1>1. \A i \in DOMAIN fed : fed[i] \in ChunkType
    BY ElementOfSeq, LenProperties
  <1>2. ContentFed = At(fed, ContentChunk)
    BY <1>1 DEF ContentFed, FedWith, At, ContentChunk
  <1>3. QED
    BY <1>2 DEF Count

\* Every chunk that may come next keeps the invariant of the chunks.
LEMMA FedStep ==
  ASSUME FedInv, NEW c \in Upcoming, fed' = Append(fed, c), family' = family
  PROVE  FedInv'
  <1> USE MaxContentAssumption
  <1>1. fed \in Seq(ChunkType) /\ family \in Families /\ MaxContent[family] \in Nat
    BY DEF FedInv
  <1>2. PICK f : f = Append(fed, c)
    OBVIOUS
  <1>3. Shape(c, fed) /\ FewCalls(family, c) /\ c \in ChunkType
    BY <1>1, UpcomingShape DEF Shape
  <1>4. /\ f \in Seq(ChunkType) /\ Len(f) = Len(fed) + 1 /\ Len(fed) \in Nat
        /\ DOMAIN fed = 1..Len(fed) /\ DOMAIN f = 1..(Len(fed) + 1)
        /\ \A i \in 1..Len(fed) : f[i] = fed[i]
        /\ f[Len(fed) + 1] = c /\ Last(f) = c /\ f # <<>>
    BY <1>1, <1>2, <1>3, AppendFacts, LastAppend
  <1>5. \A T : /\ At(f, T) = At(fed, T) \cup (IF c \in T THEN {Len(fed) + 1} ELSE {})
               /\ Count(f, T) = Count(fed, T) + (IF c \in T THEN 1 ELSE 0) /\ Count(fed, T) \in Nat
    BY <1>1, <1>2, <1>3, CountAppend
  <1>6. \A i \in DOMAIN f :
          /\ f[i].event_type = "usage" => ~HasContent(f[i])
          /\ f[i].whole => f[i].finish /\ ~f[i].reasoning /\ f[i].tools = <<>>
          /\ FewCalls(family, f[i])
          /\ f[i].finish => AllStart(f[i])
    <2>1. TAKE i \in DOMAIN f
    <2>2. CASE i \in 1..Len(fed)
      BY <1>4, <2>2 DEF FedInv
    <2>3. CASE i = Len(fed) + 1
      BY <1>3, <1>4, <2>3 DEF Shape, AllStart
    <2>4. QED
      BY <1>4, <2>2, <2>3
  <1>7. c \in ContentChunk \/ c \in EndChunk \/ c \in QuietChunk
    BY <1>3 DEF ContentChunk, EndChunk, QuietChunk, ChunkType
  <1>8. /\ c \in ContentChunk => c \notin EndChunk /\ c \notin QuietChunk
        /\ c \in EndChunk => c \notin QuietChunk
    BY <1>3 DEF ContentChunk, EndChunk, QuietChunk, Shape
  <1>9. Len(f) = Count(f, ContentChunk) + Count(f, EndChunk) + Count(f, QuietChunk)
    BY <1>4, <1>5, <1>7, <1>8 DEF FedInv
  <1>10. /\ c \in ContentChunk => Count(fed, ContentChunk) < MaxContent[family]
         /\ c \in QuietChunk => /\ Count(fed, QuietChunk) = 0
                                /\ family = "volcengine" => c = Role
         /\ c \in EndChunk => ~Over \/ (Last(fed).finish /\ ~c.finish)
         /\ c \notin EndChunk => fed = <<>> \/ ~Over
    <2>0. Count(<<>>, QuietChunk) = 0
      BY CountEmpty
    <2>1. Cardinality(ContentFed) = Count(fed, ContentChunk)
      BY <1>1, ContentPlaces
    <2>2. CASE fed = <<>> /\ c \in FirstChunks(family) /\ ~c.finish /\ ~HasContent(c) /\ c.event_type = "content"
      <3>1. family # "volcengine"
        BY <1>1, <2>2, FirstShape
      <3>2. QED
        BY <2>0, <2>2, <3>1 DEF ContentChunk, EndChunk
    <2>3. CASE /\ ~Over /\ Cardinality(ContentFed) < MaxContent[family]
               /\ ~c.finish /\ c.event_type = "content"
               /\ Content(c, fed) \/ (c = Role /\ family = "volcengine" /\ Role \notin ToSet(fed))
      <3>1. CASE Content(c, fed)
        BY <2>1, <2>3, <3>1 DEF Content, QuietChunk, EndChunk
      <3>2. CASE c = Role /\ family = "volcengine" /\ Role \notin ToSet(fed)
        <4>1. At(fed, QuietChunk) = {}
          <5>1. \A i \in At(fed, QuietChunk) : fed[i] = Role /\ i \in DOMAIN fed
            BY <3>2 DEF FedInv, At
          <5>2. QED
            BY <3>2, <5>1 DEF ToSet
        <4>2. Count(fed, QuietChunk) = 0
          BY <1>1, <4>1, CountZero
        <4>3. c \notin ContentChunk /\ c \notin EndChunk
          BY <2>3, <3>2, PlainChunks DEF ContentChunk, EndChunk
        <4>4. QED
          BY <2>3, <3>2, <4>2, <4>3
      <3>3. QED
        BY <2>3, <3>1, <3>2
    <2>4. CASE ~Over /\ Ending(c, fed)
      BY <2>4 DEF Ending, ContentChunk, QuietChunk, EndChunk, Shape
    <2>5. CASE Over /\ Last(fed).finish /\ Ending(c, fed) /\ ~c.finish /\ ~HasContent(c)
               /\ c.event_type = "usage"
      BY <1>3, <2>5 DEF ContentChunk, QuietChunk, EndChunk
    <2>6. QED
      BY <1>1, <2>2, <2>3, <2>4, <2>5, UpcomingShape
  <1>11. Over' = (c.finish \/ c.event_type = "usage")
    BY <1>2, <1>4 DEF Over
  <1>12. /\ Count(f, ContentChunk) <= MaxContent[family] /\ Count(f, QuietChunk) <= 1
         /\ family = "volcengine" => \A i \in At(f, QuietChunk) : f[i] = Role
    <2>1. Count(f, ContentChunk) <= MaxContent[family] /\ Count(f, QuietChunk) <= 1
      BY <1>1, <1>5, <1>10 DEF FedInv
    <2>2. ASSUME family = "volcengine", NEW i \in At(f, QuietChunk) PROVE f[i] = Role
      <3>1. i \in At(fed, QuietChunk) \/ (c \in QuietChunk /\ i = Len(fed) + 1)
        BY <1>5
      <3>2. QED
        BY <1>4, <1>10, <2>2, <3>1 DEF FedInv, At
    <2>3. QED
      BY <2>1, <2>2
  <1>13. /\ Count(f, EndChunk) <= 2
         /\ c \notin EndChunk => Count(f, EndChunk) = 0
         /\ c.finish => Count(f, EndChunk) = 1
    <2>1. c \in EndChunk <=> c.finish \/ c.event_type = "usage"
      BY <1>3 DEF EndChunk
    <2>2. ~Over => Count(fed, EndChunk) = 0
      BY DEF FedInv
    <2>a. Count(f, EndChunk) = Count(fed, EndChunk) + (IF c \in EndChunk THEN 1 ELSE 0)
      BY <1>5
    <2>3. CASE c \notin EndChunk
      <3>1. ~Over
        BY <1>10, <2>3 DEF Over
      <3>2. QED
        BY <2>a, <2>1, <2>2, <2>3, <3>1
    <2>4. CASE c \in EndChunk /\ ~Over
      BY <2>a, <2>2, <2>4
    <2>5. CASE c \in EndChunk /\ Over
      <3>1. Last(fed).finish /\ ~c.finish
        BY <1>10, <2>5
      <3>2. Count(fed, EndChunk) = 1
        BY <2>5, <3>1 DEF FedInv
      <3>3. QED
        BY <2>a, <2>5, <3>1, <3>2
    <2>6. QED
      BY <2>3, <2>4, <2>5
  <1>a. c \in EndChunk <=> Over'
    BY <1>3, <1>11 DEF EndChunk
  <1>b. Last(f) = c
    BY <1>4
  <1>c. StartOnce(f)
    BY <1>1, <1>2, <1>3, StartOnceAppend DEF FedInv
  <1>14. QED
    BY <1>1, <1>2, <1>4, <1>6, <1>9, <1>12, <1>13, <1>a, <1>b, <1>c DEF FedInv

-----------------------------------------------------------------------------
(* The Messages API: what a turn of the loop makes of the adapter.         *)

\* The adapter with its start sent and the usage taken over.
StartEvent(c) == Telling(Event("message_start", "message", 0, 0), IF c.first THEN c.usage ELSE {})
Ready(a, c) ==
  [a EXCEPT !.started = TRUE, !.usage = IF c.usage = {} THEN @ ELSE c.usage,
            !.sent = IF a.started THEN @ ELSE Append(@, StartEvent(c))]

\* Content goes out at once, and what is left of a finish waits.
Inlines(c) == IF c.finish THEN ~c.whole /\ (c.text \/ c.reasoning) ELSE c.event_type # "usage"
After(a, c) == IF Inlines(c) THEN Inline(Ready(a, c), c) ELSE Ready(a, c)
Rest(c) == [c EXCEPT !.text = FALSE, !.reasoning = FALSE]
Held(a, c) == [chunk |-> Rest(c), index |-> IF Inlines(c) THEN After(a, c).index ELSE 0]

\* What the first lines of the loop make of the adapter.
LEMMA ReadyEffect ==
  ASSUME NEW a \in MessagesType, NEW c \in ChunkType
  PROVE  LET d == Ready(a, c)
         IN  /\ d \in MessagesType /\ d.started /\ d.pending = a.pending /\ d.thinking = a.thinking
             /\ d.text = a.text /\ d.open = a.open /\ d.index = a.index
             /\ d.usage = (IF c.usage = {} THEN a.usage ELSE c.usage)
             /\ d.sent = (IF a.started THEN a.sent ELSE Append(a.sent, StartEvent(c)))
             /\ StartEvent(c) \in EventType /\ StartEvent(c).type = "message_start"
             /\ StartEvent(c).kind = "message"
  <1>1. StartEvent(c) \in EventType /\ StartEvent(c).type = "message_start" /\ StartEvent(c).kind = "message"
    <2>1. (IF c.first THEN c.usage ELSE {}) \in SUBSET AllTokens
      BY DEF ChunkType
    <2>2. QED
      BY <2>1 DEF StartEvent, EventType, Telling, Event
  <1>2. a.sent \in Seq(EventType)
    BY DEF MessagesType
  <1>3. Append(a.sent, StartEvent(c)) \in Seq(EventType)
    BY <1>1, <1>2, AppendFacts
  <1> DEFINE s == IF a.started THEN a.sent ELSE Append(a.sent, StartEvent(c))
             u == IF c.usage = {} THEN a.usage ELSE c.usage
  <1>4. s \in Seq(EventType) /\ u \in SUBSET AllTokens
    BY <1>2, <1>3 DEF MessagesType, ChunkType
  <1>5. Ready(a, c) = [a EXCEPT !.started = TRUE, !.usage = u, !.sent = s]
    BY DEF Ready
  <1> HIDE DEF s, u
  <1>6. /\ Ready(a, c) \in MessagesType /\ Ready(a, c).started /\ Ready(a, c).pending = a.pending
        /\ Ready(a, c).thinking = a.thinking /\ Ready(a, c).text = a.text /\ Ready(a, c).open = a.open
        /\ Ready(a, c).index = a.index /\ Ready(a, c).usage = u /\ Ready(a, c).sent = s
    BY <1>4, <1>5 DEF MessagesType
  <1>7. QED
    BY <1>1, <1>6 DEF s, u

\* What waits of a finish chunk has no text and no reasoning any more.
LEMMA RestType ==
  ASSUME NEW c \in ChunkType
  PROVE  /\ Rest(c) \in ChunkType /\ ~Rest(c).text /\ ~Rest(c).reasoning /\ Rest(c).tools = c.tools
         /\ Rest(c).finish = c.finish /\ Rest(c).usage = c.usage /\ Rest(c).event_type = c.event_type
         /\ Rest(c).whole = c.whole
  BY DEF Rest, ChunkType

\* What comes after the content of a chunk.
LEMMA AfterEffect ==
  ASSUME NEW a \in MessagesType, NEW f, NEW c, Shape(c, f)
  PROVE  LET d == Ready(a, c)
             e == After(a, c)
         IN  /\ e \in MessagesType /\ e.started /\ e.usage = d.usage /\ e.pending = a.pending
             /\ Inlines(c) => /\ c.event_type = "content" /\ (c.finish => ~c.whole)
                              /\ (e.open <=> a.open \/ NewBlock(d, c) # "none") /\ e.index = Index(d, c)
                              /\ (e.thinking <=> a.thinking \/ NewBlock(d, c) = "thinking")
                              /\ (e.text <=> a.text \/ NewBlock(d, c) = "text")
                              /\ e.sent = Added(Begun(d, c), c, Index(d, c))
             /\ ~Inlines(c) => e = d
  <1>1. c \in ChunkType
    BY DEF Shape
  <1>2. CASE Inlines(c)
    <2>1. c.event_type = "content" /\ (c.finish => ~c.whole)
      BY <1>1, <1>2 DEF Inlines, Shape, HasContent, ChunkType
    <2> DEFINE d == Ready(a, c)
    <2>2. d \in MessagesType /\ d.started /\ d.pending = a.pending /\ d.open = a.open
          /\ d.thinking = a.thinking /\ d.text = a.text
      BY <1>1, ReadyEffect
    <2>3. After(a, c) = Inline(d, c)
      BY <1>2 DEF After
    <2> HIDE DEF d
    <2>4. LET b == Inline(d, c)
          IN  /\ b \in MessagesType
             /\ b.started = d.started /\ b.usage = d.usage /\ b.pending = d.pending
             /\ b.open = (d.open \/ NewBlock(d, c) # "none") /\ b.index = Index(d, c)
             /\ b.thinking = (d.thinking \/ NewBlock(d, c) = "thinking")
             /\ b.text = (d.text \/ NewBlock(d, c) = "text")
             /\ b.sent = Added(Begun(d, c), c, Index(d, c))
      <3>1. d \in MessagesType
        BY <2>2
      <3>2. c.event_type = "content" /\ (c.finish => ~c.whole)
        BY <2>1
      <3>3. QED
        BY <1>1, <3>1, <3>2, InlineEffect
    <2>5. QED
      BY <1>2, <2>1, <2>2, <2>3, <2>4 DEF d
  <1>3. CASE ~Inlines(c)
    <2>1. After(a, c) = Ready(a, c)
      BY <1>3 DEF After
    <2>2. QED
      BY <1>1, <1>3, <2>1, ReadyEffect
  <1>4. QED
    BY <1>2, <1>3

\* What a turn of the loop of generate() makes of the adapter.
LEMMA FeedEffect ==
  ASSUME NEW a \in MessagesType, NEW f, NEW c, Shape(c, f)
  PROVE  LET b == MessagesFeed(a, c)
             e == After(a, c)
         IN  /\ b \in MessagesType /\ b.started /\ b.usage = e.usage /\ b.open = e.open
             /\ b.index = e.index /\ b.thinking = e.thinking /\ b.text = e.text /\ b.sent = e.sent
             /\ b.pending = (IF c.finish THEN <<Held(a, c)>> ELSE a.pending)
  <1> DEFINE b == MessagesFeed(a, c)
             d == Ready(a, c)
             e == After(a, c)
             h == Held(a, c)
  <1>1. c \in ChunkType
    BY DEF Shape
  <1>2. d \in MessagesType
    BY <1>1, ReadyEffect
  <1>3. e \in MessagesType /\ e.started /\ e.pending = a.pending
    BY AfterEffect
  <1>4. h \in PendingType
    <2>1. Rest(c) \in ChunkType
      BY <1>1, RestType
    <2>2. e.index \in Nat
      BY <1>3 DEF MessagesType
    <2>3. QED
      BY <2>1, <2>2 DEF Held, PendingType
  <1>5. b = IF c.finish THEN HoldFinish(d, c) ELSE IF c.event_type = "usage" THEN d ELSE Inline(d, c)
    <2> DEFINE start == StartEvent(c)
               x == IF a.started THEN a ELSE EmitBlocks([a EXCEPT !.started = TRUE], <<start>>)
               y == IF c.usage = {} THEN x ELSE [x EXCEPT !.usage = c.usage]
    <2>1. b = IF c.finish THEN HoldFinish(y, c) ELSE IF c.event_type = "usage" THEN y ELSE Inline(y, c)
      BY DEF MessagesFeed, StartEvent
    <2> HIDE DEF b
    <2>2. start \in EventType /\ a.sent \in Seq(EventType)
      BY <1>1, ReadyEffect DEF MessagesType
    <2> HIDE DEF start
    <2>3. a.sent \o <<start>> = Append(a.sent, start)
      BY <2>2, AppendFacts
    <2>4. x = [a EXCEPT !.started = TRUE, !.sent = IF a.started THEN a.sent ELSE Append(a.sent, start)]
      <3>1. CASE a.started
        BY <3>1 DEF MessagesType
      <3>2. CASE ~a.started
        <4>1. x = [[a EXCEPT !.started = TRUE] EXCEPT !.sent = a.sent \o <<start>>]
          BY <3>2 DEF EmitBlocks, MessagesType
        <4>2. QED
          BY <2>3, <3>2, <4>1 DEF MessagesType
      <3>3. QED
        BY <3>1, <3>2
    <2> HIDE DEF x
    <2>5. y = d
      <3>1. d = [a EXCEPT !.started = TRUE, !.usage = IF c.usage = {} THEN a.usage ELSE c.usage,
                          !.sent = IF a.started THEN a.sent ELSE Append(a.sent, start)]
        BY DEF Ready, start
      <3> HIDE DEF d
      <3>2. CASE c.usage = {}
        BY <2>4, <3>1, <3>2 DEF MessagesType
      <3>3. CASE c.usage # {}
        BY <2>4, <3>1, <3>3 DEF MessagesType
      <3>4. QED
        BY <3>2, <3>3
    <2>6. QED
      BY <2>1, <2>5
  <1>6. b = IF c.finish THEN [e EXCEPT !.pending = <<h>>] ELSE e
    <2>1. CASE c.finish
      <3>1. HoldFinish(d, c) = [e EXCEPT !.pending = <<h>>]
        BY <2>1 DEF HoldFinish, Held, After, Rest, Inlines
      <3>2. QED
        BY <1>5, <2>1, <3>1
    <2>2. CASE ~c.finish
      BY <1>5, <2>2 DEF After, Inlines
    <2>3. QED
      BY <2>1, <2>2
  <1> HIDE DEF b, d, e, h
  <1>7. /\ b \in MessagesType /\ b.started /\ b.usage = e.usage /\ b.open = e.open
        /\ b.index = e.index /\ b.thinking = e.thinking /\ b.text = e.text /\ b.sent = e.sent
        /\ b.pending = (IF c.finish THEN <<h>> ELSE a.pending)
    <2>1. CASE c.finish
      <3>1. <<h>> \in Seq(PendingType)
        BY <1>4
      <3>2. QED
        BY <1>3, <1>6, <2>1, <3>1 DEF MessagesType
    <2>2. CASE ~c.finish
      BY <1>3, <1>6, <2>2
    <2>3. QED
      BY <2>1, <2>2
  <1>8. QED
    BY <1>7 DEF b, e, h

\* The chunk with the price adds nothing.
LEMMA PriceMessages ==
  ASSUME NEW a \in MessagesType, a.started, a.usage # {}
  PROVE  MessagesFeed(a, Using(Chunk, a.usage)) = a
  <1> DEFINE c == Using(Chunk, a.usage)
  <1>1. a.usage \in SUBSET AllTokens /\ a.sent \in Seq(EventType) /\ a.index \in Nat
    BY DEF MessagesType
  <1>2. ~Chunk.text /\ ~Chunk.reasoning
    BY DEF Chunk
  <1>3. /\ c \in ChunkType /\ ~c.finish /\ c.event_type = "content" /\ c.tools = <<>> /\ ~c.text
        /\ ~c.reasoning /\ ~c.whole /\ c.usage = a.usage
    BY <1>1, <1>2, PlainChunks, UsingChunk
  <1> DEFINE x == [a EXCEPT !.usage = c.usage]
  <1>4. x = a
    BY <1>3 DEF MessagesType
  <1>5. MessagesFeed(a, c) = Inline(a, c)
    <2>1. MessagesFeed(a, c) = Inline(x, c)
      BY <1>3 DEF MessagesFeed
    <2>2. QED
      BY <1>4, <2>1
  <1> HIDE DEF c
  <1>6. NewBlock(a, c) = "none"
    BY <1>3 DEF NewBlock
  <1>7. OpenBlock(a, NewBlock(a, c)) = a
    BY <1>6 DEF OpenBlock
  <1>8. AnthropicEvents([c EXCEPT !.finish = FALSE], a.index, FALSE) = <<>>
    <2> DEFINE y == [c EXCEPT !.finish = FALSE]
    <2>1. /\ ~y.finish /\ y.event_type = "content" /\ y.tools = <<>> /\ ~y.text /\ ~y.reasoning
      BY <1>3 DEF ChunkType
    <2> HIDE DEF y
    <2>2. <<>> \o <<>> = <<>>
      BY EmptySeq, ConcatEmptySeq
    <2>3. ContentEvents(y, a.index) = <<>>
      BY <2>1, <2>2 DEF ContentEvents, EventIf
    <2>4. AnthropicEvents(y, a.index, FALSE) = (ContentEvents(y, a.index) \o <<>>) \o <<>>
      BY <2>1 DEF AnthropicEvents, EventIf
    <2>5. QED
      BY <2>2, <2>3, <2>4 DEF y
  <1>9. Inline(a, c) = [a EXCEPT !.sent = a.sent \o <<>>]
    BY <1>7, <1>8 DEF Inline, EmitBlocks
  <1>10. a.sent \o <<>> = a.sent
    BY <1>1, ConcatEmptySeq
  <1>11. Inline(a, c) = a
    BY <1>9, <1>10 DEF MessagesType
  <1>12. QED
    BY <1>5, <1>11 DEF c

-----------------------------------------------------------------------------
(* The Messages API: the invariant of the adapter.                         *)

OfType(type) == {e \in EventType : e.type = type}
Deltas(kind) == {e \in EventType : e.type = "delta" /\ e.kind = kind}
Reasoned == {c \in ChunkType : c.reasoning}
Worded == {c \in ChunkType : c.text /\ ~c.whole}
Filled == {c \in ChunkType : HasContent(c)}

\* The message starts once, and what follows belongs to blocks.
Framed(s) ==
  /\ Len(s) >= 1 /\ s[1].type = "message_start"
  /\ \A i \in 2..Len(s) : s[i].type \in {"block_start", "delta", "block_stop"}

\* What waits for the end is what is left of a finish.
Waiting(a, f) ==
  a.pending # <<>> =>
    /\ \E i \in DOMAIN f : f[i].finish /\ a.pending[1].chunk = Rest(f[i])
    /\ a.pending[1].chunk.usage # {} => a.usage # {}

\* Each piece has its delta.
Counted(s, f) ==
  /\ Count(s, Deltas("thinking")) = Count(f, Reasoned)
  /\ Count(s, Deltas("text")) = Count(f, Worded)

\* Blocks from 0 on: n starts and m stops, in turns.
Earlier(s, T, i) == Cardinality({j \in At(s, T) : j < i})
Paired(s, n, m) ==
  /\ Count(s, OfType("block_start")) = n /\ Count(s, OfType("block_stop")) = m
  /\ \A i \in At(s, OfType("block_start")) :
       Earlier(s, OfType("block_start"), i) = s[i].index /\ Earlier(s, OfType("block_stop"), i) = s[i].index
  /\ \A i \in At(s, OfType("block_stop")) :
       Earlier(s, OfType("block_start"), i) = s[i].index + 1 /\ Earlier(s, OfType("block_stop"), i) = s[i].index
Blocks(a, f) ==
  (\A i \in DOMAIN f : ~Mixed(f[i])) => Paired(a.sent, IF a.open THEN a.index + 1 ELSE 0, a.index)

\* A block of that kind and index is open behind s; each delta was sent in one.
Current(s, k, n) ==
  \E i \in DOMAIN s : /\ s[i].type = "block_start" /\ s[i].kind = k /\ s[i].index = n
                      /\ \A j \in i..Len(s) : s[j].type # "block_stop"
InBlocks(s) ==
  \A i \in At(s, OfType("delta")) :
    \E n \in DOMAIN s : /\ s[n].type = "block_start" /\ s[n].kind = s[i].kind /\ s[n].index = s[i].index
                        /\ n < i /\ \A j \in n..i : s[j].type # "block_stop"

\* Reasoning, text and calls one after the other, and the calls, too.
Single(c) == ~(c.reasoning /\ c.text) /\ (c.tools # <<>> => ~c.reasoning /\ ~c.text)
Sequenced(f) ==
  /\ \A i \in DOMAIN f : Single(f[i])
  /\ \A i, j \in DOMAIN f : i < j => \A k \in KindsIn(f[i]), l \in KindsIn(f[j]) : k <= l
  /\ \A i, j, k \in DOMAIN f : i < j /\ j <= k =>
       \A t \in ToSet(f[i].tools), u \in ToSet(f[j].tools), v \in ToSet(f[k].tools) :
         v.call = t.call => u.call = t.call

KindOf(c) == IF c.reasoning THEN "thinking" ELSE IF c.text THEN "text" ELSE c.tools[1].call
Seen(a, f) ==
  /\ a.thinking => \E i \in DOMAIN f : f[i].reasoning
  /\ a.text => \E i \in DOMAIN f : f[i].text
Placed(a, f) ==
  Sequenced(f) =>
    /\ InBlocks(a.sent)
    /\ At(f, EndChunk) = {} =>
         /\ \A i \in At(f, ContentChunk) :
              (\A j \in At(f, ContentChunk) : j <= i) => Current(a.sent, KindOf(f[i]), a.index)
         /\ Seen(a, f)

MessagesLive(a, f, u) ==
  /\ a \in MessagesType
  /\ a.started <=> f # <<>>
  /\ a.usage = u
  /\ IF a.started THEN Framed(a.sent) ELSE a = MessagesStart
  /\ ~a.open => a.index = 0 /\ ~a.thinking /\ ~a.text
  /\ a.open => a.index < Count(f, Filled)
  /\ Waiting(a, f)
  /\ Counted(a.sent, f)
  /\ Blocks(a, f)
  /\ Placed(a, f)

-----------------------------------------------------------------------------
(* One event more.                                                         *)

\* What an event is made of.
LEMMA EventFields ==
  ASSUME NEW t, NEW k, NEW n, NEW z
  PROVE  Event(t, k, n, z).type = t /\ Event(t, k, n, z).kind = k /\ Event(t, k, n, z).index = n
         /\ Event(t, k, n, z).usage = {}
  BY DEF Event

\* Stops, the last report of usage and the start of the message.
LEMMA OtherFields ==
  ASSUME NEW n, NEW u
  PROVE  /\ BlockStop(n).type = "block_stop" /\ BlockStop(n).index = n /\ BlockStop(n).kind = "block"
         /\ MessageDelta(u).type = "message_delta" /\ MessageDelta(u).usage = u /\ MessageDelta(u).kind = "message"
  BY DEF BlockStop, MessageDelta, Telling, Event

\* An event of a block does not break the frame.
LEMMA FramedAppend ==
  ASSUME NEW s \in Seq(EventType), NEW e \in EventType, Framed(s),
         e.type \in {"block_start", "delta", "block_stop"}
  PROVE  Framed(Append(s, e))
  BY AppendFacts DEF Framed

\* What came before does not change, and all of s comes before what is added.
LEMMA EarlierAppend ==
  ASSUME NEW s \in Seq(EventType), NEW e \in EventType, NEW T
  PROVE  /\ \A i \in 1..Len(s) : Earlier(Append(s, e), T, i) = Earlier(s, T, i)
         /\ Earlier(Append(s, e), T, Len(s) + 1) = Count(s, T)
  <1>1. At(Append(s, e), T) = At(s, T) \cup (IF e \in T THEN {Len(s) + 1} ELSE {})
    BY CountAppend
  <1>2. At(s, T) \subseteq 1..Len(s) /\ Len(s) \in Nat
    BY CountZero, LenProperties
  <1>3. \A i \in 1..Len(s) : {j \in At(Append(s, e), T) : j < i} = {j \in At(s, T) : j < i}
    BY <1>1, <1>2
  <1>4. {j \in At(Append(s, e), T) : j < Len(s) + 1} = At(s, T)
    BY <1>1, <1>2
  <1>5. QED
    BY <1>3, <1>4 DEF Earlier, Count

\* An event keeps the blocks paired when it starts the next, stops the open one, or
\* does neither.
LEMMA PairedAppend ==
  ASSUME NEW s \in Seq(EventType), NEW n \in Nat, NEW m \in Nat, Paired(s, n, m), NEW e \in EventType
  PROVE  /\ e.type = "block_start" /\ e.index = n /\ m = n => Paired(Append(s, e), n + 1, m)
         /\ e.type = "block_stop" /\ e.index = m /\ n = m + 1 => Paired(Append(s, e), n, m + 1)
         /\ e.type \notin {"block_start", "block_stop"} => Paired(Append(s, e), n, m)
  <1> DEFINE B == OfType("block_start")
             P == OfType("block_stop")
             f == Append(s, e)
  <1>1. /\ Len(s) \in Nat /\ \A i \in 1..Len(s) : f[i] = s[i]
        /\ f[Len(s) + 1] = e
    BY AppendFacts
  <1>2. /\ At(f, B) = At(s, B) \cup (IF e \in B THEN {Len(s) + 1} ELSE {})
        /\ Count(f, B) = Count(s, B) + (IF e \in B THEN 1 ELSE 0)
    BY CountAppend
  <1>3. /\ At(f, P) = At(s, P) \cup (IF e \in P THEN {Len(s) + 1} ELSE {})
        /\ Count(f, P) = Count(s, P) + (IF e \in P THEN 1 ELSE 0)
    BY CountAppend
  <1>4. /\ \A i \in 1..Len(s) : Earlier(f, B, i) = Earlier(s, B, i)
        /\ Earlier(f, B, Len(s) + 1) = Count(s, B)
    BY EarlierAppend
  <1>5. /\ \A i \in 1..Len(s) : Earlier(f, P, i) = Earlier(s, P, i)
        /\ Earlier(f, P, Len(s) + 1) = Count(s, P)
    BY EarlierAppend
  <1>6. At(s, B) \subseteq 1..Len(s) /\ At(s, P) \subseteq 1..Len(s)
    BY CountZero
  <1>7. (e \in B <=> e.type = "block_start") /\ (e \in P <=> e.type = "block_stop")
    BY DEF OfType
  <1>8. /\ Count(s, B) = n /\ Count(s, P) = m
        /\ \A i \in At(s, B) : Earlier(s, B, i) = s[i].index /\ Earlier(s, P, i) = s[i].index
        /\ \A i \in At(s, P) : Earlier(s, B, i) = s[i].index + 1 /\ Earlier(s, P, i) = s[i].index
    BY DEF Paired
  <1> HIDE DEF B, P, f
  <1>9. /\ \A i \in At(s, B) : Earlier(f, B, i) = f[i].index /\ Earlier(f, P, i) = f[i].index
        /\ \A i \in At(s, P) : Earlier(f, B, i) = f[i].index + 1 /\ Earlier(f, P, i) = f[i].index
    BY <1>1, <1>4, <1>5, <1>6, <1>8
  <1>10. CASE e.type = "block_start" /\ e.index = n /\ m = n
    <2>1. /\ Count(f, B) = n + 1 /\ Count(f, P) = m
      BY <1>2, <1>3, <1>7, <1>8, <1>10
    <2>2. \A i \in At(f, B) : Earlier(f, B, i) = f[i].index /\ Earlier(f, P, i) = f[i].index
      BY <1>1, <1>2, <1>4, <1>5, <1>8, <1>9, <1>10
    <2>3. \A i \in At(f, P) : Earlier(f, B, i) = f[i].index + 1 /\ Earlier(f, P, i) = f[i].index
      BY <1>3, <1>7, <1>9, <1>10
    <2>4. QED
      BY <1>10, <2>1, <2>2, <2>3 DEF Paired, B, P, f
  <1>11. CASE e.type = "block_stop" /\ e.index = m /\ n = m + 1
    <2>1. /\ Count(f, B) = n /\ Count(f, P) = m + 1
      BY <1>2, <1>3, <1>7, <1>8, <1>11
    <2>2. \A i \in At(f, B) : Earlier(f, B, i) = f[i].index /\ Earlier(f, P, i) = f[i].index
      BY <1>2, <1>7, <1>9, <1>11
    <2>3. \A i \in At(f, P) : Earlier(f, B, i) = f[i].index + 1 /\ Earlier(f, P, i) = f[i].index
      BY <1>1, <1>3, <1>4, <1>5, <1>8, <1>9, <1>11
    <2>4. QED
      BY <1>11, <2>1, <2>2, <2>3 DEF Paired, B, P, f
  <1>12. CASE e.type \notin {"block_start", "block_stop"}
    <2>1. At(f, B) = At(s, B) /\ At(f, P) = At(s, P) /\ Count(f, B) = n /\ Count(f, P) = m
      BY <1>2, <1>3, <1>7, <1>8, <1>12
    <2>2. QED
      BY <1>9, <1>12, <2>1 DEF Paired, B, P, f
  <1>13. QED
    BY <1>10, <1>11, <1>12

\* A block stays open until it is stopped.
LEMMA CurrentAppend ==
  ASSUME NEW s \in Seq(EventType), NEW e \in EventType, e.type # "block_stop", NEW k, NEW n
  PROVE  /\ Current(s, k, n) => Current(Append(s, e), k, n)
         /\ e.type = "block_start" /\ e.kind = k /\ e.index = n => Current(Append(s, e), k, n)
  <1> DEFINE f == Append(s, e)
  <1>1. /\ Len(s) \in Nat /\ \A i \in 1..Len(s) : f[i] = s[i]
        /\ f[Len(s) + 1] = e /\ DOMAIN s = 1..Len(s) /\ DOMAIN f = 1..(Len(s) + 1) /\ Len(f) = Len(s) + 1
    BY AppendFacts
  <1> HIDE DEF f
  <1>2. ASSUME Current(s, k, n) PROVE Current(f, k, n)
    <2>1. PICK i \in DOMAIN s : /\ s[i].type = "block_start" /\ s[i].kind = k /\ s[i].index = n
                                /\ \A j \in i..Len(s) : s[j].type # "block_stop"
      BY <1>2 DEF Current
    <2>2. \A j \in i..Len(f) : f[j].type # "block_stop"
      BY <1>1, <2>1
    <2>3. QED
      BY <1>1, <2>1, <2>2 DEF Current
  <1>3. ASSUME e.type = "block_start", e.kind = k, e.index = n PROVE Current(f, k, n)
    <2>1. \A j \in (Len(s) + 1)..Len(f) : f[j].type # "block_stop"
      BY <1>1, <1>3
    <2>2. QED
      BY <1>1, <1>3, <2>1 DEF Current
  <1>4. QED
    BY <1>2, <1>3 DEF f

\* A delta for the open block, or an event that is no delta, keeps each delta in its
\* block.
LEMMA InBlocksAppend ==
  ASSUME NEW s \in Seq(EventType), InBlocks(s), NEW e \in EventType,
         e.type = "delta" => Current(s, e.kind, e.index)
  PROVE  InBlocks(Append(s, e))
  <1> DEFINE D == OfType("delta")
             f == Append(s, e)
  <1>1. /\ Len(s) \in Nat /\ \A i \in 1..Len(s) : f[i] = s[i]
        /\ f[Len(s) + 1] = e /\ DOMAIN s = 1..Len(s) /\ DOMAIN f = 1..(Len(s) + 1)
    BY AppendFacts
  <1>2. At(f, D) = At(s, D) \cup (IF e \in D THEN {Len(s) + 1} ELSE {}) /\ At(s, D) \subseteq 1..Len(s)
    BY CountAppend, CountZero
  <1>3. e \in D <=> e.type = "delta"
    BY DEF OfType
  <1> HIDE DEF f
  <1>4. ASSUME NEW i \in At(f, D)
        PROVE  \E n \in DOMAIN f : /\ f[n].type = "block_start" /\ f[n].kind = f[i].kind
                                   /\ f[n].index = f[i].index
                                   /\ n < i /\ \A j \in n..i : f[j].type # "block_stop"
    <2>1. CASE i \in At(s, D)
      <3>1. PICK n \in DOMAIN s : /\ s[n].type = "block_start" /\ s[n].kind = s[i].kind
                                  /\ s[n].index = s[i].index
                                  /\ n < i /\ \A j \in n..i : s[j].type # "block_stop"
        BY <2>1 DEF InBlocks
      <3>2. QED
        BY <1>1, <1>2, <2>1, <3>1
    <2>2. CASE i = Len(s) + 1 /\ e.type = "delta"
      <3>1. PICK n \in DOMAIN s : /\ s[n].type = "block_start" /\ s[n].kind = e.kind /\ s[n].index = e.index
                                  /\ \A j \in n..Len(s) : s[j].type # "block_stop"
        BY <2>2 DEF Current
      <3>2. QED
        BY <1>1, <2>2, <3>1
    <2>3. QED
      BY <1>2, <1>3, <2>1, <2>2
  <1>5. QED
    BY <1>4 DEF InBlocks, f

-----------------------------------------------------------------------------
(* What a chunk adds, part by part of the invariant.                       *)

\* The events a chunk adds belong to blocks.
LEMMA FramedBegun ==
  ASSUME NEW a \in MessagesType, NEW c \in ChunkType, Framed(a.sent)
  PROVE  Framed(Begun(a, c))
  <1>1. a.sent \in Seq(EventType) /\ a.index \in Nat /\ Index(a, c) \in Nat /\ Stopped(a, c) \in Seq(EventType)
    BY BegunTypes DEF MessagesType
  <1>2. Framed(Stopped(a, c))
    BY <1>1, EventTypes, OtherFields, FramedAppend DEF Stopped
  <1>3. ASSUME NewBlock(a, c) \in {"thinking", "text"}
        PROVE  Framed(Append(Stopped(a, c), Event("block_start", NewBlock(a, c), Index(a, c), 0)))
    <2> DEFINE e == Event("block_start", NewBlock(a, c), Index(a, c), 0)
    <2>1. e \in EventType /\ e.type = "block_start"
      BY <1>1, <1>3, EventTypes, EventFields
    <2> HIDE DEF e
    <2>2. Framed(Append(Stopped(a, c), e))
      BY <1>1, <1>2, <2>1, FramedAppend
    <2>3. QED
      BY <2>2 DEF e
  <1>4. QED
    BY <1>2, <1>3 DEF Begun

\* The four events of content.
LEMMA ContentFields ==
  ASSUME NEW c \in ChunkType, NEW n \in Nat
  PROVE  /\ Event("delta", "thinking", n, 1) \in EventType /\ Event("delta", "text", n, 1) \in EventType
         /\ Event("delta", "thinking", n, 1).type = "delta" /\ Event("delta", "text", n, 1).type = "delta"
         /\ Event("delta", "thinking", n, 1).kind = "thinking" /\ Event("delta", "text", n, 1).kind = "text"
         /\ Event("delta", "thinking", n, 1).index = n /\ Event("delta", "text", n, 1).index = n
         /\ c.tools # <<>> =>
              LET k == c.tools[1].call
              IN  /\ k \in Calls /\ k \notin {"reasoning", "thinking", "text"}
                  /\ Event("block_start", k, n, 0) \in EventType /\ Event("delta", k, n, 1) \in EventType
                  /\ Event("block_start", k, n, 0).type = "block_start" /\ Event("delta", k, n, 1).type = "delta"
                  /\ Event("block_start", k, n, 0).kind = k /\ Event("delta", k, n, 1).kind = k
                  /\ Event("block_start", k, n, 0).index = n /\ Event("delta", k, n, 1).index = n
  <1>1. c.tools # <<>> => c.tools[1].call \in Calls
    BY FirstEntry
  <1>2. \A k \in {"thinking", "text"} \cup Calls :
          /\ Event("block_start", k, n, 0) \in EventType /\ Event("delta", k, n, 1) \in EventType
          /\ Event("block_start", k, n, 0).type = "block_start" /\ Event("delta", k, n, 1).type = "delta"
          /\ Event("block_start", k, n, 0).kind = k /\ Event("delta", k, n, 1).kind = k
          /\ Event("block_start", k, n, 0).index = n /\ Event("delta", k, n, 1).index = n
    <2>1. TAKE k \in {"thinking", "text"} \cup Calls
    <2>2. Event("block_start", k, n, 0) \in EventType /\ Event("delta", k, n, 1) \in EventType
      BY EventTypes
    <2>3. QED
      BY <2>2 DEF Event
  <1>3. \A k \in Calls : k \notin {"reasoning", "thinking", "text"}
    BY CallsAssumption
  <1>4. QED
    BY <1>1, <1>2, <1>3

\* So do those of its content.
LEMMA FramedAdded ==
  ASSUME NEW s \in Seq(EventType), Framed(s), NEW c \in ChunkType, NEW n \in Nat
  PROVE  Framed(Added(s, c, n))
  <1> DEFINE s1 == Thought(s, c, n)
             s2 == Said(s1, c, n)
             s3 == Called(s2, c, n)
             s4 == Argued(s3, c, n)
  <1>1. \A q \in Seq(EventType) : \A e \in EventType :
          Framed(q) /\ e.type \in {"delta", "block_start"} => Framed(Append(q, e))
    BY FramedAppend
  <1>2. s1 \in Seq(EventType) /\ Framed(s1)
    <2>1. \A e \in EventType : e.type = "delta" => Framed(Append(s, e))
      BY <1>1
    <2>2. QED
      BY <2>1, AddedTypes, ContentFields DEF Thought
  <1> HIDE DEF s1
  <1>3. s2 \in Seq(EventType) /\ Framed(s2)
    <2>1. \A e \in EventType : e.type = "delta" => Framed(Append(s1, e))
      BY <1>1, <1>2
    <2>2. QED
      BY <1>2, <2>1, AddedTypes, ContentFields DEF Said
  <1> HIDE DEF s2
  <1>4. s3 \in Seq(EventType) /\ Framed(s3)
    <2>1. \A e \in EventType : e.type = "block_start" => Framed(Append(s2, e))
      BY <1>1, <1>3
    <2>2. s3 \in Seq(EventType)
      BY <1>3, AddedTypes
    <2>3. c.tools # <<>> => Framed(Append(s2, Event("block_start", c.tools[1].call, n, 0)))
      BY <2>1, ContentFields
    <2>4. QED
      BY <1>3, <2>2, <2>3 DEF Called
  <1> HIDE DEF s3
  <1>5. s4 \in Seq(EventType) /\ Framed(s4)
    <2>1. \A e \in EventType : e.type = "delta" => Framed(Append(s3, e))
      BY <1>1, <1>4
    <2>2. s4 \in Seq(EventType)
      BY <1>4, AddedTypes
    <2>3. c.tools # <<>> => Framed(Append(s3, Event("delta", c.tools[1].call, n, 1)))
      BY <2>1, ContentFields
    <2>4. QED
      BY <1>4, <2>2, <2>3 DEF Argued
  <1>6. QED
    BY <1>5 DEF Added, s1, s2, s3

\* The start and the stop of a block are no deltas.
LEMMA CountedBegun ==
  ASSUME NEW a \in MessagesType, NEW c \in ChunkType, NEW k
  PROVE  Count(Begun(a, c), Deltas(k)) = Count(a.sent, Deltas(k))
  <1>1. a.sent \in Seq(EventType) /\ a.index \in Nat /\ Index(a, c) \in Nat /\ Stopped(a, c) \in Seq(EventType)
    BY BegunTypes DEF MessagesType
  <1>2. Count(Stopped(a, c), Deltas(k)) = Count(a.sent, Deltas(k))
    <2>1. BlockStop(a.index) \in EventType /\ BlockStop(a.index) \notin Deltas(k)
      BY <1>1, EventTypes, OtherFields DEF Deltas
    <2>2. Count(Append(a.sent, BlockStop(a.index)), Deltas(k)) = Count(a.sent, Deltas(k))
      <3>1. /\ Count(a.sent, Deltas(k)) \in Nat
            /\ Count(Append(a.sent, BlockStop(a.index)), Deltas(k)) =
                 Count(a.sent, Deltas(k)) + (IF BlockStop(a.index) \in Deltas(k) THEN 1 ELSE 0)
        BY <1>1, <2>1, CountAppend
      <3>2. QED
        BY <2>1, <3>1
    <2>3. QED
      BY <2>2 DEF Stopped
  <1>3. ASSUME NewBlock(a, c) \in {"thinking", "text"}
        PROVE  Count(Append(Stopped(a, c), Event("block_start", NewBlock(a, c), Index(a, c), 0)), Deltas(k))
                 = Count(Stopped(a, c), Deltas(k))
    <2> DEFINE e == Event("block_start", NewBlock(a, c), Index(a, c), 0)
    <2>1. e \in EventType /\ e \notin Deltas(k)
      BY <1>1, <1>3, EventTypes, EventFields DEF Deltas
    <2> HIDE DEF e
    <2>2. /\ Count(Stopped(a, c), Deltas(k)) \in Nat
          /\ Count(Append(Stopped(a, c), e), Deltas(k)) =
               Count(Stopped(a, c), Deltas(k)) + (IF e \in Deltas(k) THEN 1 ELSE 0)
      BY <1>1, <2>1, CountAppend
    <2>3. QED
      BY <2>1, <2>2 DEF e
  <1>4. QED
    BY <1>2, <1>3 DEF Begun

\* Reasoning and text have a delta each.
LEMMA CountedAdded ==
  ASSUME NEW s \in Seq(EventType), NEW c \in ChunkType, NEW n \in Nat
  PROVE  /\ Count(Added(s, c, n), Deltas("thinking")) =
              Count(s, Deltas("thinking")) + (IF c.reasoning THEN 1 ELSE 0)
         /\ Count(Added(s, c, n), Deltas("text")) =
              Count(s, Deltas("text")) + (IF c.text /\ ~(c.whole /\ c.finish) THEN 1 ELSE 0)
  <1> DEFINE s1 == Thought(s, c, n)
             s2 == Said(s1, c, n)
             s3 == Called(s2, c, n)
             s4 == Argued(s3, c, n)
             R == Deltas("thinking")
             T == Deltas("text")
             r == Event("delta", "thinking", n, 1)
             t == Event("delta", "text", n, 1)
             b == Event("block_start", c.tools[1].call, n, 0)
             d == Event("delta", c.tools[1].call, n, 1)
  <1>0. /\ r \in EventType /\ r \in R /\ r \notin T
        /\ t \in EventType /\ t \in T /\ t \notin R
        /\ c.tools # <<>> => b \in EventType /\ b \notin R /\ b \notin T /\ d \in EventType /\ d \notin R /\ d \notin T
    BY ContentFields DEF Deltas
  <1>1. s1 \in Seq(EventType)
    BY AddedTypes
  <1>2. s2 \in Seq(EventType)
    BY <1>1, AddedTypes
  <1>3. s3 \in Seq(EventType)
    BY <1>2, AddedTypes
  <1>a. /\ s1 = IF c.reasoning THEN Append(s, r) ELSE s
        /\ s2 = IF c.text /\ ~(c.whole /\ c.finish) THEN Append(s1, t) ELSE s1
        /\ s3 = IF c.tools # <<>> /\ c.tools[1].start THEN Append(s2, b) ELSE s2
        /\ s4 = IF c.tools # <<>> /\ c.tools[1].args # "none" THEN Append(s3, d) ELSE s3
    BY DEF Thought, Said, Called, Argued
  <1>b. Added(s, c, n) = s4
    BY DEF Added
  <1> HIDE DEF s1, s2, s3, s4, R, T, r, t, b, d
  <1>5. /\ Count(s1, R) = Count(s, R) + (IF c.reasoning THEN 1 ELSE 0)
        /\ Count(s1, T) = Count(s, T)
    <2>1. ASSUME r \in EventType
          PROVE  /\ Count(Append(s, r), R) = Count(s, R) + (IF r \in R THEN 1 ELSE 0)
                 /\ Count(Append(s, r), T) = Count(s, T) + (IF r \in T THEN 1 ELSE 0)
      BY <2>1, CountAppend
    <2>2. Count(s, R) \in Nat /\ Count(s, T) \in Nat
      BY CountZero
    <2>3. QED
      BY <1>0, <1>a, <2>1, <2>2
  <1>6. /\ Count(s2, R) = Count(s1, R)
        /\ Count(s2, T) = Count(s1, T) + (IF c.text /\ ~(c.whole /\ c.finish) THEN 1 ELSE 0)
    <2>1. ASSUME t \in EventType
          PROVE  /\ Count(Append(s1, t), R) = Count(s1, R) + (IF t \in R THEN 1 ELSE 0)
                 /\ Count(Append(s1, t), T) = Count(s1, T) + (IF t \in T THEN 1 ELSE 0)
      BY <1>1, <2>1, CountAppend
    <2>2. Count(s1, R) \in Nat /\ Count(s1, T) \in Nat
      BY <1>1, CountZero
    <2>3. QED
      BY <1>0, <1>a, <2>1, <2>2
  <1>7. /\ Count(s3, R) = Count(s2, R)
        /\ Count(s3, T) = Count(s2, T)
    <2>1. ASSUME b \in EventType
          PROVE  /\ Count(Append(s2, b), R) = Count(s2, R) + (IF b \in R THEN 1 ELSE 0)
                 /\ Count(Append(s2, b), T) = Count(s2, T) + (IF b \in T THEN 1 ELSE 0)
      BY <1>2, <2>1, CountAppend
    <2>2. Count(s2, R) \in Nat /\ Count(s2, T) \in Nat
      BY <1>2, CountZero
    <2>3. QED
      BY <1>0, <1>a, <2>1, <2>2
  <1>8. /\ Count(s4, R) = Count(s3, R)
        /\ Count(s4, T) = Count(s3, T)
    <2>1. ASSUME d \in EventType
          PROVE  /\ Count(Append(s3, d), R) = Count(s3, R) + (IF d \in R THEN 1 ELSE 0)
                 /\ Count(Append(s3, d), T) = Count(s3, T) + (IF d \in T THEN 1 ELSE 0)
      BY <1>3, <2>1, CountAppend
    <2>2. Count(s3, R) \in Nat /\ Count(s3, T) \in Nat
      BY <1>3, CountZero
    <2>3. QED
      BY <1>0, <1>a, <2>1, <2>2
  <1>9. QED
    BY <1>5, <1>6, <1>7, <1>8, <1>b DEF R, T

\* A chunk with one kind of content: the new block, if any, starts behind the stop of
\* the one that was open.
LEMMA PairedAdded ==
  ASSUME NEW a \in MessagesType, NEW c \in ChunkType, ~Mixed(c), c.finish => c.tools = <<>>,
         ~a.open => a.index = 0, Paired(a.sent, IF a.open THEN a.index + 1 ELSE 0, a.index)
  PROVE  LET n == Index(a, c)
             open == a.open \/ NewBlock(a, c) # "none"
         IN  Paired(Added(Begun(a, c), c, n), IF open THEN n + 1 ELSE 0, n)
  <1> DEFINE n == Index(a, c)
             s0 == Stopped(a, c)
             s == Begun(a, c)
             s1 == Thought(s, c, n)
             s2 == Said(s1, c, n)
             s3 == Called(s2, c, n)
             s4 == Argued(s3, c, n)
             new == NewBlock(a, c)
             N(m) == IF a.open THEN m ELSE 0
  <1>0. /\ a.sent \in Seq(EventType) /\ a.index \in Nat /\ n \in Nat /\ s0 \in Seq(EventType) /\ s \in Seq(EventType)
        /\ a.open \in BOOLEAN
    BY BegunTypes DEF MessagesType
  <1>a. n = (IF new # "none" /\ a.open THEN a.index + 1 ELSE a.index)
    BY DEF Index
  <1>b. new \in {"none", "thinking", "text", "tool_use"}
    BY NewBlockType
  <1>c. new = "tool_use" <=> c.tools # <<>> /\ c.tools[1].start
    BY NewBlockType DEF Mixed
  <1>d. Added(s, c, n) = s4
    BY DEF Added
  <1>e. s1 \in Seq(EventType) /\ s2 \in Seq(EventType) /\ s3 \in Seq(EventType)
    <2>1. s1 \in Seq(EventType)
      BY <1>0, AddedTypes
    <2> HIDE DEF s1
    <2>2. s2 \in Seq(EventType)
      BY <1>0, <2>1, AddedTypes
    <2> HIDE DEF s2
    <2>3. s3 \in Seq(EventType)
      BY <1>0, <2>2, AddedTypes
    <2>4. QED
      BY <2>1, <2>2, <2>3
  <1> DEFINE p == IF a.open THEN a.index + 1 ELSE 0
             q == IF new \in {"thinking", "text"} THEN n + 1 ELSE IF new = "none" THEN p ELSE n
             r == IF new # "none" THEN n + 1 ELSE p
  <1>2. Paired(s0, p, n)
    <2>1. CASE new # "none" /\ a.open
      <3>1. BlockStop(a.index) \in EventType /\ BlockStop(a.index).type = "block_stop" /\ BlockStop(a.index).index = a.index
        BY <1>0, EventTypes, OtherFields
      <3>2. Paired(Append(a.sent, BlockStop(a.index)), a.index + 1, a.index + 1)
        BY <1>0, <2>1, <3>1, PairedAppend
      <3>3. QED
        BY <1>a, <2>1, <3>2 DEF Stopped
    <2>2. CASE ~(new # "none" /\ a.open)
      BY <1>a, <2>2 DEF Stopped
    <2>3. QED
      BY <2>1, <2>2
  <1>3. Paired(s, q, n)
    <2>1. CASE new \in {"thinking", "text"}
      <3> DEFINE e == Event("block_start", new, n, 0)
      <3>1. e \in EventType /\ e.type = "block_start" /\ e.index = n
        BY <1>0, <2>1, EventTypes, EventFields
      <3>2. s = Append(s0, e)
        BY <2>1 DEF Begun
      <3> HIDE DEF e, s, s0
      <3>3. p = n
        BY <1>0, <1>a, <2>1
      <3>4. Paired(Append(s0, e), n + 1, n)
        BY <1>0, <1>2, <3>1, <3>3, PairedAppend
      <3>5. QED
        BY <2>1, <3>2, <3>4
    <2>2. CASE new = "none"
      BY <1>2, <2>2 DEF Begun
    <2>3. CASE new = "tool_use"
      <3>1. p = n
        BY <1>0, <1>a, <2>3
      <3>2. s = s0
        BY <2>3 DEF Begun
      <3>3. QED
        BY <1>2, <2>3, <3>1, <3>2
    <2>4. QED
      BY <1>b, <2>1, <2>2, <2>3
  <1>4. q \in Nat /\ r \in Nat
    BY <1>0
  <1>5. Paired(s1, q, n)
    <2>1. \A e \in EventType : e.type = "delta" => Paired(Append(s, e), q, n)
      BY <1>0, <1>3, <1>4, PairedAppend
    <2>2. QED
      BY <1>0, <1>3, <2>1, ContentFields DEF Thought
  <1>6. Paired(s2, q, n)
    <2> HIDE DEF s1
    <2>1. \A e \in EventType : e.type = "delta" => Paired(Append(s1, e), q, n)
      BY <1>0, <1>e, <1>5, <1>4, PairedAppend
    <2>2. QED
      BY <1>0, <1>5, <2>1, ContentFields DEF Said
  <1>7. Paired(s3, r, n)
    <2> HIDE DEF s2
    <2>1. CASE new = "tool_use"
      <3> DEFINE e == Event("block_start", c.tools[1].call, n, 0)
      <3>1. s3 = Append(s2, e) /\ e \in EventType /\ e.type = "block_start" /\ e.index = n
        BY <1>0, <1>c, <2>1, ContentFields DEF Called
      <3>2. q = n
        BY <2>1
      <3> HIDE DEF e
      <3>3. Paired(Append(s2, e), n + 1, n)
        BY <1>0, <1>e, <1>6, <3>1, <3>2, PairedAppend
      <3>4. QED
        BY <2>1, <3>1, <3>3
    <2>2. CASE new # "tool_use"
      <3>1. s3 = s2
        BY <1>c, <2>2 DEF Called
      <3>2. q = r
        BY <1>b, <2>2
      <3>3. QED
        BY <1>6, <3>1, <3>2
    <2>3. QED
      BY <2>1, <2>2
  <1>8. Paired(s4, r, n)
    <2> HIDE DEF s3
    <2>1. \A e \in EventType : e.type = "delta" => Paired(Append(s3, e), r, n)
      BY <1>0, <1>e, <1>7, <1>4, PairedAppend
    <2>2. QED
      BY <1>0, <1>7, <2>1, ContentFields DEF Argued
  <1>9. r = IF a.open \/ new # "none" THEN n + 1 ELSE 0
    BY <1>0, <1>a
  <1>10. QED
    BY <1>8, <1>9, <1>d

-----------------------------------------------------------------------------
(* The Messages API: the order of the content and the deltas.              *)

\* Opening a block keeps each delta in its block.
LEMMA InBlocksBegun ==
  ASSUME NEW a \in MessagesType, NEW c \in ChunkType, InBlocks(a.sent)
  PROVE  /\ InBlocks(Begun(a, c)) /\ InBlocks(Stopped(a, c))
         /\ NewBlock(a, c) \in {"thinking", "text"} => Current(Begun(a, c), NewBlock(a, c), Index(a, c))
  <1>1. a.sent \in Seq(EventType) /\ a.index \in Nat /\ Index(a, c) \in Nat /\ Stopped(a, c) \in Seq(EventType)
    BY BegunTypes DEF MessagesType
  <1>2. InBlocks(Stopped(a, c))
    <2>1. BlockStop(a.index) \in EventType /\ BlockStop(a.index).type = "block_stop"
      BY <1>1, EventTypes, OtherFields
    <2>2. InBlocks(Append(a.sent, BlockStop(a.index)))
      BY <1>1, <2>1, InBlocksAppend
    <2>3. QED
      BY <2>2 DEF Stopped
  <1>3. ASSUME NewBlock(a, c) \in {"thinking", "text"}
        PROVE  LET s == Append(Stopped(a, c), Event("block_start", NewBlock(a, c), Index(a, c), 0))
               IN  InBlocks(s) /\ Current(s, NewBlock(a, c), Index(a, c))
    <2> DEFINE e == Event("block_start", NewBlock(a, c), Index(a, c), 0)
    <2>1. e \in EventType /\ e.type = "block_start" /\ e.kind = NewBlock(a, c) /\ e.index = Index(a, c)
      BY <1>1, <1>3, EventTypes, EventFields
    <2> HIDE DEF e
    <2>2. InBlocks(Append(Stopped(a, c), e))
      BY <1>1, <1>2, <2>1, InBlocksAppend
    <2>3. Current(Append(Stopped(a, c), e), NewBlock(a, c), Index(a, c))
      BY <1>1, <2>1, CurrentAppend
    <2>4. QED
      BY <2>2, <2>3 DEF e
  <1>4. QED
    BY <1>2, <1>3 DEF Begun

\* A delta in the open block.
LEMMA DeltaInBlock ==
  ASSUME NEW s \in Seq(EventType), InBlocks(s), NEW k, NEW n, Current(s, k, n),
         NEW e \in EventType, e.type = "delta", e.kind = k, e.index = n
  PROVE  InBlocks(Append(s, e)) /\ Current(Append(s, e), k, n)
  <1>1. InBlocks(Append(s, e))
    BY InBlocksAppend
  <1>2. QED
    BY <1>1, CurrentAppend

\* One kind of content goes to the block of its kind.
LEMMA InBlocksAdded ==
  ASSUME NEW a \in MessagesType, NEW c \in ChunkType, Single(c), c.finish => c.tools = <<>>,
         ~(c.whole /\ c.finish), InBlocks(a.sent),
         HasContent(c) /\ NewBlock(a, c) = "none" => Current(a.sent, KindOf(c), a.index)
  PROVE  LET s == Added(Begun(a, c), c, Index(a, c))
         IN  /\ InBlocks(s)
             /\ HasContent(c) => Current(s, KindOf(c), Index(a, c))
             /\ ~HasContent(c) => s = a.sent /\ Index(a, c) = a.index
  <1> DEFINE n == Index(a, c)
             s == Begun(a, c)
             new == NewBlock(a, c)
  <1>1. n \in Nat /\ s \in Seq(EventType) /\ a.sent \in Seq(EventType) /\ Stopped(a, c) \in Seq(EventType)
    BY BegunTypes DEF MessagesType
  <1>2. InBlocks(s) /\ InBlocks(Stopped(a, c)) /\ (new \in {"thinking", "text"} => Current(s, new, n))
    BY InBlocksBegun
  <1>3. new = "none" => s = a.sent /\ n = a.index
    BY DEF Begun, Stopped, Index
  <1>4. CASE c.reasoning
    <2>1. ~c.text /\ c.tools = <<>> /\ KindOf(c) = "thinking" /\ HasContent(c)
      BY <1>4 DEF Single, KindOf, HasContent
    <2>2. new = "thinking" \/ new = "none"
      BY <1>4, <2>1, NewBlockType
    <2>3. Current(s, "thinking", n)
      BY <1>2, <1>3, <2>1, <2>2
    <2> DEFINE e == Event("delta", "thinking", n, 1)
    <2>4. Added(s, c, n) = Append(s, e)
      BY <1>4, <2>1 DEF Added, Thought, Said, Called, Argued
    <2>5. e \in EventType /\ e.type = "delta" /\ e.kind = "thinking" /\ e.index = n
      BY <1>1, ContentFields
    <2> HIDE DEF e, s, n
    <2>6. InBlocks(Append(s, e)) /\ Current(Append(s, e), "thinking", n)
      BY <1>1, <1>2, <2>3, <2>5, DeltaInBlock
    <2>7. QED
      BY <2>1, <2>4, <2>6 DEF s, n
  <1>5. CASE ~c.reasoning /\ c.text
    <2>1. c.tools = <<>> /\ KindOf(c) = "text" /\ HasContent(c)
      BY <1>5 DEF Single, KindOf, HasContent
    <2>2. new = "text" \/ new = "none"
      BY <1>5, <2>1, NewBlockType
    <2>3. Current(s, "text", n)
      BY <1>2, <1>3, <2>1, <2>2
    <2> DEFINE e == Event("delta", "text", n, 1)
    <2>4. Added(s, c, n) = Append(s, e)
      BY <1>5, <2>1 DEF Added, Thought, Said, Called, Argued
    <2>5. e \in EventType /\ e.type = "delta" /\ e.kind = "text" /\ e.index = n
      BY <1>1, ContentFields
    <2> HIDE DEF e, s, n
    <2>6. InBlocks(Append(s, e)) /\ Current(Append(s, e), "text", n)
      BY <1>1, <1>2, <2>3, <2>5, DeltaInBlock
    <2>7. QED
      BY <2>1, <2>4, <2>6 DEF s, n
  <1>6. CASE c.tools # <<>>
    <2> DEFINE k == c.tools[1].call
               b == Event("block_start", k, n, 0)
               e == Event("delta", k, n, 1)
               t == IF c.tools[1].start THEN Append(s, b) ELSE s
    <2>1. ~c.text /\ ~c.reasoning /\ KindOf(c) = k /\ HasContent(c) /\ ~c.finish
      BY <1>6 DEF Single, KindOf, HasContent
    <2>2. IF c.tools[1].start THEN new = "tool_use" ELSE new = "none"
      BY <1>6, <2>1, NewBlockType
    <2>3. Added(s, c, n) = IF c.tools[1].args # "none" THEN Append(t, e) ELSE t
      BY <1>6, <2>1 DEF Added, Thought, Said, Called, Argued
    <2>4. /\ b \in EventType /\ b.type = "block_start" /\ b.kind = k /\ b.index = n
          /\ e \in EventType /\ e.type = "delta" /\ e.kind = k /\ e.index = n
      BY <1>1, <1>6, ContentFields
    <2> HIDE DEF b, e, n
    <2>5. t \in Seq(EventType) /\ InBlocks(t) /\ Current(t, k, n)
      <3>1. CASE c.tools[1].start
        <4> HIDE DEF s
        <4>1. Append(s, b) \in Seq(EventType)
          BY <1>1, <2>4, AppendFacts
        <4>2. InBlocks(Append(s, b))
          BY <1>1, <1>2, <2>4, InBlocksAppend
        <4>3. Current(Append(s, b), k, n)
          BY <1>1, <2>4, CurrentAppend
        <4>4. QED
          BY <3>1, <4>1, <4>2, <4>3
      <3>2. CASE ~c.tools[1].start
        BY <1>1, <1>2, <1>3, <2>1, <2>2, <3>2
      <3>3. QED
        BY <3>1, <3>2
    <2> HIDE DEF t
    <2>6. InBlocks(Append(t, e)) /\ Current(Append(t, e), k, n)
      BY <2>4, <2>5, DeltaInBlock
    <2> HIDE DEF s
    <2>7. InBlocks(Added(s, c, n)) /\ Current(Added(s, c, n), k, n)
      BY <2>3, <2>5, <2>6
    <2>8. QED
      BY <2>1, <2>7 DEF s, n
  <1>7. CASE ~c.reasoning /\ ~c.text /\ c.tools = <<>>
    <2>1. ~HasContent(c)
      BY <1>7 DEF HasContent
    <2>2. new = "none"
      BY <1>7, NewBlockType
    <2>3. Added(s, c, n) = s
      BY <1>7 DEF Added, Thought, Said, Called, Argued
    <2>4. QED
      BY <1>2, <1>3, <2>1, <2>2, <2>3
  <1>8. QED
    BY <1>4, <1>5, <1>6, <1>7

\* The kinds of content as numbers.
LEMMA Kinds ==
  ASSUME NEW c
  PROVE  /\ 1 \in KindsIn(c) <=> c.reasoning
         /\ 2 \in KindsIn(c) <=> c.text
         /\ 3 \in KindsIn(c) <=> c.tools # <<>>
         /\ KindsIn(c) \subseteq {1, 2, 3}
  BY DEF KindsIn

\* What the order of the chunks says of the last one.
LEMMA SequencedAppend ==
  ASSUME NEW f \in Seq(ChunkType), NEW c \in ChunkType, Sequenced(Append(f, c))
  PROVE  /\ Sequenced(f) /\ Single(c)
         /\ \A i \in DOMAIN f : \A k \in KindsIn(f[i]), l \in KindsIn(c) : k <= l
         /\ \A i, j \in DOMAIN f : i < j =>
              \A t \in ToSet(f[i].tools), u \in ToSet(f[j].tools), v \in ToSet(c.tools) :
                v.call = t.call => u.call = t.call
  <1> DEFINE g == Append(f, c)
  <1>1. /\ Len(f) \in Nat /\ \A i \in 1..Len(f) : g[i] = f[i]
        /\ g[Len(f) + 1] = c /\ DOMAIN f = 1..Len(f) /\ DOMAIN g = 1..(Len(f) + 1)
    BY AppendFacts
  <1>2. Sequenced(g)
    OBVIOUS
  <1> HIDE DEF g
  <1>3. (\A i \in DOMAIN f : Single(f[i])) /\ Single(c)
    <2>1. \A i \in DOMAIN g : Single(g[i])
      BY <1>2 DEF Sequenced
    <2>2. QED
      BY <1>1, <2>1
  <1>4. /\ \A i, j \in DOMAIN f : i < j => \A k \in KindsIn(f[i]), l \in KindsIn(f[j]) : k <= l
        /\ \A i \in DOMAIN f : \A k \in KindsIn(f[i]), l \in KindsIn(c) : k <= l
    <2>1. \A i, j \in DOMAIN g : i < j => \A k \in KindsIn(g[i]), l \in KindsIn(g[j]) : k <= l
      BY <1>2 DEF Sequenced
    <2>2. \A i, j \in DOMAIN f : i < j => \A k \in KindsIn(f[i]), l \in KindsIn(f[j]) : k <= l
      BY <1>1, <2>1
    <2>3. ASSUME NEW i \in DOMAIN f PROVE \A k \in KindsIn(f[i]), l \in KindsIn(c) : k <= l
      <3>1. i \in DOMAIN g /\ Len(f) + 1 \in DOMAIN g /\ i < Len(f) + 1
        BY <1>1
      <3>2. \A k \in KindsIn(g[i]), l \in KindsIn(g[Len(f) + 1]) : k <= l
        BY <2>1, <3>1
      <3>3. QED
        BY <1>1, <3>2
    <2>4. QED
      BY <2>2, <2>3
  <1>5. \A i, j, k \in DOMAIN g : i < j /\ j <= k =>
          \A t \in ToSet(g[i].tools), u \in ToSet(g[j].tools), v \in ToSet(g[k].tools) :
            v.call = t.call => u.call = t.call
    BY <1>2 DEF Sequenced
  <1>6. \A i, j, k \in DOMAIN f : i < j /\ j <= k =>
          \A t \in ToSet(f[i].tools), u \in ToSet(f[j].tools), v \in ToSet(f[k].tools) :
            v.call = t.call => u.call = t.call
    BY <1>1, <1>5
  <1>7. ASSUME NEW i \in DOMAIN f, NEW j \in DOMAIN f, i < j
        PROVE  \A t \in ToSet(f[i].tools), u \in ToSet(f[j].tools), v \in ToSet(c.tools) :
                 v.call = t.call => u.call = t.call
    <2>1. i \in DOMAIN g /\ j \in DOMAIN g /\ Len(f) + 1 \in DOMAIN g /\ j <= Len(f) + 1
      BY <1>1
    <2>2. \A t \in ToSet(g[i].tools), u \in ToSet(g[j].tools), v \in ToSet(g[Len(f) + 1].tools) :
            v.call = t.call => u.call = t.call
      BY <1>5, <1>7, <2>1
    <2>3. QED
      BY <1>1, <2>2
  <1>8. QED
    BY <1>3, <1>4, <1>6, <1>7 DEF Sequenced

\* A call that has started is an entry of a chunk.
LEMMA StartedBy ==
  ASSUME NEW f \in Seq(ChunkType), NEW k \in Started(f)
  PROVE  \E i \in DOMAIN f : \E t \in ToSet(f[i].tools) : t.start /\ t.call = k
  BY DEF Started, Entries, ToSet

\* Among finitely many places there is a last one.
LEMMA LastPlace ==
  ASSUME NEW f \in Seq(ChunkType), NEW T, NEW i \in At(f, T)
  PROVE  \E j \in At(f, T) : i <= j /\ \A k \in At(f, T) : k <= j
  <1>1. IsFiniteSet(At(f, T)) /\ At(f, T) \subseteq 1..Len(f) /\ Len(f) \in Nat
    BY CountZero, LenProperties
  <1> DEFINE A == At(f, T)
             Good == {n \in 0..Len(f) : (\E k \in A : k <= n) =>
                                          \E j \in A : j <= n /\ \A k \in A : k <= n => k <= j}
  <1> HIDE DEF A
  <1>a. A \subseteq 1..Len(f) /\ Len(f) \in Nat /\ i \in A
    BY <1>1 DEF A
  <1>b. 0 \in Good
    BY <1>a
  <1>c. ASSUME NEW n \in 0..(Len(f) - 1), n \in Good PROVE n + 1 \in Good
    <2>1. n \in Nat /\ n + 1 \in 0..Len(f)
      BY <1>a
    <2>2. CASE n + 1 \in A
      BY <1>a, <2>1, <2>2
    <2>3. CASE n + 1 \notin A
      <3>1. \A k \in A : k <= n + 1 <=> k <= n
        BY <1>a, <2>1, <2>3
      <3>2. QED
        BY <1>a, <1>c, <2>1, <3>1
    <2>4. QED
      BY <2>2, <2>3
  <1>d. Len(f) \in Good
    <2> HIDE DEF Good
    <2>1. \A n \in 0..Len(f) : n \in Good
      <3>1. \A n \in 0..(Len(f) - 1) : n \in Good => n + 1 \in Good
        BY <1>c
      <3>2. QED
        BY <1>a, <1>b, <3>1, UpToInduction
    <2>2. QED
      BY <1>a, <2>1
  <1>2. \E j \in At(f, T) : \A k \in At(f, T) : k <= j
    BY <1>a, <1>d DEF A
  <1>3. QED
    BY <1>1, <1>2

AllFew(x, f) == \A i \in DOMAIN f : FewCalls(x, f[i])

\* The calls of a stream so far continue the one sent last, if the chunks are in order.
LEMMA LastContent ==
  ASSUME NEW x, NEW f \in Seq(ChunkType), NEW c, Shape(c, f), HasContent(c), Sequenced(Append(f, c)),
         FewCalls(x, c), AllFew(x, f), At(f, EndChunk) = {},
         NEW a \in MessagesType, NewBlock(a, c) = "none", c.finish => c.tools = <<>>, Seen(a, f)
  PROVE  \E j \in At(f, ContentChunk) : (\A k \in At(f, ContentChunk) : k <= j) /\ KindOf(c) = KindOf(f[j])
  <1>1. /\ Sequenced(f) /\ Single(c) /\ c \in ChunkType
        /\ \A i \in DOMAIN f : \A k \in KindsIn(f[i]), l \in KindsIn(c) : k <= l
        /\ \A i, j \in DOMAIN f : i < j =>
             \A t \in ToSet(f[i].tools), u \in ToSet(f[j].tools), v \in ToSet(c.tools) :
               v.call = t.call => u.call = t.call
    BY SequencedAppend DEF Shape
  <1>2. \A i, j \in DOMAIN f : i < j => \A k \in KindsIn(f[i]), l \in KindsIn(f[j]) : k <= l
    BY <1>1 DEF Sequenced
  <1>3. \A i \in DOMAIN f : f[i] \in ChunkType /\ Single(f[i])
    BY <1>1, ElementOfSeq, LenProperties DEF Sequenced
  <1>4. At(f, ContentChunk) \subseteq DOMAIN f /\ At(f, ContentChunk) \subseteq Nat
        /\ \A j \in At(f, ContentChunk) : HasContent(f[j])
    BY CountZero, LenProperties DEF At, ContentChunk
  <1>a. \A i \in DOMAIN f : HasContent(f[i]) => i \in At(f, ContentChunk)
    BY <1>3 DEF At, ContentChunk, EndChunk
  <1>b. /\ a.thinking => \E i \in DOMAIN f : f[i].reasoning
        /\ a.text => \E i \in DOMAIN f : f[i].text
    BY DEF Seen
  <1>5. CASE c.reasoning
    <2>1. a.thinking /\ KindOf(c) = "thinking"
      BY <1>1, <1>5, NewBlockType DEF KindOf
    <2>2. PICK i \in DOMAIN f : f[i].reasoning
      BY <1>b, <2>1
    <2>3. i \in At(f, ContentChunk)
      BY <1>a, <2>2 DEF HasContent
    <2>4. PICK j \in At(f, ContentChunk) : i <= j /\ \A k \in At(f, ContentChunk) : k <= j
      BY <2>3, LastPlace
    <2>5. \A k \in KindsIn(f[j]) : k <= 1
      BY <1>1, <1>4, <1>5, <2>4, Kinds
    <2>6. f[j].reasoning
      BY <1>4, <2>4, <2>5, Kinds DEF HasContent
    <2>7. QED
      BY <2>1, <2>4, <2>6 DEF KindOf
  <1>6. CASE ~c.reasoning /\ c.text
    <2>1. a.text /\ KindOf(c) = "text"
      BY <1>1, <1>6, NewBlockType DEF KindOf
    <2>2. PICK i \in DOMAIN f : f[i].text
      BY <1>b, <2>1
    <2>3. i \in At(f, ContentChunk)
      BY <1>a, <2>2 DEF HasContent
    <2>4. PICK j \in At(f, ContentChunk) : i <= j /\ \A k \in At(f, ContentChunk) : k <= j
      BY <2>3, LastPlace
    <2>5. \A k \in KindsIn(f[j]) : k <= 2
      BY <1>1, <1>4, <1>6, <2>4, Kinds
    <2>6. i = j \/ \A k \in KindsIn(f[j]) : 2 <= k
      BY <1>2, <1>4, <2>2, <2>3, <2>4, Kinds
    <2>7. f[j].text
      <3>1. HasContent(f[j]) /\ ~(f[j].tools # <<>>)
        BY <1>4, <2>4, <2>5, Kinds
      <3>2. CASE i = j
        BY <2>2, <3>2
      <3>3. CASE \A k \in KindsIn(f[j]) : 2 <= k
        BY <3>1, <3>3, Kinds DEF HasContent
      <3>4. QED
        BY <2>6, <3>2, <3>3
    <2>8. QED
      BY <1>3, <1>4, <2>1, <2>4, <2>7 DEF KindOf, Single
  <1>7. CASE ~c.reasoning /\ ~c.text
    <2> DEFINE v == c.tools[1]
    <2>1. c.tools # <<>> /\ ~c.finish
      BY <1>7 DEF HasContent
    <2>2. /\ 1 \in DOMAIN c.tools /\ v \in ToSet(c.tools) /\ ~v.start
          /\ KindOf(c) = v.call
      <3>1. 1 \in DOMAIN c.tools
        BY <1>1, <2>1, FirstEntry
      <3>2. ~v.start
        BY <1>1, <1>7, <2>1, NewBlockType
      <3>3. QED
        BY <1>7, <3>1, <3>2 DEF KindOf, ToSet
    <2>3. v.call \in Started(f)
      BY <2>2 DEF Shape
    <2> HIDE DEF v
    <2>4. PICK i \in DOMAIN f : \E t \in ToSet(f[i].tools) : t.start /\ t.call = v.call
      BY <2>3, StartedBy
    <2>5. PICK t \in ToSet(f[i].tools) : t.start /\ t.call = v.call
      BY <2>4
    <2>6. f[i].tools # <<>> /\ i \in At(f, ContentChunk)
      <3>1. f[i].tools # <<>>
        BY <2>5 DEF ToSet
      <3>2. QED
        BY <1>a, <3>1 DEF HasContent
    <2>7. PICK j \in At(f, ContentChunk) : i <= j /\ \A k \in At(f, ContentChunk) : k <= j
      BY <2>6, LastPlace
    <2>8. i = j \/ \A k \in KindsIn(f[j]) : 3 <= k
      BY <1>2, <1>4, <2>6, <2>7, Kinds
    <2>9. f[j].tools # <<>> /\ j \in DOMAIN f /\ f[j] \in ChunkType
      <3>1. j \in DOMAIN f /\ f[j] \in ChunkType /\ HasContent(f[j])
        BY <1>3, <1>4, <2>7
      <3>2. CASE i = j
        BY <2>6, <3>1, <3>2
      <3>3. CASE \A k \in KindsIn(f[j]) : 3 <= k
        <4>1. ~f[j].reasoning /\ ~f[j].text
          BY <3>3, Kinds
        <4>2. QED
          BY <3>1, <4>1 DEF HasContent
      <3>4. QED
        BY <2>8, <3>2, <3>3
    <2>10. 1 \in DOMAIN f[j].tools /\ f[j].tools[1] \in ToSet(f[j].tools)
      <3>1. 1 \in DOMAIN f[j].tools
        BY <2>9, FirstEntry
      <3>2. QED
        BY <3>1 DEF ToSet
    <2>11. f[j].tools[1].call = v.call
      <3>1. CASE i < j
        BY <1>1, <2>2, <2>5, <2>9, <2>10, <3>1
      <3>2. CASE i = j
        <4>1. x # "gemini"
          BY <2>2 DEF FewCalls, AllStart, v
        <4>2. Len(f[j].tools) <= 1 /\ f[j].tools \in Seq(ToolType)
          BY <2>9, <4>1 DEF AllFew, FewCalls, ChunkType
        <4>3. t = f[j].tools[1]
          BY <2>5, <3>2, <4>2 DEF ToSet
        <4>4. QED
          BY <2>5, <4>3
      <3>3. QED
        BY <1>4, <2>7, <3>1, <3>2
    <2>12. ~f[j].reasoning /\ ~f[j].text
      BY <1>3, <2>9 DEF Single
    <2>13. QED
      BY <2>2, <2>7, <2>11, <2>12 DEF KindOf
  <1>8. QED
    BY <1>5, <1>6, <1>7

-----------------------------------------------------------------------------
(* The Messages API: a turn of the loop keeps the invariant.               *)

\* The start of the message keeps the parts of the invariant.
LEMMA ReadyKeeps ==
  ASSUME NEW a \in MessagesType, NEW c \in ChunkType,
         IF a.started THEN Framed(a.sent) ELSE a = MessagesStart
  PROVE  LET s == Ready(a, c).sent
         IN  /\ s \in Seq(EventType) /\ Framed(s)
             /\ \A k : Count(s, Deltas(k)) = Count(a.sent, Deltas(k))
             /\ \A n, m \in Nat : Paired(a.sent, n, m) => Paired(s, n, m)
             /\ InBlocks(a.sent) => InBlocks(s)
             /\ \A k, n : Current(a.sent, k, n) => Current(s, k, n)
  <1> DEFINE e == StartEvent(c)
             s == Ready(a, c).sent
  <1>1. /\ e \in EventType /\ e.type = "message_start" /\ e.kind = "message"
        /\ s = (IF a.started THEN a.sent ELSE Append(a.sent, e))
    BY ReadyEffect
  <1>2. a.sent \in Seq(EventType)
    BY DEF MessagesType
  <1> HIDE DEF e, s
  <1> DEFINE Kept == /\ s \in Seq(EventType) /\ Framed(s)
                     /\ \A k : Count(s, Deltas(k)) = Count(a.sent, Deltas(k))
                     /\ \A n, m \in Nat : Paired(a.sent, n, m) => Paired(s, n, m)
                     /\ InBlocks(a.sent) => InBlocks(s)
                     /\ \A k, n : Current(a.sent, k, n) => Current(s, k, n)
  <1>3. ASSUME a.started PROVE Kept
    BY <1>1, <1>2, <1>3
  <1>4. ASSUME ~a.started PROVE Kept
    <2>1. a.sent = <<>> /\ s = Append(a.sent, e)
      BY <1>1, <1>4 DEF MessagesStart
    <2>2. s \in Seq(EventType) /\ Len(s) = 1 /\ s[1] = e
      BY <1>1, <1>2, <2>1, AppendFacts
    <2>3. Framed(s)
      BY <1>1, <2>2 DEF Framed
    <2>4. ASSUME NEW k PROVE Count(s, Deltas(k)) = Count(a.sent, Deltas(k))
      <3>1. e \notin Deltas(k)
        BY <1>1 DEF Deltas
      <3>2. Count(Append(a.sent, e), Deltas(k)) = Count(a.sent, Deltas(k)) + (IF e \in Deltas(k) THEN 1 ELSE 0)
        BY <1>1, <1>2, CountAppend
      <3>3. Count(a.sent, Deltas(k)) \in Nat
        BY <1>2, CountZero
      <3>4. QED
        BY <2>1, <3>1, <3>2, <3>3
    <2>5. ASSUME NEW n \in Nat, NEW m \in Nat, Paired(a.sent, n, m) PROVE Paired(s, n, m)
      BY <1>1, <1>2, <2>1, <2>5, PairedAppend
    <2>6. InBlocks(a.sent) => InBlocks(s)
      BY <1>1, <1>2, <2>1, InBlocksAppend
    <2>7. ASSUME NEW k, NEW n, Current(a.sent, k, n) PROVE Current(s, k, n)
      BY <1>1, <1>2, <2>1, <2>7, CurrentAppend
    <2>8. QED
      BY <2>2, <2>3, <2>4, <2>5, <2>6, <2>7
  <1>5. QED
    BY <1>3, <1>4 DEF Kept, s

\* Frame and deltas after a chunk.
LEMMA AfterKeeps ==
  ASSUME NEW a \in MessagesType, NEW f \in Seq(ChunkType), NEW c, Shape(c, f),
         IF a.started THEN Framed(a.sent) ELSE a = MessagesStart, Counted(a.sent, f)
  PROVE  Framed(After(a, c).sent) /\ Counted(After(a, c).sent, Append(f, c))
  <1> DEFINE d == Ready(a, c)
             e == After(a, c)
             n == Index(d, c)
             R == Deltas("thinking")
             T == Deltas("text")
  <1>1. c \in ChunkType
    BY DEF Shape
  <1>2. d \in MessagesType
    BY <1>1, ReadyEffect
  <1>3. d.sent \in Seq(EventType) /\ Framed(d.sent) /\ \A k : Count(d.sent, Deltas(k)) = Count(a.sent, Deltas(k))
    BY <1>1, ReadyKeeps
  <1>4. /\ Count(d.sent, R) = Count(f, Reasoned) /\ Count(d.sent, T) = Count(f, Worded)
    BY <1>3 DEF Counted
  <1>5. /\ Count(Append(f, c), Reasoned) = Count(f, Reasoned) + (IF c.reasoning THEN 1 ELSE 0)
        /\ Count(Append(f, c), Worded) = Count(f, Worded) + (IF c.text /\ ~c.whole THEN 1 ELSE 0)
    <2>1. Count(Append(f, c), Reasoned) = Count(f, Reasoned) + (IF c \in Reasoned THEN 1 ELSE 0)
      BY <1>1, CountAppend
    <2>2. Count(Append(f, c), Worded) = Count(f, Worded) + (IF c \in Worded THEN 1 ELSE 0)
      BY <1>1, CountAppend
    <2>3. QED
      BY <1>1, <2>1, <2>2 DEF Reasoned, Worded
  <1>a. c.whole => c.finish /\ ~c.reasoning
    BY DEF Shape
  <1>6. CASE Inlines(c)
    <2>1. e.sent = Added(Begun(d, c), c, n)
      BY <1>6, AfterEffect
    <2>2. Begun(d, c) \in Seq(EventType) /\ n \in Nat
      BY <1>1, <1>2, BegunTypes
    <2>3. Framed(Begun(d, c)) /\ Count(Begun(d, c), R) = Count(d.sent, R) /\ Count(Begun(d, c), T) = Count(d.sent, T)
      BY <1>1, <1>2, <1>3, FramedBegun, CountedBegun
    <2> HIDE DEF d, n, R, T
    <2>4. Framed(Added(Begun(d, c), c, n))
      BY <1>1, <2>2, <2>3, FramedAdded
    <2>5. /\ Count(Added(Begun(d, c), c, n), R) = Count(Begun(d, c), R) + (IF c.reasoning THEN 1 ELSE 0)
          /\ Count(Added(Begun(d, c), c, n), T) =
               Count(Begun(d, c), T) + (IF c.text /\ ~(c.whole /\ c.finish) THEN 1 ELSE 0)
      BY <1>1, <2>2, CountedAdded DEF R, T
    <2>6. c.text /\ ~(c.whole /\ c.finish) <=> c.text /\ ~c.whole
      BY <1>a
    <2>7. /\ Count(e.sent, R) = Count(Append(f, c), Reasoned)
          /\ Count(e.sent, T) = Count(Append(f, c), Worded)
      BY <1>4, <1>5, <2>1, <2>3, <2>5, <2>6
    <2>8. QED
      BY <2>1, <2>4, <2>7 DEF Counted, R, T
  <1>7. CASE ~Inlines(c)
    <2>1. e.sent = d.sent
      BY <1>7, AfterEffect
    <2>2. ~c.reasoning /\ ~(c.text /\ ~c.whole)
      BY <1>a, <1>1, <1>7 DEF Inlines, Shape, HasContent, ChunkType
    <2>3. Count(f, Reasoned) \in Nat /\ Count(f, Worded) \in Nat
      BY CountZero
    <2>4. QED
      BY <1>3, <1>4, <1>5, <2>1, <2>2, <2>3 DEF Counted
  <1>8. QED
    BY <1>6, <1>7

\* Blocks after a chunk.
LEMMA AfterBlocks ==
  ASSUME NEW a \in MessagesType, NEW f \in Seq(ChunkType), NEW c, Shape(c, f),
         IF a.started THEN Framed(a.sent) ELSE a = MessagesStart,
         ~a.open => a.index = 0, a.open => a.index < Count(f, Filled), Blocks(a, f)
  PROVE  LET e == After(a, c)
         IN  /\ ~e.open => e.index = 0
             /\ e.open => e.index < Count(Append(f, c), Filled)
             /\ Blocks(e, Append(f, c))
  <1> DEFINE d == Ready(a, c)
             e == After(a, c)
             g == Append(f, c)
  <1>1. c \in ChunkType
    BY DEF Shape
  <1>2. d \in MessagesType /\ d.open = a.open /\ d.index = a.index /\ d.index \in Nat
    BY <1>1, ReadyEffect DEF MessagesType
  <1>3. /\ Count(g, Filled) = Count(f, Filled) + (IF c \in Filled THEN 1 ELSE 0)
        /\ Count(f, Filled) \in Nat
    BY <1>1, CountAppend
  <1>4. /\ \A i \in DOMAIN f : i \in DOMAIN g /\ g[i] = f[i]
        /\ Len(f) + 1 \in DOMAIN g /\ g[Len(f) + 1] = c
    BY <1>1, AppendFacts
  <1>5. ASSUME \A i \in DOMAIN g : ~Mixed(g[i])
        PROVE  Paired(d.sent, IF d.open THEN d.index + 1 ELSE 0, d.index) /\ ~Mixed(c)
    <2>1. ~Mixed(c) /\ \A i \in DOMAIN f : ~Mixed(f[i])
      BY <1>4, <1>5
    <2>2. Paired(a.sent, IF a.open THEN a.index + 1 ELSE 0, a.index)
      BY <2>1 DEF Blocks
    <2>3. \A n, m \in Nat : Paired(a.sent, n, m) => Paired(d.sent, n, m)
      BY <1>1, ReadyKeeps
    <2>4. QED
      BY <1>2, <2>1, <2>2, <2>3
  <1>6. CASE Inlines(c)
    <2> DEFINE n == Index(d, c)
    <2>1. /\ e.sent = Added(Begun(d, c), c, n) /\ e.index = n /\ (e.open <=> a.open \/ NewBlock(d, c) # "none")
      BY <1>2, <1>6, AfterEffect
    <2>2. NewBlock(d, c) # "none" => c \in Filled
      BY <1>1, <1>2, NewBlockType DEF Filled, HasContent
    <2>3. n = IF NewBlock(d, c) # "none" /\ d.open THEN d.index + 1 ELSE d.index
      BY DEF Index
    <2> HIDE DEF d, e, n
    <2>4. (~e.open => e.index = 0) /\ (e.open => e.index < Count(g, Filled))
      <3>1. e.open <=> d.open \/ NewBlock(d, c) # "none"
        BY <1>2, <2>1
      <3>2. /\ ~d.open => d.index = 0
            /\ d.open => d.index < Count(f, Filled)
        BY <1>2
      <3>3. e.index = (IF NewBlock(d, c) # "none" /\ d.open THEN d.index + 1 ELSE d.index)
        BY <2>1, <2>3
      <3>4. CASE NewBlock(d, c) # "none"
        BY <1>2, <1>3, <2>2, <3>1, <3>2, <3>3, <3>4
      <3>5. CASE NewBlock(d, c) = "none"
        BY <1>2, <1>3, <3>1, <3>2, <3>3, <3>5
      <3>6. QED
        BY <3>4, <3>5
    <2>5. ASSUME \A i \in DOMAIN g : ~Mixed(g[i]) PROVE Paired(e.sent, IF e.open THEN e.index + 1 ELSE 0, e.index)
      <3>1. c.finish => c.tools = <<>>
        BY <1>5, <1>6, <2>5 DEF Mixed, Inlines
      <3>2. ~d.open => d.index = 0
        BY <1>2
      <3>3. ~Mixed(c) /\ Paired(d.sent, IF d.open THEN d.index + 1 ELSE 0, d.index)
        BY <1>5, <2>5
      <3>4. LET open == d.open \/ NewBlock(d, c) # "none"
            IN  Paired(Added(Begun(d, c), c, Index(d, c)), IF open THEN Index(d, c) + 1 ELSE 0, Index(d, c))
        BY <1>1, <1>2, <3>1, <3>2, <3>3, PairedAdded
      <3>5. e.open <=> d.open \/ NewBlock(d, c) # "none"
        BY <1>2, <2>1
      <3>6. QED
        BY <2>1, <3>4, <3>5 DEF n
    <2>6. QED
      BY <2>4, <2>5 DEF Blocks, e, g
  <1>7. CASE ~Inlines(c)
    <2>1. e = d
      BY <1>7, AfterEffect
    <2> HIDE DEF d, e
    <2>2. (~e.open => e.index = 0) /\ (e.open => e.index < Count(g, Filled))
      BY <1>2, <1>3, <2>1
    <2>3. QED
      BY <1>5, <2>1, <2>2 DEF Blocks, e, g
  <1>8. QED
    BY <1>6, <1>7

\* Deltas in their blocks after a chunk.
LEMMA AfterPlaced ==
  ASSUME NEW x, NEW f \in Seq(ChunkType), NEW c, Shape(c, f), FewCalls(x, c),
         AllFew(x, f),
         HasContent(c) => At(f, EndChunk) = {},
         NEW a \in MessagesType, IF a.started THEN Framed(a.sent) ELSE a = MessagesStart,
         Placed(a, f)
  PROVE  Placed(After(a, c), Append(f, c))
  <1> DEFINE d == Ready(a, c)
             e == After(a, c)
             n == Index(d, c)
             g == Append(f, c)
  <1>1. c \in ChunkType
    BY DEF Shape
  <1>2. d \in MessagesType /\ d.index = a.index /\ d.thinking = a.thinking /\ d.text = a.text
    BY <1>1, ReadyEffect
  <1>3. /\ Len(f) \in Nat /\ DOMAIN f = 1..Len(f) /\ DOMAIN g = 1..(Len(f) + 1)
        /\ g[Len(f) + 1] = c /\ \A i \in 1..Len(f) : g[i] = f[i]
    BY <1>1, AppendFacts
  <1>4. /\ At(g, EndChunk) = At(f, EndChunk) \cup (IF c \in EndChunk THEN {Len(f) + 1} ELSE {})
        /\ At(g, ContentChunk) = At(f, ContentChunk) \cup (IF c \in ContentChunk THEN {Len(f) + 1} ELSE {})
    BY <1>1, CountAppend
  <1>5. SUFFICES ASSUME Sequenced(g)
                 PROVE  /\ InBlocks(e.sent)
                        /\ At(g, EndChunk) = {} =>
                             /\ \A i \in At(g, ContentChunk) :
                                  (\A j \in At(g, ContentChunk) : j <= i) => Current(e.sent, KindOf(g[i]), e.index)
                             /\ Seen(e, g)
    BY DEF Placed
  <1>6. Sequenced(f) /\ Single(c)
    BY <1>1, <1>5, SequencedAppend
  <1>7. /\ InBlocks(a.sent)
        /\ At(f, EndChunk) = {} =>
             /\ \A i \in At(f, ContentChunk) :
                  (\A j \in At(f, ContentChunk) : j <= i) => Current(a.sent, KindOf(f[i]), a.index)
             /\ Seen(a, f)
    BY <1>6 DEF Placed
  <1>8. /\ InBlocks(d.sent)
        /\ \A k, m : Current(a.sent, k, m) => Current(d.sent, k, m)
    BY <1>1, <1>7, ReadyKeeps
  <1>a. At(f, ContentChunk) \subseteq 1..Len(f) /\ At(f, EndChunk) \subseteq 1..Len(f)
    BY CountZero
  <1>b. \A i \in DOMAIN f : f[i] \in ChunkType
    BY ElementOfSeq, LenProperties
  <1>9. CASE Inlines(c)
    <2>1. /\ e.sent = Added(Begun(d, c), c, n) /\ e.index = n
          /\ (e.thinking <=> a.thinking \/ NewBlock(d, c) = "thinking")
          /\ (e.text <=> a.text \/ NewBlock(d, c) = "text")
          /\ c.event_type = "content" /\ (c.finish => ~c.whole)
      BY <1>9, AfterEffect
    <2>2. c.finish => c.tools = <<>>
      BY <1>6, <1>9 DEF Inlines, Single
    <2>3. HasContent(c) /\ NewBlock(d, c) = "none" => Current(d.sent, KindOf(c), d.index)
      <3>1. SUFFICES ASSUME HasContent(c), NewBlock(d, c) = "none" PROVE Current(d.sent, KindOf(c), d.index)
        OBVIOUS
      <3>2. At(f, EndChunk) = {}
        BY <3>1
      <3>4. PICK j \in At(f, ContentChunk) :
              (\A k \in At(f, ContentChunk) : k <= j) /\ KindOf(c) = KindOf(f[j])
        <4>1. Seen(d, f)
          BY <1>2, <1>7, <3>2 DEF Seen
        <4>2. Sequenced(Append(f, c)) /\ d \in MessagesType
          BY <1>2, <1>5
        <4> HIDE DEF d, e, n, g
        <4>3. QED
          BY <2>2, <3>1, <3>2, <4>1, <4>2, LastContent
      <3>5. Current(a.sent, KindOf(f[j]), a.index)
        BY <1>7, <3>2, <3>4
      <3>6. QED
        BY <1>2, <1>8, <3>4, <3>5
    <2>a. InBlocks(d.sent)
      BY <1>8
    <2> HIDE DEF d, e
    <2>4. LET s == Added(Begun(d, c), c, Index(d, c))
          IN  /\ InBlocks(s)
              /\ HasContent(c) => Current(s, KindOf(c), Index(d, c))
              /\ ~HasContent(c) => s = d.sent /\ Index(d, c) = d.index
      <3>1. ~(c.whole /\ c.finish)
        BY <2>1
      <3>2. d \in MessagesType
        BY <1>2
      <3>3. QED
        BY <1>1, <1>6, <2>2, <2>3, <2>a, <3>1, <3>2, InBlocksAdded
    <2>5. InBlocks(e.sent) /\ (HasContent(c) => Current(e.sent, KindOf(c), e.index))
          /\ (~HasContent(c) => e.sent = d.sent /\ e.index = d.index)
      BY <2>1, <2>4
    <2>6. ASSUME At(g, EndChunk) = {}
          PROVE  /\ \A i \in At(g, ContentChunk) :
                      (\A j \in At(g, ContentChunk) : j <= i) => Current(e.sent, KindOf(g[i]), e.index)
                 /\ Seen(e, g)
      <3>1. At(f, EndChunk) = {} /\ c \notin EndChunk
        BY <1>4, <2>6
      <3>2. ~c.finish
        BY <1>1, <3>1 DEF EndChunk
      <3>3. ASSUME NEW i \in At(g, ContentChunk), \A j \in At(g, ContentChunk) : j <= i
            PROVE  Current(e.sent, KindOf(g[i]), e.index)
        <4>1. CASE HasContent(c)
          <5>1. c \in ContentChunk
            BY <1>1, <3>2, <4>1 DEF ContentChunk
          <5>2. i = Len(f) + 1
            BY <1>3, <1>4, <1>a, <3>3, <5>1
          <5>3. QED
            BY <1>3, <2>5, <4>1, <5>2
        <4>2. CASE ~HasContent(c)
          <5>1. c \notin ContentChunk
            BY <4>2 DEF ContentChunk
          <5>2. i \in At(f, ContentChunk) /\ \A j \in At(f, ContentChunk) : j <= i
            BY <1>4, <3>3, <5>1
          <5>3. Current(a.sent, KindOf(f[i]), a.index) /\ g[i] = f[i]
            BY <1>3, <1>7, <1>a, <3>1, <5>2
          <5>4. QED
            BY <1>2, <1>8, <2>5, <4>2, <5>3
        <4>3. QED
          BY <4>1, <4>2
      <3>4. e.thinking => \E i \in DOMAIN g : g[i].reasoning
        <4>1. NewBlock(d, c) = "thinking" => c.reasoning
          BY <1>1, <1>2, NewBlockType
        <4>2. e.thinking => a.thinking \/ c.reasoning
          BY <1>2, <2>1, <4>1
        <4>3. QED
          BY <1>3, <1>7, <3>1, <4>2 DEF Seen
      <3>5. e.text => \E i \in DOMAIN g : g[i].text
        <4>1. NewBlock(d, c) = "text" => c.text
          BY <1>1, <1>2, NewBlockType
        <4>2. e.text => a.text \/ c.text
          BY <1>2, <2>1, <4>1
        <4>3. QED
          BY <1>3, <1>7, <3>1, <4>2 DEF Seen
      <3>6. QED
        BY <3>3, <3>4, <3>5 DEF Seen
    <2>7. QED
      BY <2>5, <2>6 DEF e
  <1>10. CASE ~Inlines(c)
    <2>1. e = d
      BY <1>10, AfterEffect
    <2>2. c \in EndChunk
      BY <1>1, <1>10 DEF EndChunk, Inlines, ChunkType
    <2>3. QED
      BY <1>4, <1>8, <2>1, <2>2
  <1>11. QED
    BY <1>9, <1>10

\* What waits for the end after a chunk.
LEMMA AfterWaiting ==
  ASSUME NEW a \in MessagesType, NEW f \in Seq(ChunkType), NEW c, Shape(c, f), Waiting(a, f)
  PROVE  Waiting(MessagesFeed(a, c), Append(f, c))
  <1> DEFINE b == MessagesFeed(a, c)
             d == Ready(a, c)
             g == Append(f, c)
  <1>1. c \in ChunkType
    BY DEF Shape
  <1>2. b.usage = After(a, c).usage /\ b.pending = (IF c.finish THEN <<Held(a, c)>> ELSE a.pending)
    BY FeedEffect
  <1>3. After(a, c).usage = d.usage /\ d.usage = (IF c.usage = {} THEN a.usage ELSE c.usage)
    <2>1. After(a, c).usage = d.usage
      BY AfterEffect
    <2>2. d.usage = (IF c.usage = {} THEN a.usage ELSE c.usage)
      BY <1>1, ReadyEffect
    <2>3. QED
      BY <2>1, <2>2
  <1>4. /\ Len(f) \in Nat /\ DOMAIN f = 1..Len(f) /\ DOMAIN g = 1..(Len(f) + 1)
        /\ g[Len(f) + 1] = c /\ \A i \in 1..Len(f) : g[i] = f[i]
    BY <1>1, AppendFacts
  <1> HIDE DEF b, d, g
  <1>5. CASE c.finish
    <2>1. b.pending = <<Held(a, c)>> /\ b.pending[1] = Held(a, c)
      BY <1>2, <1>5
    <2>2. Held(a, c).chunk = Rest(c) /\ Rest(c).usage = c.usage
      BY <1>1, RestType DEF Held
    <2>3. c.usage # {} => b.usage # {}
      BY <1>2, <1>3
    <2>4. Len(f) + 1 \in DOMAIN g /\ g[Len(f) + 1].finish /\ b.pending[1].chunk = Rest(g[Len(f) + 1])
      BY <1>4, <1>5, <2>1, <2>2
    <2>5. QED
      BY <2>1, <2>2, <2>3, <2>4 DEF Waiting, b, g
  <1>6. CASE ~c.finish
    <2>1. b.pending = a.pending /\ (a.usage # {} => b.usage # {})
      BY <1>2, <1>3, <1>6
    <2>2. \A i \in DOMAIN f : i \in DOMAIN g /\ g[i] = f[i]
      BY <1>4
    <2>3. QED
      BY <2>1, <2>2 DEF Waiting, b, g
  <1>7. QED
    BY <1>5, <1>6

\* A turn of the loop keeps the invariant.
LEMMA MessagesStep ==
  ASSUME FedInv, NEW a, NEW u, MessagesLive(a, fed, u), NEW c \in Upcoming
  PROVE  MessagesLive(MessagesFeed(a, c), Append(fed, c), IF c.usage = {} THEN u ELSE c.usage)
  <1> DEFINE b == MessagesFeed(a, c)
             e == After(a, c)
             g == Append(fed, c)
  <1>1. fed \in Seq(ChunkType) /\ family \in Families /\ AllFew(family, fed)
    BY DEF FedInv, AllFew
  <1>2. Shape(c, fed) /\ FewCalls(family, c) /\ c \in ChunkType
    BY <1>1, UpcomingShape DEF Shape
  <1>3. HasContent(c) => At(fed, EndChunk) = {}
    <2>1. HasContent(c) => ~Over
      BY <1>1, UpcomingShape DEF Over
    <2>2. ~Over => Count(fed, EndChunk) = 0
      BY DEF FedInv
    <2>3. QED
      BY <1>1, <2>1, <2>2, CountZero
  <1>4. /\ a \in MessagesType /\ a.usage = u
        /\ IF a.started THEN Framed(a.sent) ELSE a = MessagesStart
        /\ ~a.open => a.index = 0 /\ ~a.thinking /\ ~a.text
        /\ a.open => a.index < Count(fed, Filled)
        /\ Waiting(a, fed) /\ Counted(a.sent, fed) /\ Blocks(a, fed) /\ Placed(a, fed)
    BY DEF MessagesLive
  <1>5. /\ b \in MessagesType /\ b.started /\ b.usage = e.usage /\ b.open = e.open
        /\ b.index = e.index /\ b.thinking = e.thinking /\ b.text = e.text /\ b.sent = e.sent
    BY <1>2, <1>4, FeedEffect
  <1>6. e.usage = (IF c.usage = {} THEN u ELSE c.usage)
    <2>1. e.usage = Ready(a, c).usage
      BY <1>2, <1>4, AfterEffect
    <2>2. Ready(a, c).usage = (IF c.usage = {} THEN a.usage ELSE c.usage)
      BY <1>2, <1>4, ReadyEffect
    <2>3. QED
      BY <1>4, <2>1, <2>2
  <1>7. Framed(e.sent) /\ Counted(e.sent, g)
    BY <1>1, <1>2, <1>4, AfterKeeps
  <1>8. (~e.open => e.index = 0) /\ (e.open => e.index < Count(g, Filled)) /\ Blocks(e, g)
    BY <1>1, <1>2, <1>4, AfterBlocks
  <1>9. Placed(e, g)
    BY <1>1, <1>2, <1>3, <1>4, AfterPlaced
  <1>10. Waiting(b, g)
    BY <1>1, <1>2, <1>4, AfterWaiting
  <1>11. ~e.open => ~e.thinking /\ ~e.text
    <2> DEFINE d == Ready(a, c)
    <2>1. d.open = a.open /\ d.thinking = a.thinking /\ d.text = a.text
      BY <1>2, <1>4, ReadyEffect
    <2>2. ~Inlines(c) => e = d
      BY <1>2, <1>4, AfterEffect
    <2>3. Inlines(c) => /\ (e.open <=> a.open \/ NewBlock(d, c) # "none")
                        /\ (e.thinking <=> a.thinking \/ NewBlock(d, c) = "thinking")
                        /\ (e.text <=> a.text \/ NewBlock(d, c) = "text")
      BY <1>2, <1>4, AfterEffect
    <2> HIDE DEF d, e
    <2>4. CASE Inlines(c)
      BY <1>4, <2>3, <2>4
    <2>5. CASE ~Inlines(c)
      BY <1>4, <2>1, <2>2, <2>5
    <2>6. QED
      BY <2>4, <2>5
  <1>12. g # <<>>
    BY <1>1, <1>2, LastAppend
  <1> HIDE DEF b, e, g
  <1>13. Blocks(b, g) /\ Placed(b, g)
    BY <1>5, <1>8, <1>9 DEF Blocks, Placed, Seen
  <1>14. MessagesLive(b, g, IF c.usage = {} THEN u ELSE c.usage)
    BY <1>5, <1>6, <1>7, <1>8, <1>10, <1>11, <1>12, <1>13 DEF MessagesLive
  <1>15. QED
    BY <1>14 DEF b, g

-----------------------------------------------------------------------------
(* The Messages API: the end of the stream.                                *)

\* The stream behind the stop of the open block, and behind what was held back.
Halted(a) == IF a.open THEN Append(a.sent, BlockStop(a.index)) ELSE a.sent
Late(a) ==
  LET c == a.pending[1].chunk
      n == a.pending[1].index
  IN  IF a.pending = <<>> \/ c.event_type = "usage" THEN Halted(a)
      ELSE IF a.open THEN Added(Halted(a), c, n)
      ELSE Append(Added(Halted(a), c, n), BlockStop(n))

\* What is held.
LEMMA HeldChunk ==
  ASSUME NEW a \in MessagesType, NEW f \in Seq(ChunkType), Waiting(a, f), a.pending # <<>>
  PROVE  LET c == a.pending[1].chunk
         IN  /\ a.pending[1].index \in Nat /\ c \in ChunkType /\ c.finish /\ ~c.text /\ ~c.reasoning
             /\ (c.usage # {} => a.usage # {})
             /\ \E i \in DOMAIN f : f[i].finish /\ c.tools = f[i].tools
  <1>1. PICK i \in DOMAIN f : f[i].finish /\ a.pending[1].chunk = Rest(f[i])
    BY DEF Waiting
  <1>2. f[i] \in ChunkType
    BY ElementOfSeq, LenProperties
  <1>3. a.pending \in Seq(PendingType)
    BY DEF MessagesType
  <1>4. a.pending[1] \in PendingType
    BY <1>3
  <1>5. a.pending[1].index \in Nat
    BY <1>4 DEF PendingType
  <1>6. a.pending[1].chunk.usage # {} => a.usage # {}
    BY DEF Waiting
  <1>7. QED
    BY <1>1, <1>2, <1>5, <1>6, RestType

\* The end of the message: what is late, one message_delta and message_stop.
LEMMA EndEffect ==
  ASSUME NEW a \in MessagesType, NEW f \in Seq(ChunkType), Waiting(a, f)
  PROVE  /\ Halted(a) \in Seq(EventType) /\ Late(a) \in Seq(EventType)
         /\ MessagesEnd(a).sent =
              Append(Append(Late(a), MessageDelta(a.usage)), Event("message_stop", "message", 0, 0))
         /\ MessagesEnd(a).index = a.index
  <1> DEFINE S == Seq(EventType)
             h == Halted(a)
             b == IF a.open THEN EmitBlocks(a, <<BlockStop(a.index)>>) ELSE a
             held == a.pending[1]
             usage1 == IF a.usage = {} THEN held.chunk.usage ELSE a.usage
             x == [held.chunk EXCEPT !.usage = usage1]
             last == IF a.pending = <<>> THEN <<MessageDelta(a.usage)>>
                     ELSE AnthropicEvents(x, held.index, a.open)
             e == MessageDelta(a.usage)
             z == Event("message_stop", "message", 0, 0)
  <1>1. MessagesEnd(a) = EmitBlocks(b, last \o <<z>>)
    BY DEF MessagesEnd
  <1>2. /\ a.sent \in S /\ a.index \in Nat /\ a.usage \in SUBSET AllTokens
        /\ e \in EventType /\ z \in EventType /\ BlockStop(a.index) \in EventType
    BY EventTypes DEF MessagesType
  <1>3. h \in S /\ b = [a EXCEPT !.sent = h]
    <2>1. CASE a.open
      <3>1. Append(a.sent, BlockStop(a.index)) = a.sent \o <<BlockStop(a.index)>>
            /\ Append(a.sent, BlockStop(a.index)) \in S
        BY <1>2, AppendFacts
      <3>2. QED
        BY <2>1, <3>1 DEF EmitBlocks, Halted
    <2>2. CASE ~a.open
      BY <1>2, <2>2 DEF Halted, MessagesType
    <2>3. QED
      BY <2>1, <2>2
  <1>4. Late(a) \in S /\ last \in S /\ h \o last = Append(Late(a), e)
    <2> HIDE DEF h, e, z
    <2>a. /\ <<e>> \in S /\ h \o <<e>> = Append(h, e)
      BY <1>2, <1>3, AppendFacts
    <2>1. CASE a.pending = <<>>
      <3>1. Late(a) = h /\ last = <<e>>
        BY <2>1 DEF Late, h, e
      <3>2. QED
        BY <1>3, <2>a, <3>1
    <2>2. CASE a.pending # <<>>
      <3> DEFINE c == held.chunk
                 n == held.index
                 y == Added(h, c, n)
      <3>1. n \in Nat /\ c \in ChunkType /\ c.finish /\ (c.usage # {} => a.usage # {})
        BY <2>2, HeldChunk
      <3>2. usage1 = a.usage
        BY <3>1
      <3> HIDE DEF usage1
      <3>3. /\ x.event_type = c.event_type /\ x.finish /\ x.usage = a.usage /\ x \in ChunkType
            /\ x.tools = c.tools /\ x.text = c.text /\ x.reasoning = c.reasoning /\ x.whole = c.whole
        BY <1>2, <3>1, <3>2 DEF ChunkType
      <3>4. last = AnthropicEvents(x, n, a.open)
        BY <2>2
      <3> HIDE DEF last, x, c, n
      <3>5. CASE c.event_type = "usage"
        <4>1. Late(a) = h
          BY <3>5 DEF Late, h, c
        <4>2. last = <<e>>
          BY <3>3, <3>4, <3>5 DEF AnthropicEvents, e
        <4>3. QED
          BY <1>3, <2>a, <4>1, <4>2
      <3>6. CASE c.event_type # "usage"
        <4> DEFINE w == ContentEvents(x, n)
                   m == EventIf(~a.open, BlockStop(n))
        <4>1. last = (w \o m) \o <<e>>
          <5>1. EventIf(x.finish /\ ~a.open, BlockStop(n)) = m
            BY <3>3 DEF EventIf
          <5>2. EventIf(x.finish, MessageDelta(x.usage)) = <<e>>
            BY <3>3 DEF EventIf, e
          <5> HIDE DEF w, m
          <5>3. QED
            BY <3>3, <3>4, <3>6, <5>1, <5>2 DEF AnthropicEvents, w
        <4>2. w \in S /\ h \o w = y /\ y \in S
          <5>1. w \in S /\ h \o w = Added(h, x, n) /\ Added(h, x, n) \in S
            BY <1>3, <3>1, <3>3, ContentSent
          <5>2. \A q : /\ Thought(q, x, n) = Thought(q, c, n) /\ Said(q, x, n) = Said(q, c, n)
                       /\ Called(q, x, n) = Called(q, c, n) /\ Argued(q, x, n) = Argued(q, c, n)
            BY <3>1, <3>3 DEF Thought, Said, Called, Argued
          <5>3. Added(h, x, n) = y
            BY <5>2 DEF Added
          <5>4. QED
            BY <5>1, <5>3
        <4>3. BlockStop(n) \in EventType
          BY <3>1, EventTypes
        <4>4. Late(a) = IF a.open THEN y ELSE Append(y, BlockStop(n))
          BY <2>2, <3>6 DEF Late, h, c, n
        <4> HIDE DEF w, y
        <4>5. m \in S /\ y \o m = Late(a) /\ Late(a) \in S
          <5>1. CASE a.open
            BY <4>2, <4>4, <5>1, EmptySeq, ConcatEmptySeq DEF EventIf
          <5>2. CASE ~a.open
            <6>1. m = <<BlockStop(n)>>
              BY <5>2 DEF EventIf
            <6>2. <<BlockStop(n)>> \in S /\ y \o <<BlockStop(n)>> = Append(y, BlockStop(n))
                  /\ Append(y, BlockStop(n)) \in S
              BY <4>2, <4>3, AppendFacts
            <6>3. QED
              BY <4>4, <5>2, <6>1, <6>2
          <5>3. QED
            BY <5>1, <5>2
        <4> HIDE DEF m
        <4>6. h \o (w \o m) = Late(a) /\ w \o m \in S
          <5>1. (h \o w) \o m = h \o (w \o m) /\ w \o m \in S
            <6>1. h \in Seq(EventType) /\ w \in Seq(EventType) /\ m \in Seq(EventType)
              BY <1>3, <4>2, <4>5
            <6>2. QED
              BY <6>1, EventsConcat
          <5>2. QED
            BY <4>2, <4>5, <5>1
        <4>7. h \o ((w \o m) \o <<e>>) = (h \o (w \o m)) \o <<e>> /\ (w \o m) \o <<e>> \in S
          <5>1. h \in S /\ w \o m \in S /\ <<e>> \in S
            BY <1>3, <2>a, <4>6
          <5> DEFINE p == w \o m
                     q == <<e>>
          <5> HIDE DEF p, q
          <5>2. (h \o p) \o q = h \o (p \o q) /\ p \o q \in S
            BY <5>1, EventsConcat DEF p, q
          <5>3. QED
            BY <5>2 DEF p, q
        <4>8. Late(a) \o <<e>> = Append(Late(a), e)
          BY <1>2, <4>5, AppendFacts
        <4>9. QED
          BY <4>1, <4>5, <4>6, <4>7, <4>8
      <3>7. QED
        BY <3>5, <3>6
    <2>3. QED
      BY <2>1, <2>2
  <1> HIDE DEF h, b, last, e, z
  <1>5. MessagesEnd(a) = [[a EXCEPT !.sent = h] EXCEPT !.sent = h \o (last \o <<z>>)]
    BY <1>1, <1>3 DEF EmitBlocks, MessagesType
  <1>6. h \o (last \o <<z>>) = Append(Append(Late(a), e), z)
    <2>1. <<z>> \in S /\ Append(Late(a), e) \in S
      BY <1>2, <1>4, AppendFacts
    <2>2. (h \o last) \o <<z>> = h \o (last \o <<z>>)
      <3> DEFINE q == <<z>>
      <3>1. q \in Seq(EventType)
        BY <2>1
      <3> HIDE DEF q
      <3>2. (h \o last) \o q = h \o (last \o q)
        BY <1>3, <1>4, <3>1, EventsConcat
      <3>3. QED
        BY <3>2 DEF q
    <2>3. Append(Late(a), e) \o <<z>> = Append(Append(Late(a), e), z)
      BY <1>2, <2>1, AppendFacts
    <2>4. QED
      BY <1>4, <2>2, <2>3
  <1>7. MessagesEnd(a).sent = h \o (last \o <<z>>) /\ MessagesEnd(a).index = a.index
    BY <1>5 DEF MessagesType
  <1>8. QED
    BY <1>3, <1>4, <1>6, <1>7 DEF h, e, z

\* What is held adds no text and no reasoning, and calls of its own only.
LEMMA LateKeeps ==
  ASSUME NEW a \in MessagesType, NEW f \in Seq(ChunkType), Waiting(a, f)
  PROVE  /\ Framed(a.sent) => Framed(Halted(a)) /\ Framed(Late(a))
         /\ Count(Late(a), Deltas("thinking")) = Count(a.sent, Deltas("thinking"))
         /\ Count(Late(a), Deltas("text")) = Count(a.sent, Deltas("text"))
  <1> DEFINE c == a.pending[1].chunk
             n == a.pending[1].index
             h == Halted(a)
             y == Added(h, c, n)
             R == Deltas("thinking")
             T == Deltas("text")
  <1>1. h \in Seq(EventType) /\ a.sent \in Seq(EventType) /\ a.index \in Nat
    BY EndEffect DEF MessagesType
  <1>2. \A m \in Nat : BlockStop(m) \in EventType /\ BlockStop(m).type = "block_stop"
                       /\ BlockStop(m) \notin R /\ BlockStop(m) \notin T
    BY EventTypes, OtherFields DEF Deltas
  <1>3. \A s \in Seq(EventType) : \A m \in Nat :
          /\ Append(s, BlockStop(m)) \in Seq(EventType)
          /\ Framed(s) => Framed(Append(s, BlockStop(m)))
          /\ Count(Append(s, BlockStop(m)), R) = Count(s, R)
          /\ Count(Append(s, BlockStop(m)), T) = Count(s, T)
    <2>1. TAKE s \in Seq(EventType)
    <2>2. TAKE m \in Nat
    <2> DEFINE e == BlockStop(m)
    <2>3. e \in EventType /\ e.type = "block_stop" /\ e \notin R /\ e \notin T
      BY <1>2
    <2> HIDE DEF e, R, T
    <2>4. Append(s, e) \in Seq(EventType) /\ (Framed(s) => Framed(Append(s, e)))
      BY <2>3, AppendFacts, FramedAppend
    <2>5. Count(Append(s, e), R) = Count(s, R) + (IF e \in R THEN 1 ELSE 0) /\ Count(s, R) \in Nat
      BY <2>3, CountAppend
    <2>6. Count(Append(s, e), T) = Count(s, T) + (IF e \in T THEN 1 ELSE 0) /\ Count(s, T) \in Nat
      BY <2>3, CountAppend
    <2>7. QED
      BY <2>3, <2>4, <2>5, <2>6 DEF e
  <1>4. /\ Framed(a.sent) => Framed(h)
        /\ Count(h, R) = Count(a.sent, R) /\ Count(h, T) = Count(a.sent, T)
    BY <1>1, <1>3 DEF Halted
  <1> HIDE DEF h
  <1>5. CASE a.pending = <<>> \/ c.event_type = "usage"
    BY <1>4, <1>5 DEF Late, h
  <1>6. CASE ~(a.pending = <<>> \/ c.event_type = "usage")
    <2>1. n \in Nat /\ c \in ChunkType /\ ~c.text /\ ~c.reasoning
      BY <1>6, HeldChunk
    <2>2. Late(a) = IF a.open THEN y ELSE Append(y, BlockStop(n))
      BY <1>6 DEF Late, h
    <2> HIDE DEF c, n
    <2>3. y \in Seq(EventType) /\ (Framed(h) => Framed(y))
      BY <1>1, <2>1, ContentSent, FramedAdded
    <2>4. /\ Count(y, R) = Count(h, R) + (IF c.reasoning THEN 1 ELSE 0)
          /\ Count(y, T) = Count(h, T) + (IF c.text /\ ~(c.whole /\ c.finish) THEN 1 ELSE 0)
      BY <1>1, <2>1, CountedAdded
    <2>5. Count(h, R) \in Nat /\ Count(h, T) \in Nat
      BY <1>1, CountZero
    <2> HIDE DEF y
    <2>6. Count(y, R) = Count(h, R) /\ Count(y, T) = Count(h, T)
      BY <2>1, <2>4, <2>5
    <2>7. QED
      BY <1>3, <1>4, <2>1, <2>2, <2>3, <2>6 DEF h, R, T
  <1>7. QED
    BY <1>5, <1>6

\* Only a stop without a start.
Loose(s) == At(s, OfType("block_start")) = {} /\ \E i : At(s, OfType("block_stop")) = {i}

\* At the end the blocks are balanced, unless calls come with the finish.
LEMMA LateBlocks ==
  ASSUME NEW a \in MessagesType, NEW f \in Seq(ChunkType), Waiting(a, f), ~a.open => a.index = 0,
         Paired(a.sent, IF a.open THEN a.index + 1 ELSE 0, a.index),
         \A i \in DOMAIN f : f[i].finish => f[i].tools = <<>>
  PROVE  (\E n \in Nat : Paired(Late(a), n, n)) \/ Loose(Late(a))
  <1> DEFINE c == a.pending[1].chunk
             n == a.pending[1].index
             h == Halted(a)
             m == IF a.open THEN a.index + 1 ELSE 0
  <1>1. h \in Seq(EventType) /\ a.sent \in Seq(EventType) /\ a.index \in Nat /\ m \in Nat
    BY EndEffect DEF MessagesType
  <1>2. Paired(h, m, m)
    <2>1. CASE a.open
      <3> DEFINE e == BlockStop(a.index)
      <3>1. e \in EventType /\ e.type = "block_stop" /\ e.index = a.index
        BY <1>1, EventTypes, OtherFields
      <3> HIDE DEF e
      <3>2. Paired(Append(a.sent, e), a.index + 1, a.index + 1)
        BY <1>1, <2>1, <3>1, PairedAppend
      <3>3. QED
        BY <2>1, <3>2 DEF Halted, e
    <2>2. CASE ~a.open
      BY <2>2 DEF Halted
    <2>3. QED
      BY <2>1, <2>2
  <1>3. CASE a.pending = <<>> \/ c.event_type = "usage"
    <2>1. Late(a) = h
      BY <1>3 DEF Late
    <2>2. QED
      BY <1>1, <1>2, <2>1
  <1>4. CASE ~(a.pending = <<>> \/ c.event_type = "usage")
    <2>1. n \in Nat /\ ~c.text /\ ~c.reasoning /\ c.tools = <<>>
      BY <1>4, HeldChunk
    <2>2. Added(h, c, n) = h
      BY <2>1 DEF Added, Thought, Said, Called, Argued
    <2>3. Late(a) = IF a.open THEN h ELSE Append(h, BlockStop(n))
      BY <1>4, <2>2 DEF Late
    <2>4. CASE a.open
      BY <1>1, <1>2, <2>3, <2>4
    <2>5. CASE ~a.open
      <3> DEFINE e == BlockStop(n)
                 B == OfType("block_start")
                 P == OfType("block_stop")
      <3>1. e \in EventType /\ e.type = "block_stop"
        BY <2>1, EventTypes, OtherFields
      <3>2. e \notin B /\ e \in P
        BY <3>1 DEF OfType
      <3>3. Count(h, B) = 0 /\ Count(h, P) = 0
        BY <1>2, <2>5 DEF Paired
      <3> HIDE DEF e, B, P
      <3>4. At(h, B) = {} /\ At(h, P) = {}
        BY <1>1, <3>3, CountZero
      <3>5. At(Append(h, e), B) = At(h, B) \cup (IF e \in B THEN {Len(h) + 1} ELSE {})
        BY <1>1, <3>1, CountAppend
      <3>6. At(Append(h, e), P) = At(h, P) \cup (IF e \in P THEN {Len(h) + 1} ELSE {})
        BY <1>1, <3>1, CountAppend
      <3>7. Late(a) = Append(h, e)
        BY <2>3, <2>5 DEF e
      <3> HIDE DEF h
      <3>8. At(Append(h, e), B) = {} /\ At(Append(h, e), P) = {Len(h) + 1}
        BY <3>2, <3>4, <3>5, <3>6
      <3>9. Loose(Late(a))
        BY <3>7, <3>8 DEF Loose, B, P
      <3>10. QED
        BY <3>9
    <2>6. QED
      BY <2>4, <2>5
  <1>5. QED
    BY <1>3, <1>4

\* At the end each delta is in its block, too.
LEMMA LateInBlocks ==
  ASSUME NEW a \in MessagesType, NEW f \in Seq(ChunkType), Waiting(a, f), InBlocks(a.sent),
         \A i \in DOMAIN f : f[i].finish => AllStart(f[i])
  PROVE  InBlocks(Late(a))
  <1> DEFINE c == a.pending[1].chunk
             n == a.pending[1].index
             h == Halted(a)
  <1>1. h \in Seq(EventType) /\ a.sent \in Seq(EventType) /\ a.index \in Nat
    BY EndEffect DEF MessagesType
  <1>2. \A s \in Seq(EventType) : \A m \in Nat : InBlocks(s) => InBlocks(Append(s, BlockStop(m)))
    <2>1. TAKE s \in Seq(EventType)
    <2>2. TAKE m \in Nat
    <2> DEFINE e == BlockStop(m)
    <2>3. e \in EventType /\ e.type = "block_stop"
      BY EventTypes, OtherFields
    <2> HIDE DEF e
    <2>4. InBlocks(s) => InBlocks(Append(s, e))
      BY <2>3, InBlocksAppend
    <2>5. QED
      BY <2>4 DEF e
  <1>3. InBlocks(h)
    BY <1>1, <1>2 DEF Halted
  <1>4. CASE a.pending = <<>> \/ c.event_type = "usage"
    BY <1>3, <1>4 DEF Late
  <1>5. CASE ~(a.pending = <<>> \/ c.event_type = "usage")
    <2>1. n \in Nat /\ c \in ChunkType /\ ~c.text /\ ~c.reasoning
      BY <1>5, HeldChunk
    <2>2. c.tools # <<>> => c.tools[1].start
      <3>1. PICK i \in DOMAIN f : f[i].finish /\ c.tools = f[i].tools
        BY <1>5, HeldChunk
      <3>2. c.tools # <<>> => 1 \in DOMAIN c.tools
        BY <2>1, FirstEntry
      <3>3. QED
        BY <3>1, <3>2 DEF AllStart
    <2> DEFINE y == Added(h, c, n)
               k == c.tools[1].call
               b == Event("block_start", k, n, 0)
               e == Event("delta", k, n, 1)
    <2>3. y = IF c.tools = <<>> THEN h
              ELSE IF c.tools[1].args # "none" THEN Append(Append(h, b), e) ELSE Append(h, b)
      BY <2>1, <2>2 DEF Added, Thought, Said, Called, Argued
    <2>4. Late(a) = IF a.open THEN y ELSE Append(y, BlockStop(n))
      BY <1>5 DEF Late
    <2>5. y \in Seq(EventType)
      BY <1>1, <2>1, ContentSent
    <2> HIDE DEF c, h, y, n
    <2>6. InBlocks(y)
      <3>1. CASE c.tools = <<>>
        BY <1>3, <2>3, <3>1
      <3>2. CASE c.tools # <<>>
        <4>1. /\ b \in EventType /\ b.type = "block_start" /\ b.kind = k /\ b.index = n
              /\ e \in EventType /\ e.type = "delta" /\ e.kind = k /\ e.index = n
          BY <2>1, <3>2, ContentFields
        <4> HIDE DEF b, e, k
        <4>2. Append(h, b) \in Seq(EventType)
          BY <1>1, <4>1, AppendFacts
        <4>3. InBlocks(Append(h, b)) /\ Current(Append(h, b), k, n)
          <5>1. InBlocks(Append(h, b))
            BY <1>1, <1>3, <4>1, InBlocksAppend
          <5>2. QED
            BY <1>1, <4>1, <5>1, CurrentAppend
        <4>4. InBlocks(Append(Append(h, b), e))
          BY <4>1, <4>2, <4>3, DeltaInBlock
        <4>5. QED
          BY <2>3, <3>2, <4>3, <4>4
      <3>3. QED
        BY <3>1, <3>2
    <2>7. QED
      BY <1>2, <2>1, <2>4, <2>5, <2>6
  <1>6. QED
    BY <1>4, <1>5

\* Two events one after the other.
LEMMA PairConcat ==
  ASSUME NEW S, NEW s \in Seq(S), NEW x \in S, NEW y \in S
  PROVE  s \o <<x, y>> = Append(Append(s, x), y)
  <1> DEFINE p == <<x, y>>
             q == <<x>>
             r == Append(q, y)
             z == <<y>>
  <1>1. p \in Seq(S) /\ Len(p) = 2 /\ p[1] = x /\ p[2] = y /\ q \in Seq(S) /\ Len(q) = 1 /\ q[1] = x
        /\ z \in Seq(S)
    OBVIOUS
  <1> HIDE DEF p, q
  <1>2. r \in Seq(S) /\ Len(r) = 2 /\ r[1] = x /\ r[2] = y
    <2>1. q \in Seq(S)
      BY <1>1
    <2>2. /\ Append(q, y) \in Seq(S) /\ Len(Append(q, y)) = Len(q) + 1
          /\ \A i \in 1..Len(q) : Append(q, y)[i] = q[i]
          /\ Append(q, y)[Len(q) + 1] = y
      BY <2>1, AppendFacts
    <2>3. QED
      BY <1>1, <2>2
  <1>3. r = q \o z
    <2>1. q \in Seq(S)
      BY <1>1
    <2>2. Append(q, y) = q \o <<y>>
      BY <2>1, AppendFacts
    <2>3. QED
      BY <2>2
  <1> HIDE DEF r, z
  <1>4. p = r
    <2>1. \A i \in 1..Len(p) : p[i] = r[i]
      BY <1>1, <1>2
    <2>2. QED
      BY <1>1, <1>2, <2>1, SeqEqual
  <1>5. s \o (q \o z) = (s \o q) \o z
    <2>1. q \in Seq(S) /\ z \in Seq(S)
      BY <1>1
    <2>2. (s \o q) \o z = s \o (q \o z)
      BY <2>1, ConcatAssociative
    <2>3. QED
      BY <2>2
  <1>6. s \o q = Append(s, x) /\ Append(s, x) \in Seq(S)
    BY AppendFacts DEF q
  <1>7. Append(s, x) \o z = Append(Append(s, x), y)
    BY <1>6, AppendFacts DEF z
  <1>8. QED
    BY <1>3, <1>4, <1>5, <1>6, <1>7 DEF p

-----------------------------------------------------------------------------
(* The invariants of every stream.                                         *)

\* The chunks of a stream keep their order and bounds.
THEOREM FedInduction == Spec => []FedInv
  <1>1. Init => FedInv
    <2> SUFFICES ASSUME Init PROVE FedInv
      OBVIOUS
    <2>1. fed = <<>> /\ family \in Families
      BY DEF Init
    <2>2. fed \in Seq(ChunkType) /\ Len(fed) = 0 /\ DOMAIN fed = {} /\ ~Over
      BY <2>1, EmptySeq DEF Over
    <2>3. \A T : At(fed, T) = {} /\ Count(fed, T) = 0
      BY <2>1, CountEmpty
    <2>4. MaxContent[family] \in Nat
      BY <2>1, MaxContentAssumption
    <2>5. StartOnce(fed)
      BY <2>2 DEF StartOnce
    <2>6. QED
      BY <2>1, <2>2, <2>3, <2>4, <2>5 DEF FedInv
  <1>2. FedInv /\ [Next]_vars => FedInv'
    <2> SUFFICES ASSUME FedInv, [Next]_vars PROVE FedInv'
      OBVIOUS
    <2>1. ASSUME UNCHANGED <<fed, family>> PROVE FedInv'
      BY <2>1 DEF FedInv, Over
    <2>2. CASE Feed
      <3>1. PICK c \in Upcoming : fed' = Append(fed, c)
        BY <2>2 DEF Feed
      <3>2. family' = family
        BY <2>2 DEF Feed
      <3>3. QED
        BY <3>1, <3>2, FedStep
    <2>3. CASE ~Feed
      <3>1. UNCHANGED <<fed, family>>
        BY <2>3 DEF Next, Exhaust, Fail, Leave, Unwind, Record, LeaveReconciling, Close, vars
      <3>2. QED
        BY <2>1, <3>1
    <2>4. QED
      BY <2>2, <2>3
  <1>3. QED
    BY <1>1, <1>2, PTL DEF Spec

\* The adapter of the Messages API: within the stream, and behind its end.
MessagesInv ==
  api = "messages" =>
    IF phase = "ended"
    THEN \E a : /\ MessagesLive(a, fed, usage)
                /\ adapter = IF outcome = "failed" THEN MessagesError(a) ELSE MessagesEnd(a)
    ELSE MessagesLive(adapter, fed, usage)

\* A stream of the Messages API keeps its frame, its deltas and its blocks.
THEOREM MessagesInduction == Spec => []MessagesInv
  <1>1. Init => MessagesInv
    <2> SUFFICES ASSUME Init, api = "messages" PROVE MessagesLive(adapter, fed, usage)
      BY DEF Init, MessagesInv
    <2>1. fed = <<>> /\ usage = {} /\ adapter = MessagesStart
      BY DEF Init
    <2>2. MessagesStart \in MessagesType
      <3>1. <<>> \in Seq(PendingType) /\ <<>> \in Seq(EventType) /\ {} \in SUBSET AllTokens
        BY EmptySeq
      <3>2. QED
        BY <3>1 DEF MessagesStart, MessagesType
    <2>3. \A T : At(<<>>, T) = {} /\ Count(<<>>, T) = 0
      BY CountEmpty
    <2>4. /\ ~adapter.started /\ adapter.usage = {} /\ ~adapter.open /\ adapter.index = 0 /\ ~adapter.thinking
          /\ ~adapter.text /\ adapter.sent = <<>> /\ adapter.pending = <<>>
      BY <2>1 DEF MessagesStart
    <2>5. Waiting(adapter, fed)
      BY <2>4 DEF Waiting
    <2>6. Counted(adapter.sent, fed)
      BY <2>1, <2>3, <2>4 DEF Counted
    <2>7. Blocks(adapter, fed)
      BY <2>3, <2>4 DEF Blocks, Paired
    <2>8. Placed(adapter, fed)
      BY <2>1, <2>3, <2>4 DEF Placed, InBlocks, Seen
    <2>9. QED
      BY <2>1, <2>2, <2>4, <2>5, <2>6, <2>7, <2>8 DEF MessagesLive
  <1>2. FedInv /\ MessagesInv /\ [Next]_vars => MessagesInv'
    <2> SUFFICES ASSUME FedInv, MessagesInv, [Next]_vars, api = "messages"
                 PROVE  /\ phase' = "ended" =>
                             \E a : /\ MessagesLive(a, fed', usage')
                                    /\ adapter' = IF outcome' = "failed" THEN MessagesError(a) ELSE MessagesEnd(a)
                        /\ phase' # "ended" => MessagesLive(adapter', fed', usage')
      <3>1. [Next]_vars => api' = api
        BY DEF Next, Feed, Exhaust, Fail, Leave, Unwind, Record, LeaveReconciling, Close, vars
      <3>2. QED
        BY <3>1 DEF MessagesInv
    <2>1. phase # "ended" => MessagesLive(adapter, fed, usage)
      BY DEF MessagesInv
    <2>2. CASE Feed
      <3>1. PICK c \in Upcoming : /\ fed' = Append(fed, c)
                                  /\ usage' = IF c.usage = {} THEN usage ELSE c.usage
                                  /\ AdapterFeed(Stripped(c))
        BY <2>2 DEF Feed
      <3>2. phase = "streaming" /\ phase' = phase
        BY <2>2 DEF Feed
      <3>3. adapter' = MessagesFeed(adapter, c)
        BY <3>1 DEF AdapterFeed, Stripped
      <3>4. MessagesLive(MessagesFeed(adapter, c), Append(fed, c), IF c.usage = {} THEN usage ELSE c.usage)
        BY <2>1, <3>2, MessagesStep
      <3>5. QED
        BY <3>1, <3>2, <3>3, <3>4
    <2>3. CASE Exhaust
      <3>1. /\ phase = "streaming" /\ phase' = "unwinding" /\ fed' = fed /\ usage' = usage
            /\ IF usage = {} THEN adapter' = adapter ELSE AdapterFeed(Using(Chunk, usage))
        BY <2>3 DEF Exhaust
      <3>2. MessagesLive(adapter, fed, usage)
        BY <2>1, <3>1
      <3>3. adapter' = adapter
        <4>1. CASE usage = {}
          BY <3>1, <4>1
        <4>2. CASE usage # {}
          <5>1. adapter' = MessagesFeed(adapter, Using(Chunk, usage))
            BY <3>1, <4>2 DEF AdapterFeed
          <5>2. adapter \in MessagesType /\ adapter.usage = usage /\ adapter.started
            BY <3>2, <4>2 DEF MessagesLive, MessagesStart
          <5>3. QED
            BY <4>2, <5>1, <5>2, PriceMessages
        <4>3. QED
          BY <4>1, <4>2
      <3>4. QED
        BY <3>1, <3>2, <3>3
    <2>4. CASE Fail \/ Leave \/ Unwind \/ Record \/ LeaveReconciling
      <3>1. phase # "ended" /\ phase' # "ended" /\ UNCHANGED <<adapter, fed, usage>>
        BY <2>4 DEF Fail, Leave, Unwind, Record, LeaveReconciling
      <3>2. QED
        BY <2>1, <3>1
    <2>5. CASE Close
      <3>1. phase = "closed" /\ phase' = "ended" /\ UNCHANGED <<fed, usage, outcome>>
            /\ adapter' = IF outcome = "failed" THEN MessagesError(adapter) ELSE MessagesEnd(adapter)
        BY <2>5 DEF Close
      <3>2. QED
        BY <2>1, <3>1
    <2>6. CASE UNCHANGED vars
      <3>1. UNCHANGED <<adapter, fed, usage, phase, outcome>>
        BY <2>6 DEF vars
      <3>2. QED
        BY <3>1 DEF MessagesInv
    <2>7. QED
      BY <2>2, <2>3, <2>4, <2>5, <2>6 DEF Next
  <1>3. QED
    BY <1>1, <1>2, FedInduction, PTL DEF Spec

-----------------------------------------------------------------------------
(* The events of a kind, as the properties name them.                      *)
LEMMA SentPlaces ==
  ASSUME adapter.sent \in Seq(EventType)
  PROVE  /\ \A type : Sent(type) = At(sent, OfType(type))
         /\ \A kind : SentOf("delta", kind) = At(sent, Deltas(kind))
         /\ \A i \in DOMAIN sent : sent[i] \in EventType
  <1>1. \A i \in DOMAIN sent : sent[i] \in EventType
    BY ElementOfSeq, LenProperties DEF sent
  <1>2. QED
    BY <1>1 DEF Sent, SentOf, At, OfType, Deltas

\* What a stream of the Messages API has sent when it has ended.
LEMMA MessagesEnded ==
  ASSUME NEW a, MessagesLive(a, fed, usage), FedInv,
         adapter = IF outcome = "failed" THEN MessagesError(a) ELSE MessagesEnd(a)
  PROVE  \E s \in Seq(EventType), e \in EventType, z \in EventType :
           /\ sent = Append(Append(s, e), z) /\ z = Event("message_stop", "message", 0, 0)
           /\ e = IF outcome = "failed" THEN Event("error", "message", 0, 0) ELSE MessageDelta(usage)
           /\ s = IF outcome = "failed" THEN a.sent ELSE Late(a)
           /\ adapter.index = a.index
           /\ fed # <<>> => Framed(s)
           /\ fed = <<>> => s = <<>>
  <1>1. /\ a \in MessagesType /\ Waiting(a, fed) /\ a.usage = usage /\ (a.started <=> fed # <<>>)
        /\ IF a.started THEN Framed(a.sent) ELSE a = MessagesStart
    BY DEF MessagesLive
  <1>2. fed \in Seq(ChunkType)
    BY DEF FedInv
  <1>3. a.sent \in Seq(EventType) /\ a.usage \in SUBSET AllTokens /\ a.index \in Nat
    BY <1>1 DEF MessagesType
  <1>4. /\ Event("error", "message", 0, 0) \in EventType /\ MessageDelta(usage) \in EventType
        /\ Event("message_stop", "message", 0, 0) \in EventType
    BY <1>1, <1>3, EventTypes
  <1>5. CASE outcome = "failed"
    <2> DEFINE e == Event("error", "message", 0, 0)
               z == Event("message_stop", "message", 0, 0)
    <2>1. adapter = [a EXCEPT !.sent = a.sent \o <<e, z>>]
      BY <1>5 DEF MessagesError, EmitBlocks
    <2>2. a.sent \o <<e, z>> = Append(Append(a.sent, e), z)
      <3>1. e \in EventType /\ z \in EventType
        BY <1>4
      <3> HIDE DEF e, z
      <3>2. QED
        BY <1>3, <3>1, PairConcat
    <2>3. sent = Append(Append(a.sent, e), z) /\ adapter.index = a.index
      BY <1>1, <2>1, <2>2 DEF sent, MessagesType
    <2>4. /\ fed # <<>> => Framed(a.sent)
          /\ fed = <<>> => a.sent = <<>>
      BY <1>1 DEF MessagesStart
    <2>5. QED
      BY <1>3, <1>4, <1>5, <2>3, <2>4
  <1>6. CASE outcome # "failed"
    <2>1. /\ Late(a) \in Seq(EventType) /\ adapter.index = a.index
          /\ sent = Append(Append(Late(a), MessageDelta(usage)), Event("message_stop", "message", 0, 0))
      BY <1>1, <1>2, <1>6, EndEffect DEF sent
    <2>2. fed # <<>> => Framed(Late(a))
      BY <1>1, <1>2, LateKeeps
    <2>3. fed = <<>> => Late(a) = <<>>
      BY <1>1 DEF MessagesStart, Late, Halted
    <2>4. QED
      BY <1>4, <1>6, <2>1, <2>2, <2>3
  <1>7. QED
    BY <1>5, <1>6

\* message_start comes first and, in a stream that was served, one message_delta
\* and message_stop come last.
THEOREM MessagesEnvelope == Spec => []Envelope
  <1>1. FedInv /\ MessagesInv => Envelope
    <2> SUFFICES ASSUME FedInv, MessagesInv, api = "messages"
                 PROVE  /\ fed # <<>> => Sent("message_start") = {1}
                        /\ Served => Sent("message_delta") = {Len(sent) - 1} /\ Sent("message_stop") = {Len(sent)}
      BY DEF Envelope
    <2>1. CASE phase # "ended"
      <3>1. adapter.sent \in Seq(EventType) /\ (fed # <<>> => Framed(sent))
        BY <2>1 DEF MessagesInv, MessagesLive, MessagesType, sent
      <3>2. fed # <<>> => Sent("message_start") = {1}
        <4>1. DOMAIN sent = 1..Len(sent) /\ Len(sent) \in Nat
          BY <3>1, LenProperties DEF sent
        <4>2. QED
          BY <3>1, <4>1 DEF Framed, Sent
      <3>3. QED
        BY <2>1, <3>2 DEF Served
    <2>2. CASE phase = "ended"
      <3>1. PICK a : /\ MessagesLive(a, fed, usage)
                     /\ adapter = IF outcome = "failed" THEN MessagesError(a) ELSE MessagesEnd(a)
        BY <2>2 DEF MessagesInv
      <3>2. PICK s \in Seq(EventType), e \in EventType, z \in EventType :
              /\ sent = Append(Append(s, e), z) /\ z = Event("message_stop", "message", 0, 0)
              /\ e = IF outcome = "failed" THEN Event("error", "message", 0, 0) ELSE MessageDelta(usage)
              /\ fed # <<>> => Framed(s)
              /\ fed = <<>> => s = <<>>
        BY <3>1, MessagesEnded
      <3> DEFINE t == Append(s, e)
      <3>3. /\ t \in Seq(EventType) /\ Len(t) = Len(s) + 1 /\ Len(s) \in Nat
            /\ \A i \in 1..Len(s) : t[i] = s[i]
            /\ t[Len(s) + 1] = e
        BY <3>2, AppendFacts
      <3> HIDE DEF t
      <3>4. /\ Len(sent) = Len(s) + 2 /\ DOMAIN sent = 1..(Len(s) + 2)
            /\ \A i \in 1..Len(s) : sent[i] = s[i]
            /\ sent[Len(s) + 1] = e /\ sent[Len(s) + 2] = z
        <4>1. sent = Append(t, z)
          BY <3>2 DEF t
        <4>2. /\ Len(Append(t, z)) = Len(t) + 1 /\ DOMAIN Append(t, z) = 1..(Len(t) + 1)
              /\ \A i \in 1..Len(t) : Append(t, z)[i] = t[i]
              /\ Append(t, z)[Len(t) + 1] = z
          BY <3>2, <3>3, AppendFacts
        <4>3. QED
          BY <3>3, <4>1, <4>2
      <3>5. z.type = "message_stop" /\ e.type \in {"error", "message_delta"}
            /\ (outcome # "failed" => e.type = "message_delta")
        BY <3>2, OtherFields DEF Event
      <3>6. \A i \in 1..Len(s) : s[i].type \notin {"message_delta", "message_stop"}
        BY <3>2, <3>3 DEF Framed
      <3>7. fed # <<>> => Sent("message_start") = {1}
        BY <3>2, <3>3, <3>4, <3>5 DEF Framed, Sent
      <3>8. Served => Sent("message_delta") = {Len(sent) - 1} /\ Sent("message_stop") = {Len(sent)}
        <4>1. SUFFICES ASSUME Served PROVE Sent("message_delta") = {Len(s) + 1} /\ Sent("message_stop") = {Len(s) + 2}
          BY <3>3, <3>4
        <4>2. e.type = "message_delta"
          BY <3>5, <4>1 DEF Served
        <4>3. QED
          BY <3>3, <3>4, <3>5, <3>6, <4>2 DEF Sent
      <3>9. QED
        BY <3>7, <3>8
    <2>3. QED
      BY <2>1, <2>2
  <1>2. QED
    BY <1>1, FedInduction, MessagesInduction, PTL

-----------------------------------------------------------------------------
(* The Messages API: blocks and deltas.                                    *)

\* What is not of a block leaves the blocks as they are.
LEMMA BlocksAppend ==
  ASSUME NEW s \in Seq(EventType), NEW e \in EventType,
         e.type \notin {"block_start", "block_stop", "delta"}
  PROVE  /\ Append(s, e) \in Seq(EventType)
         /\ \A n, m \in Nat : Paired(s, n, m) => Paired(Append(s, e), n, m)
         /\ Loose(s) => Loose(Append(s, e))
         /\ InBlocks(s) => InBlocks(Append(s, e))
         /\ \A k : Count(Append(s, e), Deltas(k)) = Count(s, Deltas(k))
  <1>1. Append(s, e) \in Seq(EventType)
    BY AppendFacts
  <1>2. ASSUME NEW n \in Nat, NEW m \in Nat, Paired(s, n, m) PROVE Paired(Append(s, e), n, m)
    BY <1>2, PairedAppend
  <1>3. ASSUME Loose(s) PROVE Loose(Append(s, e))
    <2> DEFINE B == OfType("block_start")
               P == OfType("block_stop")
    <2>1. e \notin B /\ e \notin P
      BY DEF OfType
    <2> HIDE DEF B, P
    <2>2. At(Append(s, e), B) = At(s, B)
      <3>1. At(Append(s, e), B) = At(s, B) \cup (IF e \in B THEN {Len(s) + 1} ELSE {})
        BY CountAppend
      <3>2. QED
        BY <2>1, <3>1
    <2>3. At(Append(s, e), P) = At(s, P)
      <3>1. At(Append(s, e), P) = At(s, P) \cup (IF e \in P THEN {Len(s) + 1} ELSE {})
        BY CountAppend
      <3>2. QED
        BY <2>1, <3>1
    <2>4. QED
      BY <1>3, <2>2, <2>3 DEF Loose, B, P
  <1>4. InBlocks(s) => InBlocks(Append(s, e))
    BY InBlocksAppend
  <1>5. ASSUME NEW k PROVE Count(Append(s, e), Deltas(k)) = Count(s, Deltas(k))
    <2>1. e \notin Deltas(k)
      BY DEF Deltas
    <2>2. Count(Append(s, e), Deltas(k)) = Count(s, Deltas(k)) + (IF e \in Deltas(k) THEN 1 ELSE 0)
      BY CountAppend
    <2>3. Count(s, Deltas(k)) \in Nat
      BY CountZero
    <2>4. QED
      BY <2>1, <2>2, <2>3
  <1>6. QED
    BY <1>1, <1>2, <1>3, <1>4, <1>5

\* The same for the last two events of a stream.
LEMMA BlocksLast ==
  ASSUME NEW s \in Seq(EventType), NEW e \in EventType, e.type \notin {"block_start", "block_stop", "delta"},
         NEW z \in EventType, z.type \notin {"block_start", "block_stop", "delta"}
  PROVE  LET t == Append(Append(s, e), z)
         IN  /\ t \in Seq(EventType)
             /\ \A n, m \in Nat : Paired(s, n, m) => Paired(t, n, m)
             /\ Loose(s) => Loose(t)
             /\ InBlocks(s) => InBlocks(t)
             /\ \A k : Count(t, Deltas(k)) = Count(s, Deltas(k))
  <1> DEFINE q == Append(s, e)
             t == Append(q, z)
  <1>1. /\ q \in Seq(EventType)
        /\ \A n, m \in Nat : Paired(s, n, m) => Paired(q, n, m)
        /\ Loose(s) => Loose(q)
        /\ InBlocks(s) => InBlocks(q)
        /\ \A k : Count(q, Deltas(k)) = Count(s, Deltas(k))
    BY BlocksAppend
  <1> HIDE DEF q
  <1>2. /\ t \in Seq(EventType)
        /\ \A n, m \in Nat : Paired(q, n, m) => Paired(t, n, m)
        /\ Loose(q) => Loose(t)
        /\ InBlocks(q) => InBlocks(t)
        /\ \A k : Count(t, Deltas(k)) = Count(q, Deltas(k))
    BY <1>1, BlocksAppend
  <1> HIDE DEF t
  <1>3. /\ t \in Seq(EventType)
        /\ \A n, m \in Nat : Paired(s, n, m) => Paired(t, n, m)
        /\ Loose(s) => Loose(t)
        /\ InBlocks(s) => InBlocks(t)
        /\ \A k : Count(t, Deltas(k)) = Count(s, Deltas(k))
    BY <1>1, <1>2
  <1>4. QED
    BY <1>3 DEF t, q

\* Behind its end a stream is its late part with two events that are of no block.
LEMMA MessagesTail ==
  ASSUME api = "messages", phase = "ended", FedInv, MessagesInv
  PROVE  \E a \in MessagesType : \E s \in Seq(EventType) : \E e \in EventType : \E z \in EventType :
           /\ MessagesLive(a, fed, usage) /\ sent = Append(Append(s, e), z)
           /\ s = IF outcome = "failed" THEN a.sent ELSE Late(a)
           /\ adapter.index = a.index
           /\ e.type \notin {"block_start", "block_stop", "delta"}
           /\ z.type \notin {"block_start", "block_stop", "delta"}
  <1>1. PICK a : /\ MessagesLive(a, fed, usage)
                 /\ adapter = IF outcome = "failed" THEN MessagesError(a) ELSE MessagesEnd(a)
    BY DEF MessagesInv
  <1>2. a \in MessagesType
    BY <1>1 DEF MessagesLive
  <1>3. PICK s \in Seq(EventType), e \in EventType, z \in EventType :
          /\ sent = Append(Append(s, e), z) /\ z = Event("message_stop", "message", 0, 0)
          /\ e = IF outcome = "failed" THEN Event("error", "message", 0, 0) ELSE MessageDelta(usage)
          /\ s = IF outcome = "failed" THEN a.sent ELSE Late(a)
          /\ adapter.index = a.index
    BY <1>1, MessagesEnded
  <1>4. z.type = "message_stop" /\ e.type \in {"error", "message_delta"}
    BY <1>3, OtherFields DEF Event
  <1>5. QED
    BY <1>1, <1>2, <1>3, <1>4

\* Blocks have the indexes from 0 on and follow each other, each start with its stop
\* before the next start.
THEOREM MessagesBlocks == Spec => []BlocksPaired
  <1>1. FedInv /\ MessagesInv => BlocksPaired
    <2> DEFINE B == OfType("block_start")
               P == OfType("block_stop")
    <2> SUFFICES ASSUME FedInv, MessagesInv, api = "messages", FedWith(Mixed) = {}, ~FinishTools
                 PROVE  /\ \A i \in Sent("block_start") :
                             Before("block_start", i) = sent[i].index /\ Before("block_stop", i) = sent[i].index
                        /\ \A i \in Sent("block_stop") :
                             \/ Sent("block_start") = {} /\ Sent("block_stop") = {i}
                             \/ /\ Before("block_start", i) = sent[i].index + 1
                                /\ Before("block_stop", i) = sent[i].index
                        /\ Served /\ Sent("block_start") # {} =>
                             Cardinality(Sent("block_start")) = Cardinality(Sent("block_stop"))
      BY DEF BlocksPaired
    <2>1. \A i \in DOMAIN fed : ~Mixed(fed[i]) /\ (fed[i].finish => fed[i].tools = <<>>)
      BY DEF FedWith, FinishTools, FinishFed
    <2>2. /\ adapter.sent \in Seq(EventType)
          /\ \/ \E n, m \in Nat : Paired(sent, n, m) /\ (Served => n = m)
             \/ Loose(sent)
      <3>1. CASE phase # "ended"
        <4>1. /\ adapter \in MessagesType /\ Blocks(adapter, fed)
          BY <3>1 DEF MessagesInv, MessagesLive
        <4>2. adapter.sent \in Seq(EventType) /\ adapter.index \in Nat
          BY <4>1 DEF MessagesType
        <4>3. Paired(sent, IF adapter.open THEN adapter.index + 1 ELSE 0, adapter.index)
          BY <2>1, <4>1 DEF Blocks, sent
        <4>4. (IF adapter.open THEN adapter.index + 1 ELSE 0) \in Nat /\ ~Served
          BY <3>1, <4>2 DEF Served
        <4>5. QED
          BY <4>2, <4>3, <4>4
      <3>2. CASE phase = "ended"
        <4>1. PICK a \in MessagesType : \E s \in Seq(EventType) : \E e \in EventType : \E z \in EventType :
                /\ MessagesLive(a, fed, usage) /\ sent = Append(Append(s, e), z)
                /\ s = IF outcome = "failed" THEN a.sent ELSE Late(a)
                /\ e.type \notin {"block_start", "block_stop", "delta"}
                /\ z.type \notin {"block_start", "block_stop", "delta"}
          BY <3>2, MessagesTail
        <4>2. PICK s \in Seq(EventType), e \in EventType, z \in EventType :
                /\ MessagesLive(a, fed, usage) /\ sent = Append(Append(s, e), z)
                /\ s = IF outcome = "failed" THEN a.sent ELSE Late(a)
                /\ e.type \notin {"block_start", "block_stop", "delta"}
                /\ z.type \notin {"block_start", "block_stop", "delta"}
          BY <4>1
        <4>3. /\ Waiting(a, fed) /\ (~a.open => a.index = 0) /\ a.index \in Nat /\ fed \in Seq(ChunkType)
              /\ Paired(a.sent, IF a.open THEN a.index + 1 ELSE 0, a.index)
          BY <2>1, <4>2 DEF MessagesLive, Blocks, MessagesType, FedInv
        <4>4. \/ \E n, m \in Nat : Paired(s, n, m) /\ (outcome # "failed" => n = m)
              \/ Loose(s)
          <5>1. CASE outcome = "failed"
            <6>1. (IF a.open THEN a.index + 1 ELSE 0) \in Nat
              BY <4>3
            <6>2. QED
              BY <4>2, <4>3, <5>1, <6>1
          <5>2. CASE outcome # "failed"
            <6>1. (\E n \in Nat : Paired(Late(a), n, n)) \/ Loose(Late(a))
              <7>1. \A i \in DOMAIN fed : fed[i].finish => fed[i].tools = <<>>
                BY <2>1
              <7>2. QED
                BY <4>3, <7>1, LateBlocks
            <6>2. QED
              BY <4>2, <5>2, <6>1
          <5>3. QED
            BY <5>1, <5>2
        <4>5. /\ sent \in Seq(EventType)
              /\ \A n, m \in Nat : Paired(s, n, m) => Paired(sent, n, m)
              /\ Loose(s) => Loose(sent)
          BY <4>2, BlocksLast
        <4>6. Served => outcome # "failed"
          BY DEF Served
        <4>7. QED
          BY <4>4, <4>5, <4>6 DEF sent
      <3>3. QED
        BY <3>1, <3>2
    <2>3. /\ Sent("block_start") = At(sent, B) /\ Sent("block_stop") = At(sent, P)
      BY <2>2, SentPlaces
    <2>4. \A i : Before("block_start", i) = Earlier(sent, B, i) /\ Before("block_stop", i) = Earlier(sent, P, i)
      BY <2>3 DEF Before, Earlier
    <2> HIDE DEF B, P
    <2>5. CASE \E n, m \in Nat : Paired(sent, n, m) /\ (Served => n = m)
      <3>1. PICK n \in Nat, m \in Nat : Paired(sent, n, m) /\ (Served => n = m)
        BY <2>5
      <3>2. /\ Cardinality(At(sent, B)) = n /\ Cardinality(At(sent, P)) = m
            /\ \A i \in At(sent, B) : Earlier(sent, B, i) = sent[i].index /\ Earlier(sent, P, i) = sent[i].index
            /\ \A i \in At(sent, P) : Earlier(sent, B, i) = sent[i].index + 1 /\ Earlier(sent, P, i) = sent[i].index
        BY <3>1 DEF Paired, Count, B, P
      <3>3. QED
        BY <2>3, <2>4, <3>1, <3>2
    <2>6. CASE Loose(sent)
      BY <2>3, <2>6 DEF Loose, B, P
    <2>7. QED
      BY <2>2, <2>5, <2>6
  <1>2. QED
    BY <1>1, FedInduction, MessagesInduction, PTL

\* Content in order has one kind in a chunk.
LEMMA OneKindSingle ==
  ASSUME InOrder
  PROVE  \A i \in DOMAIN fed : Single(fed[i])
  <1>1. ASSUME NEW i \in DOMAIN fed PROVE Single(fed[i])
    <2> DEFINE K == KindsIn(fed[i])
    <2>1. Cardinality(K) <= 1
      BY DEF InOrder, OneKind
    <2>2. K \subseteq {1, 2, 3} /\ IsFiniteSet(K)
      <3>1. K \subseteq 1..3 /\ K \subseteq {1, 2, 3}
        BY Kinds
      <3>2. IsFiniteSet(1..3)
        <4>1. 1 \in Int /\ 3 \in Int
          OBVIOUS
        <4>2. QED
          BY <4>1, FS_Interval
      <3>3. QED
        BY <3>1, <3>2, FS_Subset
    <2>3. ASSUME NEW x \in K, NEW y \in K, x # y PROVE FALSE
      <3>1. {x, y} \subseteq K
        BY <2>3
      <3>2. Cardinality({x, y}) <= Cardinality(K) /\ Cardinality({x, y}) \in Nat /\ Cardinality(K) \in Nat
        BY <2>2, <3>1, FS_Subset, FS_CardinalityType
      <3>3. Cardinality({x, y}) = 2
        <4>1. IsFiniteSet({x}) /\ Cardinality({x}) = 1
          BY FS_Singleton
        <4>2. {x, y} = {x} \cup {y} /\ y \notin {x}
          BY <2>3
        <4>3. Cardinality({x} \cup {y}) = 1 + 1
          BY <4>1, <4>2, FS_AddElement
        <4>4. QED
          BY <4>2, <4>3
      <3>4. QED
        BY <2>1, <3>2, <3>3
    <2>4. /\ 1 \in K <=> fed[i].reasoning
          /\ 2 \in K <=> fed[i].text
          /\ 3 \in K <=> fed[i].tools # <<>>
      BY Kinds
    <2> HIDE DEF K
    <2>5. QED
      BY <2>3, <2>4 DEF Single
  <1>2. QED
    BY <1>1

\* Chunks in the order of the properties are in that of the invariant.
LEMMA OrderSequenced ==
  ASSUME fed \in Seq(ChunkType), InOrder, ~Interleaved
  PROVE  Sequenced(fed)
  <1>1. \A i \in DOMAIN fed : Single(fed[i])
    BY OneKindSingle
  <1>2. \A i, j \in DOMAIN fed : i < j => \A k \in KindsIn(fed[i]), l \in KindsIn(fed[j]) : k <= l
    BY DEF InOrder
  <1>3. ASSUME NEW i \in DOMAIN fed, NEW j \in DOMAIN fed, NEW k \in DOMAIN fed, i < j /\ j <= k,
               NEW t \in ToSet(fed[i].tools), NEW w \in ToSet(fed[j].tools), NEW v \in ToSet(fed[k].tools),
               v.call = t.call
        PROVE  w.call = t.call
    <2>1. k \in j..Len(fed)
      BY <1>3, LenProperties
    <2>2. QED
      BY <1>3, <2>1 DEF Interleaved
  <1>4. \A i, j, k \in DOMAIN fed : i < j /\ j <= k =>
          \A t \in ToSet(fed[i].tools), w \in ToSet(fed[j].tools), v \in ToSet(fed[k].tools) :
            v.call = t.call => w.call = t.call
    BY <1>3
  <1>5. QED
    BY <1>1, <1>2, <1>4 DEF Sequenced

\* A delta is in the block of its own kind that is open, for content in order of which
\* the calls do not interleave.
THEOREM MessagesDeltas == Spec => []DeltasInBlock
  <1>1. FedInv /\ MessagesInv => DeltasInBlock
    <2> SUFFICES ASSUME FedInv, MessagesInv, api = "messages", InOrder, ~Interleaved, NEW i \in Sent("delta")
                 PROVE  \E n \in SentOf("block_start", sent[i].kind) :
                          /\ n < i /\ sent[n].index = sent[i].index
                          /\ \A j \in n..i : sent[j].type # "block_stop"
      BY DEF DeltasInBlock
    <2>1. fed \in Seq(ChunkType) /\ Sequenced(fed) /\ \A k \in DOMAIN fed : fed[k].finish => AllStart(fed[k])
      BY OrderSequenced DEF FedInv
    <2>2. adapter.sent \in Seq(EventType) /\ InBlocks(sent)
      <3>1. CASE phase # "ended"
        BY <2>1, <3>1 DEF MessagesInv, MessagesLive, MessagesType, Placed, sent
      <3>2. CASE phase = "ended"
        <4>1. PICK a \in MessagesType : \E s \in Seq(EventType) : \E e \in EventType : \E z \in EventType :
                /\ MessagesLive(a, fed, usage) /\ sent = Append(Append(s, e), z)
                /\ s = IF outcome = "failed" THEN a.sent ELSE Late(a)
                /\ e.type \notin {"block_start", "block_stop", "delta"}
                /\ z.type \notin {"block_start", "block_stop", "delta"}
          BY <3>2, MessagesTail
        <4>2. PICK s \in Seq(EventType), e \in EventType, z \in EventType :
                /\ MessagesLive(a, fed, usage) /\ sent = Append(Append(s, e), z)
                /\ s = IF outcome = "failed" THEN a.sent ELSE Late(a)
                /\ e.type \notin {"block_start", "block_stop", "delta"}
                /\ z.type \notin {"block_start", "block_stop", "delta"}
          BY <4>1
        <4>3. Waiting(a, fed) /\ InBlocks(a.sent)
          BY <2>1, <4>2 DEF MessagesLive, Placed
        <4>4. InBlocks(Late(a))
          BY <2>1, <4>3, LateInBlocks
        <4>5. InBlocks(s)
          BY <4>2, <4>3, <4>4
        <4>6. sent \in Seq(EventType) /\ (InBlocks(s) => InBlocks(sent))
          BY <4>2, BlocksLast
        <4>7. QED
          BY <4>5, <4>6 DEF sent
      <3>3. QED
        BY <3>1, <3>2
    <2>3. i \in At(sent, OfType("delta"))
      BY <2>2, SentPlaces
    <2>4. PICK n \in DOMAIN sent : /\ sent[n].type = "block_start" /\ sent[n].kind = sent[i].kind
                                   /\ sent[n].index = sent[i].index
                                   /\ n < i /\ \A j \in n..i : sent[j].type # "block_stop"
      BY <2>2, <2>3 DEF InBlocks
    <2>5. n \in SentOf("block_start", sent[i].kind)
      BY <2>4 DEF SentOf, Sent
    <2>6. QED
      BY <2>4, <2>5
  <1>2. QED
    BY <1>1, FedInduction, MessagesInduction, PTL

-----------------------------------------------------------------------------
(* What every API shares.                                                  *)

\* The wrapper says how its loop ended once it has, and where the usage is from.
WrapperInv ==
  /\ api \in Apis /\ outcome \in Outcomes
  /\ phase = "streaming" <=> outcome = "none"
  /\ usage \in SUBSET AllTokens
  /\ family \in {"openai", "gemini"} => usage \in {{}, AllTokens}

\* OpenAI and Gemini report all there is to report.
LEMMA WholeUsage ==
  ASSUME family \in {"openai", "gemini"}, NEW c \in Upcoming
  PROVE  c.usage \in {{}, AllTokens}
  <1>a. Chunk \in ChunkType /\ Text \in ChunkType /\ Chunk.usage = {} /\ Text.usage = {} /\ Role.usage = {}
        /\ Reasoning.usage = {} /\ [Text EXCEPT !.reasoning = TRUE].usage = {}
    BY PlainChunks
  <1>b. \A u : Tools(u).usage = {} /\ [Text EXCEPT !.tools = u].usage = {}
    BY DEF Tools, Chunk, Text
  <1>c. \A x : Finish(x).usage = x.usage
    <2>1. \A x, r : [x EXCEPT !.finish = r].usage = x.usage
      OBVIOUS
    <2>2. QED
      BY <2>1 DEF Finish
  <1>1. CASE c \in FirstChunks(family)
    BY <1>1, <1>a DEF FirstChunks
  <1>2. CASE c \in UsageChunks(family)
    BY <1>2, UsageShape DEF Families
  <1>3. CASE c \in ContentChunks(family, fed)
    <2>1. CASE family = "openai"
      <3>1. \A k : Opening(k).usage = {}
        BY <1>b DEF Opening
      <3>2. \A k, p : Piece(k, p).usage = {}
        BY <1>b DEF Piece
      <3>3. c \in {Reasoning, Text} \/ c \in Pieces(fed, Functions)
        BY <1>3, <2>1 DEF ContentChunks, OpenAIContent
      <3>4. QED
        BY <1>a, <3>1, <3>2, <3>3 DEF Pieces
    <2>2. CASE family = "gemini"
      <3>1. Using(Text, AllTokens).usage = AllTokens
        BY <1>a, UsingChunk DEF AllTokens
      <3>2. QED
        BY <1>3, <2>2, <3>1, <1>a, <1>b DEF ContentChunks, GeminiContent
    <2>3. QED
      BY <2>1, <2>2
  <1>4. CASE c \in LastChunks(family, fed)
    <2>1. CASE family = "openai"
      <3>1. PICK d \in {Chunk, Text} : c = Finish(d) \/ c = Using(Finish(d), AllTokens)
        BY <1>4, <2>1 DEF LastChunks, OpenAIFinish
      <3>2. Finish(d) \in ChunkType /\ Finish(d).usage = {} /\ AllTokens \in SUBSET AllTokens
        BY <1>a, FinishChunk
      <3>3. QED
        BY <3>1, <3>2, UsingChunk
    <2>2. CASE family = "gemini"
      <3>1. AllTokens \in SUBSET AllTokens /\ Finish(Chunk) \in ChunkType /\ Finish(Chunk).usage = {}
        BY <1>a, FinishChunk
      <3>2. CASE \E d \in GeminiContent(fed) : c = Using(Finish(d), AllTokens)
        <4>1. PICK d \in GeminiContent(fed) : c = Using(Finish(d), AllTokens)
          BY <3>2
        <4>2. d \in ChunkType
          BY GeminiContentShape DEF Content, Shape
        <4>3. QED
          BY <3>1, <4>1, <4>2, FinishChunk, UsingChunk
      <3>3. CASE c = UsageEvent(Finish(Chunk))
        BY <3>1, <3>3, UsageEventChunk
      <3>4. CASE c = UsageEvent(Using(Finish(Chunk), AllTokens))
        BY <3>1, <3>4, UsingChunk, UsageEventChunk
      <3>5. QED
        BY <1>4, <2>2, <3>2, <3>3, <3>4 DEF LastChunks, GeminiFinish
    <2>3. QED
      BY <2>1, <2>2
  <1>5. QED
    BY <1>1, <1>2, <1>3, <1>4 DEF Upcoming

\* The wrapper keeps to that.
LEMMA WrapperInduction == Spec => []WrapperInv
  <1>1. Init => WrapperInv
    BY DEF Init, WrapperInv, Outcomes
  <1>2. FedInv /\ WrapperInv /\ [Next]_vars => WrapperInv'
    <2> SUFFICES ASSUME FedInv, WrapperInv, [Next]_vars PROVE WrapperInv'
      OBVIOUS
    <2>1. CASE Feed
      <3>1. PICK c \in Upcoming : usage' = IF c.usage = {} THEN usage ELSE c.usage
        BY <2>1 DEF Feed
      <3>2. UNCHANGED <<api, outcome, phase, family>>
        BY <2>1 DEF Feed
      <3>3. family \in Families
        BY DEF FedInv
      <3>4. c.usage \in SUBSET AllTokens
        BY <3>3, UpcomingShape DEF Shape, ChunkType
      <3>5. family \in {"openai", "gemini"} => c.usage \in {{}, AllTokens}
        BY WholeUsage
      <3>6. QED
        BY <3>1, <3>2, <3>4, <3>5 DEF WrapperInv
    <2>2. CASE ~Feed
      BY <2>2 DEF WrapperInv, Next, Exhaust, Fail, Leave, Unwind, Record, LeaveReconciling, Close, vars, Outcomes
    <2>3. QED
      BY <2>1, <2>2
  <1>3. QED
    BY <1>1, <1>2, FedInduction, PTL DEF Spec

-----------------------------------------------------------------------------
(* Chat Completions.                                                       *)

DeltaType ==
  [role : BOOLEAN, reasoning : BOOLEAN, text : BOOLEAN, whole : BOOLEAN, tools : Seq(ToolType),
   finish : BOOLEAN, usage : SUBSET AllTokens, verbatim : BOOLEAN, first : BOOLEAN,
   event_type : {"none"}]
ChatEventType == [type : {"chunk", "error", "done"}, delta : DeltaType]
ChatType == [sent : Seq(ChatEventType)]

ChatTexts == {e \in ChatEventType : e.delta.text}
ChatThoughts == {e \in ChatEventType : e.delta.reasoning}
ChatUsages == {e \in ChatEventType : e.delta.usage # {}}

\* Each piece has its event, and the usage that is told is the one given.
ChatCounted(s, f) ==
  Count(s, ChatTexts) = Count(f, Worded) /\ Count(s, ChatThoughts) = Count(f, Reasoned)
ChatTold(s, u) ==
  /\ Count(s, ChatUsages) = IF u = {} THEN 0 ELSE 1
  /\ \A i \in At(s, ChatUsages) : s[i].delta.usage = u
ChatInv ==
  api = "chat" =>
    /\ adapter \in ChatType /\ ChatCounted(adapter.sent, fed)
    /\ phase = "streaming" => ChatTold(adapter.sent, {})
    /\ outcome = "exhausted" => ChatTold(adapter.sent, usage)

\* The events that carry nothing.
LEMMA PlainChat ==
  ASSUME NEW type \in {"chunk", "error", "done"}
  PROVE  /\ ChatEvent(type) \in ChatEventType
         /\ ChatEvent(type) \notin ChatTexts /\ ChatEvent(type) \notin ChatThoughts
         /\ ChatEvent(type) \notin ChatUsages
  <1>1. <<>> \in Seq(ToolType)
    BY EmptySeq
  <1>2. ChatEvent(type) \in ChatEventType
    BY <1>1 DEF ChatEvent, ChatEventType, DeltaType, Chunk
  <1>3. QED
    BY <1>2 DEF ChatEvent, Chunk, ChatTexts, ChatThoughts, ChatUsages

\* What is not counted changes no count.
LEMMA ChatAppend ==
  ASSUME NEW s \in Seq(ChatEventType), NEW e \in ChatEventType
  PROVE  /\ Append(s, e) \in Seq(ChatEventType)
         /\ Count(Append(s, e), ChatTexts) = Count(s, ChatTexts) + (IF e \in ChatTexts THEN 1 ELSE 0)
         /\ Count(Append(s, e), ChatThoughts) = Count(s, ChatThoughts) + (IF e \in ChatThoughts THEN 1 ELSE 0)
         /\ Count(s, ChatTexts) \in Nat /\ Count(s, ChatThoughts) \in Nat
         /\ e \notin ChatUsages => \A u : (ChatTold(s, u) => ChatTold(Append(s, e), u))
         /\ e \in ChatUsages => (ChatTold(s, {}) => ChatTold(Append(s, e), e.delta.usage))
  <1>1. Append(s, e) \in Seq(ChatEventType) /\ Len(s) \in Nat /\ DOMAIN s = 1..Len(s)
        /\ \A i \in 1..Len(s) : Append(s, e)[i] = s[i]
        /\ Append(s, e)[Len(s) + 1] = e
    BY AppendFacts
  <1>2. /\ At(Append(s, e), ChatUsages) = At(s, ChatUsages) \cup (IF e \in ChatUsages THEN {Len(s) + 1} ELSE {})
        /\ Count(Append(s, e), ChatUsages) = Count(s, ChatUsages) + (IF e \in ChatUsages THEN 1 ELSE 0)
        /\ Count(s, ChatUsages) \in Nat
    BY CountAppend
  <1>3. At(s, ChatUsages) \subseteq 1..Len(s) /\ (Count(s, ChatUsages) = 0 <=> At(s, ChatUsages) = {})
    BY CountZero
  <1>4. ASSUME e \notin ChatUsages, NEW u, ChatTold(s, u) PROVE ChatTold(Append(s, e), u)
    BY <1>1, <1>2, <1>3, <1>4 DEF ChatTold
  <1>5. ASSUME e \in ChatUsages, ChatTold(s, {}) PROVE ChatTold(Append(s, e), e.delta.usage)
    <2>1. e.delta.usage # {}
      BY <1>5 DEF ChatUsages
    <2>2. At(s, ChatUsages) = {} /\ Count(s, ChatUsages) = 0
      BY <1>3, <1>5 DEF ChatTold
    <2>3. At(Append(s, e), ChatUsages) = {Len(s) + 1} /\ Count(Append(s, e), ChatUsages) = 1
      BY <1>2, <1>5, <2>2
    <2>4. QED
      BY <1>1, <2>1, <2>3 DEF ChatTold
  <1>6. /\ Count(Append(s, e), ChatTexts) = Count(s, ChatTexts) + (IF e \in ChatTexts THEN 1 ELSE 0)
        /\ Count(s, ChatTexts) \in Nat
    BY CountAppend
  <1>7. /\ Count(Append(s, e), ChatThoughts) = Count(s, ChatThoughts) + (IF e \in ChatThoughts THEN 1 ELSE 0)
        /\ Count(s, ChatThoughts) \in Nat
    BY CountAppend
  <1>8. QED
    BY <1>1, <1>4, <1>5, <1>6, <1>7

\* What the client sees of a chunk.
LEMMA VisibleChunk ==
  ASSUME NEW c \in ChunkType, c.whole => c.finish
  PROVE  LET e == [ChatEvent("chunk") EXCEPT !.delta = Visible(c)]
         IN  /\ e \in ChatEventType
             /\ e \in ChatTexts <=> c \in Worded
             /\ e \in ChatThoughts <=> c \in Reasoned
             /\ e.delta.usage = IF c.finish THEN {} ELSE c.usage
             /\ (e \in ChatUsages <=> ~c.finish /\ c.usage # {})
  <1> DEFINE v == Visible(c)
             e == [ChatEvent("chunk") EXCEPT !.delta = v]
  <1>1. /\ v \in DeltaType /\ (v.text <=> c.text /\ ~(c.whole /\ c.finish)) /\ (v.reasoning <=> c.reasoning)
        /\ v.usage = IF c.finish THEN {} ELSE c.usage
    BY DEF Visible, ChunkType, DeltaType
  <1> HIDE DEF v
  <1>2. e \in ChatEventType /\ e.delta = v
    BY <1>1, PlainChat DEF ChatEventType
  <1> HIDE DEF e
  <1>3. e \in ChatTexts <=> c \in Worded
    BY <1>1, <1>2 DEF ChatTexts, Worded, ChunkType
  <1>4. e \in ChatThoughts <=> c \in Reasoned
    BY <1>1, <1>2 DEF ChatThoughts, Reasoned, ChunkType
  <1>5. (e \in ChatUsages <=> ~c.finish /\ c.usage # {})
    BY <1>1, <1>2 DEF ChatUsages
  <1>6. QED
    BY <1>1, <1>2, <1>3, <1>4, <1>5 DEF v, e

\* A chunk whose usage was taken out.
LEMMA ChatStep ==
  ASSUME NEW a \in ChatType, NEW f \in Seq(ChunkType), NEW c \in ChunkType, c.whole => c.finish,
         ChatCounted(a.sent, f), ChatTold(a.sent, {})
  PROVE  LET b == ChatFeed(a, [c EXCEPT !.usage = {}])
         IN  b \in ChatType /\ ChatCounted(b.sent, Append(f, c)) /\ ChatTold(b.sent, {})
  <1> DEFINE x == [c EXCEPT !.usage = {}]
             e == [ChatEvent("chunk") EXCEPT !.delta = Visible(x)]
             b == ChatFeed(a, x)
             s == a.sent
  <1>1. /\ x \in ChunkType /\ x.usage = {} /\ x.finish = c.finish /\ x.whole = c.whole /\ x.text = c.text
        /\ x.reasoning = c.reasoning
    BY DEF ChunkType
  <1> HIDE DEF x
  <1>2. /\ e \in ChatEventType /\ e \notin ChatUsages
        /\ (e \in ChatTexts <=> c \in Worded) /\ (e \in ChatThoughts <=> c \in Reasoned)
    <2>1. /\ e \in ChatEventType /\ (e \in ChatUsages <=> ~x.finish /\ x.usage # {})
          /\ (e \in ChatTexts <=> x \in Worded) /\ (e \in ChatThoughts <=> x \in Reasoned)
      BY <1>1, VisibleChunk
    <2>2. (x \in Worded <=> c \in Worded) /\ (x \in Reasoned <=> c \in Reasoned)
      BY <1>1 DEF Worded, Reasoned
    <2> HIDE DEF e
    <2>3. QED
      BY <1>1, <2>1, <2>2
  <1>3. \/ b = [a EXCEPT !.sent = Append(s, e)]
        \/ b = a /\ ~HasDelta(x)
    BY <1>1 DEF ChatFeed
  <1> HIDE DEF e, b
  <1>4. s \in Seq(ChatEventType)
    BY DEF ChatType
  <1>5. /\ Count(Append(f, c), Worded) = Count(f, Worded) + (IF c \in Worded THEN 1 ELSE 0)
        /\ Count(f, Worded) \in Nat
    BY CountAppend
  <1>6. /\ Count(Append(f, c), Reasoned) = Count(f, Reasoned) + (IF c \in Reasoned THEN 1 ELSE 0)
        /\ Count(f, Reasoned) \in Nat
    BY CountAppend
  <1>7. CASE b = [a EXCEPT !.sent = Append(s, e)]
    <2>1. /\ Append(s, e) \in Seq(ChatEventType)
          /\ Count(Append(s, e), ChatTexts) = Count(s, ChatTexts) + (IF e \in ChatTexts THEN 1 ELSE 0)
          /\ Count(Append(s, e), ChatThoughts) = Count(s, ChatThoughts) + (IF e \in ChatThoughts THEN 1 ELSE 0)
          /\ (ChatTold(s, {}) => ChatTold(Append(s, e), {}))
      BY <1>2, <1>4, ChatAppend
    <2>2. b \in ChatType /\ b.sent = Append(s, e)
      BY <1>7, <2>1 DEF ChatType
    <2>3. ChatCounted(b.sent, Append(f, c))
      BY <1>2, <1>5, <1>6, <2>1, <2>2 DEF ChatCounted
    <2>4. QED
      BY <2>1, <2>2, <2>3 DEF b, x
  <1>8. CASE b = a /\ ~HasDelta(x)
    <2>1. c \notin Worded /\ c \notin Reasoned
      BY <1>1, <1>8 DEF HasDelta, Worded, Reasoned
    <2>2. ChatCounted(a.sent, Append(f, c))
      BY <1>5, <1>6, <2>1 DEF ChatCounted
    <2>3. QED
      BY <1>8, <2>2 DEF b, x
  <1>9. QED
    BY <1>3, <1>7, <1>8

\* The chunk with the price.
LEMMA ChatPrice ==
  ASSUME NEW a \in ChatType, NEW f, NEW u \in SUBSET AllTokens, u # {},
         ChatCounted(a.sent, f), ChatTold(a.sent, {})
  PROVE  LET b == ChatFeed(a, Using(Chunk, u))
         IN  b \in ChatType /\ ChatCounted(b.sent, f) /\ ChatTold(b.sent, u)
  <1> DEFINE c == Using(Chunk, u)
             e == [ChatEvent("chunk") EXCEPT !.delta = Visible(c)]
             b == ChatFeed(a, c)
             s == a.sent
  <1>1. /\ c \in ChunkType /\ c.usage = u /\ ~c.finish /\ ~c.whole /\ ~c.text /\ ~c.reasoning
    <2>1. ~Chunk.text /\ ~Chunk.reasoning
      BY DEF Chunk
    <2>2. QED
      BY <2>1, PlainChunks, UsingChunk
  <1> HIDE DEF c
  <1>2. /\ e \in ChatEventType /\ e \in ChatUsages /\ e.delta.usage = u
        /\ e \notin ChatTexts /\ e \notin ChatThoughts
    <2>1. /\ e \in ChatEventType /\ (e \in ChatUsages <=> ~c.finish /\ c.usage # {})
          /\ (e \in ChatTexts <=> c \in Worded) /\ (e \in ChatThoughts <=> c \in Reasoned)
          /\ e.delta.usage = IF c.finish THEN {} ELSE c.usage
      BY <1>1, VisibleChunk
    <2>2. c \notin Worded /\ c \notin Reasoned
      BY <1>1 DEF Worded, Reasoned
    <2> HIDE DEF e
    <2>3. QED
      BY <1>1, <2>1, <2>2
  <1>3. b = [a EXCEPT !.sent = Append(s, e)]
    BY <1>1 DEF ChatFeed
  <1> HIDE DEF e, b
  <1>4. s \in Seq(ChatEventType)
    BY DEF ChatType
  <1>5. /\ Append(s, e) \in Seq(ChatEventType)
        /\ Count(Append(s, e), ChatTexts) = Count(s, ChatTexts) + (IF e \in ChatTexts THEN 1 ELSE 0)
        /\ Count(Append(s, e), ChatThoughts) = Count(s, ChatThoughts) + (IF e \in ChatThoughts THEN 1 ELSE 0)
        /\ Count(s, ChatTexts) \in Nat /\ Count(s, ChatThoughts) \in Nat
        /\ (ChatTold(s, {}) => ChatTold(Append(s, e), u))
    BY <1>2, <1>4, ChatAppend
  <1>6. b \in ChatType /\ b.sent = Append(s, e)
    BY <1>3, <1>5 DEF ChatType
  <1>7. QED
    BY <1>2, <1>5, <1>6 DEF ChatCounted, b, c

\* The end of the stream, or its error.
LEMMA ChatOver ==
  ASSUME NEW a \in ChatType, NEW f, ChatCounted(a.sent, f), NEW b \in {ChatEnd(a), ChatError(a)}
  PROVE  /\ b \in ChatType /\ ChatCounted(b.sent, f)
         /\ \A u : ChatTold(a.sent, u) => ChatTold(b.sent, u)
  <1> DEFINE s == a.sent
             e == ChatEvent("error")
             z == ChatEvent("done")
  <1>1. /\ s \in Seq(ChatEventType) /\ e \in ChatEventType /\ z \in ChatEventType
        /\ e \notin ChatTexts /\ e \notin ChatThoughts /\ e \notin ChatUsages
        /\ z \notin ChatTexts /\ z \notin ChatThoughts /\ z \notin ChatUsages
    BY PlainChat DEF ChatType
  <1>2. \/ b = [a EXCEPT !.sent = Append(s, z)]
        \/ b = [a EXCEPT !.sent = s \o <<e, z>>]
    BY DEF ChatEnd, ChatError
  <1> HIDE DEF e, z
  <1>3. s \o <<e, z>> = Append(Append(s, e), z)
    BY <1>1
  <1>4. ASSUME NEW t \in Seq(ChatEventType), ChatCounted(t, f), NEW d \in {e, z}
        PROVE  /\ Append(t, d) \in Seq(ChatEventType) /\ ChatCounted(Append(t, d), f)
               /\ \A u : ChatTold(t, u) => ChatTold(Append(t, d), u)
    <2>1. d \in ChatEventType /\ d \notin ChatTexts /\ d \notin ChatThoughts /\ d \notin ChatUsages
      BY <1>1
    <2>2. /\ Append(t, d) \in Seq(ChatEventType)
          /\ Count(Append(t, d), ChatTexts) = Count(t, ChatTexts) + (IF d \in ChatTexts THEN 1 ELSE 0)
          /\ Count(Append(t, d), ChatThoughts) = Count(t, ChatThoughts) + (IF d \in ChatThoughts THEN 1 ELSE 0)
          /\ Count(t, ChatTexts) \in Nat /\ Count(t, ChatThoughts) \in Nat
          /\ \A u : ChatTold(t, u) => ChatTold(Append(t, d), u)
      BY <2>1, ChatAppend
    <2>3. QED
      BY <1>4, <2>1, <2>2 DEF ChatCounted
  <1>5. \E t \in Seq(ChatEventType) : b = [a EXCEPT !.sent = t] /\ ChatCounted(t, f)
                                      /\ \A u : ChatTold(s, u) => ChatTold(t, u)
    <2>1. CASE b = [a EXCEPT !.sent = Append(s, z)]
      BY <1>1, <1>4, <2>1
    <2>2. CASE b = [a EXCEPT !.sent = s \o <<e, z>>]
      <3>1. /\ Append(s, e) \in Seq(ChatEventType) /\ ChatCounted(Append(s, e), f)
            /\ \A u : ChatTold(s, u) => ChatTold(Append(s, e), u)
        BY <1>1, <1>4
      <3>2. /\ Append(Append(s, e), z) \in Seq(ChatEventType) /\ ChatCounted(Append(Append(s, e), z), f)
            /\ \A u : ChatTold(Append(s, e), u) => ChatTold(Append(Append(s, e), z), u)
        BY <3>1, <1>4
      <3>3. QED
        BY <1>3, <2>2, <3>1, <3>2
    <2>3. QED
      BY <1>2, <2>1, <2>2
  <1>6. PICK t \in Seq(ChatEventType) : b = [a EXCEPT !.sent = t] /\ ChatCounted(t, f)
                                        /\ \A u : ChatTold(s, u) => ChatTold(t, u)
    BY <1>5
  <1>7. b \in ChatType /\ b.sent = t
    BY <1>6 DEF ChatType
  <1>8. QED
    BY <1>6, <1>7

\* A stream of Chat Completions brings each piece once, and the usage at its end.
LEMMA ChatInduction == Spec => []ChatInv
  <1>1. Init => ChatInv
    <2> SUFFICES ASSUME Init, api = "chat" PROVE ChatInv
      BY DEF ChatInv
    <2>1. adapter = [sent |-> <<>>] /\ fed = <<>> /\ usage = {}
      BY DEF Init, ChatStart
    <2>2. <<>> \in Seq(ChatEventType)
      BY EmptySeq
    <2>3. \A T : At(<<>>, T) = {} /\ Count(<<>>, T) = 0
      BY CountEmpty
    <2>4. QED
      BY <2>1, <2>2, <2>3 DEF ChatInv, ChatType, ChatCounted, ChatTold
  <1>2. FedInv /\ WrapperInv /\ ChatInv /\ [Next]_vars => ChatInv'
    <2> SUFFICES ASSUME FedInv, WrapperInv, ChatInv, [Next]_vars, api' = "chat" PROVE ChatInv'
      BY DEF ChatInv
    <2>1. api = "chat"
      BY DEF Next, Feed, Exhaust, Fail, Leave, Unwind, Record, LeaveReconciling, Close, vars
    <2>2. /\ adapter \in ChatType /\ ChatCounted(adapter.sent, fed)
          /\ phase = "streaming" => ChatTold(adapter.sent, {})
          /\ outcome = "exhausted" => ChatTold(adapter.sent, usage)
      BY <2>1 DEF ChatInv
    <2>3. fed \in Seq(ChunkType) /\ family \in Families /\ usage \in SUBSET AllTokens
          /\ (phase = "streaming" <=> outcome = "none")
      BY DEF FedInv, WrapperInv
    <2>4. CASE Feed
      <3>1. PICK c \in Upcoming : fed' = Append(fed, c) /\ adapter' = ChatFeed(adapter, [c EXCEPT !.usage = {}])
        BY <2>1, <2>4 DEF Feed, AdapterFeed, Stripped
      <3>2. phase = "streaming" /\ outcome' = "none"
        BY <2>3, <2>4 DEF Feed
      <3>3. c \in ChunkType /\ (c.whole => c.finish)
        BY <2>3, UpcomingShape DEF Shape
      <3>4. LET b == ChatFeed(adapter, [c EXCEPT !.usage = {}])
            IN  b \in ChatType /\ ChatCounted(b.sent, Append(fed, c)) /\ ChatTold(b.sent, {})
        BY <2>2, <2>3, <3>2, <3>3, ChatStep
      <3>5. QED
        BY <3>1, <3>2, <3>4 DEF ChatInv
    <2>5. CASE Exhaust
      <3>1. /\ phase = "streaming" /\ phase' = "unwinding" /\ fed' = fed /\ usage' = usage
            /\ adapter' = IF usage = {} THEN adapter ELSE ChatFeed(adapter, Using(Chunk, usage))
        BY <2>1, <2>5 DEF Exhaust, AdapterFeed
      <3>2. CASE usage = {}
        BY <2>2, <3>1, <3>2 DEF ChatInv
      <3>3. CASE usage # {}
        <4>1. LET b == ChatFeed(adapter, Using(Chunk, usage))
              IN  b \in ChatType /\ ChatCounted(b.sent, fed) /\ ChatTold(b.sent, usage)
          BY <2>2, <2>3, <3>1, <3>3, ChatPrice
        <4>2. QED
          BY <3>1, <3>3, <4>1 DEF ChatInv
      <3>4. QED
        BY <3>2, <3>3
    <2>6. CASE Close
      <3>1. /\ UNCHANGED <<fed, usage, outcome>> /\ phase' = "ended"
            /\ adapter' \in {ChatEnd(adapter), ChatError(adapter)}
        BY <2>1, <2>6 DEF Close
      <3>2. PICK b \in {ChatEnd(adapter), ChatError(adapter)} : adapter' = b
        BY <3>1
      <3>3. /\ b \in ChatType /\ ChatCounted(b.sent, fed)
            /\ \A u : ChatTold(adapter.sent, u) => ChatTold(b.sent, u)
        BY <2>2, ChatOver
      <3>4. QED
        BY <2>2, <3>1, <3>2, <3>3 DEF ChatInv
    <2>7. CASE Fail \/ Leave \/ Unwind \/ Record \/ LeaveReconciling \/ UNCHANGED vars
      <3>1. /\ UNCHANGED <<adapter, fed, usage>>
            /\ phase' = "streaming" => phase = "streaming"
            /\ outcome' = "exhausted" => outcome = "exhausted"
        BY <2>7 DEF Fail, Leave, Unwind, Record, LeaveReconciling, vars
      <3>2. QED
        BY <2>2, <3>1 DEF ChatInv
    <2>8. QED
      BY <2>4, <2>5, <2>6, <2>7 DEF Next
  <1>3. QED
    BY <1>1, <1>2, FedInduction, WrapperInduction, PTL DEF Spec

-----------------------------------------------------------------------------
(* The Responses API: the adapter and its events.                          *)

ItemType == [state : {"none", "open", "closed"}, index : Nat, size : Nat]
OutputType == [kind : Items \cup {"upstream"}, size : Nat]
ResponseEvents ==
  [type : {"created", "added", "delta", "done", "completed", "end", "error"},
   kind : Items \cup {"response"}, index : Nat, size : Nat, usage : SUBSET AllTokens,
   output : Seq(OutputType)]
ResponsesType ==
  [item : [Items -> ItemType], calls : Seq(Calls), next : Nat, full : Nat, thought : Nat,
   buffered : Seq(ChunkType), deferred : SUBSET AllTokens, completed : BOOLEAN,
   sent : Seq(ResponseEvents)]

\* The events the properties count.
Telltale == {e \in ResponseEvents : e.type = "completed" \/ (e.type = "delta" /\ e.kind \in {"reasoning", "text"})}
ItemDeltas(kind) == {e \in ResponseEvents : e.type = "delta" /\ e.kind = kind}
Completions == {e \in ResponseEvents : e.type = "completed"}
CompletionsOf(u) == {e \in ResponseEvents : e.type = "completed" /\ e.usage = u}

\* t adds to s nothing that counts, or e and nothing else that counts.
Same(s, t) == t \in Seq(ResponseEvents) /\ \A T \in SUBSET Telltale : Count(t, T) = Count(s, T)
More(s, t, e) ==
  /\ t \in Seq(ResponseEvents) /\ e \in Telltale
  /\ \A T \in SUBSET Telltale : Count(t, T) = Count(s, T) + (IF e \in T THEN 1 ELSE 0)

\* An event more.
LEMMA SameAppend ==
  ASSUME NEW s \in Seq(ResponseEvents), NEW e \in ResponseEvents
  PROVE  /\ Append(s, e) \in Seq(ResponseEvents)
         /\ e \notin Telltale => Same(s, Append(s, e))
         /\ e \in Telltale => More(s, Append(s, e), e)
  <1>1. Append(s, e) \in Seq(ResponseEvents)
    BY AppendFacts
  <1>2. ASSUME NEW T \in SUBSET Telltale
        PROVE  /\ Count(Append(s, e), T) = Count(s, T) + (IF e \in T THEN 1 ELSE 0)
               /\ Count(s, T) \in Nat
    BY CountAppend
  <1>3. ASSUME e \notin Telltale PROVE Same(s, Append(s, e))
    <2>1. ASSUME NEW T \in SUBSET Telltale PROVE Count(Append(s, e), T) = Count(s, T)
      BY <1>2, <1>3
    <2>2. QED
      BY <1>1, <2>1 DEF Same
  <1>4. ASSUME e \in Telltale PROVE More(s, Append(s, e), e)
    BY <1>1, <1>2, <1>4 DEF More
  <1>5. QED
    BY <1>1, <1>3, <1>4

\* Nothing, twice nothing, and something between nothing.
LEMMA SameParts ==
  /\ \A s \in Seq(ResponseEvents) : Same(s, s)
  /\ \A s, t, u : Same(s, t) /\ Same(t, u) => Same(s, u)
  /\ \A s, t, u, e : Same(s, t) /\ More(t, u, e) => More(s, u, e)
  /\ \A s, t, u, e : More(s, t, e) /\ Same(t, u) => More(s, u, e)
  BY DEF Same, More

\* The sets that are counted.
LEMMA CountedSets ==
  /\ ItemDeltas("reasoning") \subseteq Telltale /\ ItemDeltas("text") \subseteq Telltale
  /\ Completions \subseteq Telltale /\ \A u : CompletionsOf(u) \subseteq Telltale
  BY DEF ItemDeltas, Completions, CompletionsOf, Telltale

\* The fields of the events.
LEMMA ResponseEvent ==
  ASSUME NEW type \in {"created", "added", "delta", "done", "completed", "end", "error"},
         NEW kind \in Items \cup {"response"}, NEW n \in Nat, NEW m \in Nat
  PROVE  /\ Event(type, kind, n, m) \in ResponseEvents
         /\ Event(type, kind, n, m).type = type /\ Event(type, kind, n, m).kind = kind
  <1>1. <<>> \in Seq(OutputType)
    BY EmptySeq
  <1>2. QED
    BY <1>1 DEF Event, ResponseEvents

\* The items that have been added have the indexes below the next.
AddedItems(a) == {k \in Items : a.item[k].state # "none"}
Numbered(a) == a.next = Cardinality(AddedItems(a))

\* The items are finitely many.
LEMMA ItemsFinite ==
  /\ IsFiniteSet(Items) /\ Cardinality(Items) \in Nat
  /\ \A a : IsFiniteSet(AddedItems(a)) /\ Cardinality(AddedItems(a)) \in Nat
            /\ Cardinality(AddedItems(a)) <= Cardinality(Items)
  <1>1. IsFiniteSet({"reasoning", "text"})
    <2>1. IsFiniteSet({"reasoning"}) /\ IsFiniteSet({"text"})
      BY FS_Singleton
    <2>2. {"reasoning", "text"} = {"reasoning"} \cup {"text"}
      OBVIOUS
    <2>3. IsFiniteSet({"reasoning"} \cup {"text"})
      BY <2>1, FS_Union
    <2>4. QED
      BY <2>2, <2>3
  <1>2. IsFiniteSet(Calls)
    BY CallsAssumption
  <1>3. IsFiniteSet(Items)
    BY <1>1, <1>2, FS_Union DEF Items
  <1>4. ASSUME NEW a PROVE IsFiniteSet(AddedItems(a)) /\ Cardinality(AddedItems(a)) <= Cardinality(Items)
    <2>1. AddedItems(a) \subseteq Items
      BY DEF AddedItems
    <2>2. QED
      BY <1>3, <2>1, FS_Subset
  <1>5. QED
    BY <1>3, <1>4, FS_CardinalityType

\* Reasoning, text and calls are apart.
LEMMA ItemKinds ==
  /\ "reasoning" \in Items /\ "text" \in Items /\ Calls \subseteq Items
  /\ "reasoning" \notin Calls /\ "text" \notin Calls
  BY CallsAssumption DEF Items

\* What opening, growing and closing an item make of the adapter.
LEMMA AddItemEffect ==
  ASSUME NEW a \in ResponsesType, NEW k \in Items
  PROVE  LET b == AddItem(a, k)
         IN  /\ b \in ResponsesType /\ Same(a.sent, b.sent)
             /\ b.calls = a.calls /\ b.full = a.full /\ b.thought = a.thought
             /\ b.buffered = a.buffered /\ b.deferred = a.deferred /\ b.completed = a.completed
             /\ b.item[k].state = "open" /\ \A j \in Items : j # k => b.item[j] = a.item[j]
             /\ a.item[k].state = "none" /\ Numbered(a) => Numbered(b)
             /\ b.sent # <<>>
  <1> DEFINE i == [state |-> "open", index |-> a.next, size |-> 0]
             e == Event("added", k, a.next, 0)
             w == [a.item EXCEPT ![k] = i]
             b == AddItem(a, k)
  <1>1. a.next \in Nat /\ a.item \in [Items -> ItemType] /\ a.sent \in Seq(ResponseEvents)
    BY DEF ResponsesType
  <1>2. i \in ItemType /\ i.state = "open"
    BY <1>1 DEF ItemType
  <1>3. e \in ResponseEvents /\ e \notin Telltale
    <2>1. e \in ResponseEvents /\ e.type = "added"
      BY <1>1, ResponseEvent
    <2> HIDE DEF e
    <2>2. QED
      BY <2>1 DEF Telltale
  <1>4. b = [a EXCEPT !.item = w, !.next = a.next + 1, !.sent = Append(a.sent, e)]
    BY DEF AddItem, Emit, ResponsesType
  <1> HIDE DEF i, e, b
  <1>5. w \in [Items -> ItemType] /\ w[k] = i /\ \A j \in Items : j # k => w[j] = a.item[j]
    BY <1>1, <1>2
  <1> HIDE DEF w
  <1>6. Append(a.sent, e) \in Seq(ResponseEvents) /\ Same(a.sent, Append(a.sent, e)) /\ Append(a.sent, e) # <<>>
    BY <1>1, <1>3, SameAppend
  <1>7. /\ b \in ResponsesType /\ b.sent = Append(a.sent, e) /\ b.next = a.next + 1 /\ b.item = w
        /\ b.calls = a.calls /\ b.full = a.full /\ b.thought = a.thought
        /\ b.buffered = a.buffered /\ b.deferred = a.deferred /\ b.completed = a.completed
    <2> DEFINE n == a.next + 1
               s == Append(a.sent, e)
    <2>1. n \in Nat /\ s \in Seq(ResponseEvents) /\ b = [a EXCEPT !.item = w, !.next = n, !.sent = s]
      BY <1>1, <1>4, <1>6
    <2> HIDE DEF n, s
    <2>2. /\ b \in ResponsesType /\ b.sent = s /\ b.next = n /\ b.item = w
          /\ b.calls = a.calls /\ b.full = a.full /\ b.thought = a.thought
          /\ b.buffered = a.buffered /\ b.deferred = a.deferred /\ b.completed = a.completed
      BY <1>5, <2>1 DEF ResponsesType
    <2>3. QED
      BY <2>2 DEF n, s
  <1>8. ASSUME a.item[k].state = "none", Numbered(a) PROVE Numbered(b)
    <2>1. AddedItems(b) = AddedItems(a) \cup {k} /\ k \notin AddedItems(a)
      BY <1>2, <1>5, <1>7, <1>8 DEF AddedItems
    <2>2. Cardinality(AddedItems(a) \cup {k}) = Cardinality(AddedItems(a)) + 1
      BY <2>1, ItemsFinite, FS_AddElement
    <2>3. QED
      BY <1>7, <1>8, <2>1, <2>2 DEF Numbered
  <1>9. QED
    BY <1>2, <1>5, <1>6, <1>7, <1>8 DEF b

\* A delta.
LEMMA GrowEffect ==
  ASSUME NEW a \in ResponsesType, NEW k \in Items
  PROVE  LET b == Grow(a, k)
             e == Event("delta", k, a.item[k].index, 1)
         IN  /\ b \in ResponsesType
             /\ k \in Calls => Same(a.sent, b.sent)
             /\ k \in {"reasoning", "text"} => More(a.sent, b.sent, e) /\ e \in ItemDeltas(k)
             /\ b.calls = a.calls /\ b.full = a.full /\ b.thought = a.thought
             /\ b.buffered = a.buffered /\ b.deferred = a.deferred /\ b.completed = a.completed
             /\ \A j \in Items : b.item[j].state = a.item[j].state
             /\ \A j \in Items : j # k => b.item[j] = a.item[j]
             /\ Numbered(a) => Numbered(b)
             /\ b.sent # <<>>
  <1> DEFINE n == a.item[k].index
             i == [a.item[k] EXCEPT !.size = @ + 1]
             e == Event("delta", k, n, 1)
             w == [a.item EXCEPT ![k] = i]
             b == Grow(a, k)
  <1>1. a.item \in [Items -> ItemType] /\ a.sent \in Seq(ResponseEvents) /\ a.item[k] \in ItemType /\ n \in Nat
    BY DEF ResponsesType, ItemType
  <1>2. i \in ItemType /\ i.state = a.item[k].state
    BY <1>1 DEF ItemType
  <1>3. b = [a EXCEPT !.item = w, !.sent = Append(a.sent, e)]
    BY <1>1 DEF Grow, Emit, ResponsesType
  <1>4. e \in ResponseEvents /\ e.type = "delta" /\ e.kind = k
    <2>1. 1 \in Nat /\ k \in Items \cup {"response"}
      OBVIOUS
    <2> HIDE DEF n
    <2>2. QED
      BY <1>1, <2>1, ResponseEvent
  <1> HIDE DEF i, e, b
  <1>5. w \in [Items -> ItemType] /\ w[k] = i /\ \A j \in Items : j # k => w[j] = a.item[j]
    BY <1>1, <1>2
  <1> HIDE DEF w
  <1>6. /\ Append(a.sent, e) \in Seq(ResponseEvents) /\ Append(a.sent, e) # <<>>
        /\ (e \notin Telltale => Same(a.sent, Append(a.sent, e)))
        /\ (e \in Telltale => More(a.sent, Append(a.sent, e), e))
    BY <1>1, <1>4, SameAppend
  <1>7. /\ b \in ResponsesType /\ b.sent = Append(a.sent, e) /\ b.item = w /\ b.next = a.next
        /\ b.calls = a.calls /\ b.full = a.full /\ b.thought = a.thought
        /\ b.buffered = a.buffered /\ b.deferred = a.deferred /\ b.completed = a.completed
    BY <1>1, <1>3, <1>5, <1>6 DEF ResponsesType
  <1>8. \A j \in Items : b.item[j].state = a.item[j].state
    BY <1>2, <1>5, <1>7
  <1>9. Numbered(a) => Numbered(b)
    <2>1. AddedItems(b) = AddedItems(a)
      BY <1>8 DEF AddedItems
    <2>2. QED
      BY <1>7, <2>1 DEF Numbered
  <1>10. k \in Calls => e \notin Telltale
    BY <1>4, ItemKinds DEF Telltale
  <1>11. k \in {"reasoning", "text"} => e \in Telltale /\ e \in ItemDeltas(k)
    BY <1>4 DEF Telltale, ItemDeltas
  <1>12. QED
    BY <1>5, <1>6, <1>7, <1>8, <1>9, <1>10, <1>11 DEF b, e

\* The done events of an open item.
LEMMA CloseItemEffect ==
  ASSUME NEW a \in ResponsesType, NEW k \in Items, NEW m \in Nat, a.item[k].state = "open"
  PROVE  LET b == CloseItem(a, k, m)
         IN  /\ b \in ResponsesType /\ Same(a.sent, b.sent)
             /\ b.calls = a.calls /\ b.full = a.full /\ b.thought = a.thought
             /\ b.buffered = a.buffered /\ b.deferred = a.deferred /\ b.completed = a.completed
             /\ b.item[k].state # "none" /\ \A j \in Items : j # k => b.item[j] = a.item[j]
             /\ Numbered(a) => Numbered(b)
             /\ b.sent # <<>>
  <1> DEFINE n == a.item[k].index
             i == [a.item[k] EXCEPT !.state = "closed"]
             e == Event("done", k, n, m)
             w == [a.item EXCEPT ![k] = i]
             b == CloseItem(a, k, m)
  <1>1. a.item \in [Items -> ItemType] /\ a.sent \in Seq(ResponseEvents) /\ a.item[k] \in ItemType /\ n \in Nat
    BY DEF ResponsesType, ItemType
  <1>2. i \in ItemType /\ i.state = "closed"
    BY <1>1 DEF ItemType
  <1>3. b = [a EXCEPT !.item = w, !.sent = Append(a.sent, e)]
    BY <1>1 DEF CloseItem, Emit, ResponsesType
  <1>4. e \in ResponseEvents /\ e \notin Telltale
    <2>1. k \in Items \cup {"response"}
      OBVIOUS
    <2> HIDE DEF n
    <2>2. Event("done", k, n, m) \in ResponseEvents /\ Event("done", k, n, m).type = "done"
      BY <1>1, <2>1, ResponseEvent
    <2>3. e \in ResponseEvents /\ e.type = "done"
      BY <2>2 DEF n
    <2> HIDE DEF e
    <2>4. QED
      BY <2>3 DEF Telltale
  <1> HIDE DEF i, e, b
  <1>5. w \in [Items -> ItemType] /\ w[k] = i /\ \A j \in Items : j # k => w[j] = a.item[j]
    BY <1>1, <1>2
  <1> HIDE DEF w
  <1>6. Append(a.sent, e) \in Seq(ResponseEvents) /\ Append(a.sent, e) # <<>> /\ Same(a.sent, Append(a.sent, e))
    BY <1>1, <1>4, SameAppend
  <1>7. /\ b \in ResponsesType /\ b.sent = Append(a.sent, e) /\ b.item = w /\ b.next = a.next
        /\ b.calls = a.calls /\ b.full = a.full /\ b.thought = a.thought
        /\ b.buffered = a.buffered /\ b.deferred = a.deferred /\ b.completed = a.completed
    BY <1>1, <1>3, <1>5, <1>6 DEF ResponsesType
  <1>8. Numbered(a) => Numbered(b)
    <2>1. AddedItems(b) = AddedItems(a)
      BY <1>2, <1>5, <1>7 DEF AddedItems
    <2>2. QED
      BY <1>7, <2>1 DEF Numbered
  <1>9. QED
    BY <1>2, <1>5, <1>6, <1>7, <1>8 DEF b

-----------------------------------------------------------------------------
(* The Responses API: calls.                                               *)

\* b differs from a by calls and events that do not count.
Calm(a, b) ==
  /\ b \in ResponsesType /\ Same(a.sent, b.sent)
  /\ b.full = a.full /\ b.thought = a.thought /\ b.buffered = a.buffered
  /\ b.deferred = a.deferred /\ b.completed = a.completed
  /\ b.item["reasoning"] = a.item["reasoning"] /\ b.item["text"] = a.item["text"]
  /\ Numbered(a) => Numbered(b)

\* The calls that have been added.
Opened(a) == {k \in Calls : a.item[k].state # "none"}

\* Steps that add up.
LEMMA CalmParts ==
  /\ \A a \in ResponsesType : Calm(a, a)
  /\ \A a, b, c : Calm(a, b) /\ Calm(b, c) => Calm(a, c)
  <1>1. \A a \in ResponsesType : Calm(a, a)
    BY SameParts DEF Calm, ResponsesType
  <1>2. \A a, b, c : Calm(a, b) /\ Calm(b, c) => Calm(a, c)
    BY SameParts DEF Calm
  <1>3. QED
    BY <1>1, <1>2

\* An entry of a chunk.
LEMMA ToolEntryEffect ==
  ASSUME NEW a \in ResponsesType, NEW t \in ToolType
  PROVE  LET b == ToolEntry(a, t)
         IN  /\ b \in ResponsesType
             /\ (t.start => t.call \notin Opened(a)) => Calm(a, b)
             /\ Opened(b) \subseteq Opened(a) \cup (IF t.start THEN {t.call} ELSE {})
  <1> DEFINE k == t.call
             x == AddItem(a, k)
             y == [x EXCEPT !.calls = Append(@, k)]
             b == IF t.start THEN y ELSE a
             c == IF t.args = "none" THEN b ELSE Grow(b, k)
             d == IF t.args = "last" /\ c.item[k].state = "open" THEN CloseItem(c, k, c.item[k].size) ELSE c
  <1>1. k \in Calls /\ k \in Items /\ k \notin {"reasoning", "text"}
    BY ItemKinds DEF ToolType
  <1>0. t.start \in BOOLEAN
    BY DEF ToolType
  <1>2. /\ b \in ResponsesType
        /\ (t.start => k \notin Opened(a)) => Calm(a, b)
        /\ Opened(b) \subseteq Opened(a) \cup (IF t.start THEN {k} ELSE {})
    <2>1. CASE t.start
      <3>1. /\ x \in ResponsesType /\ Same(a.sent, x.sent)
            /\ x.calls = a.calls /\ x.full = a.full /\ x.thought = a.thought
            /\ x.buffered = a.buffered /\ x.deferred = a.deferred /\ x.completed = a.completed
            /\ x.item[k].state = "open" /\ \A j \in Items : j # k => x.item[j] = a.item[j]
            /\ a.item[k].state = "none" /\ Numbered(a) => Numbered(x)
        BY <1>1, AddItemEffect
      <3> HIDE DEF x, k
      <3>2. Append(x.calls, k) \in Seq(Calls)
        <4>1. x.calls \in Seq(Calls)
          BY <3>1 DEF ResponsesType
        <4>2. QED
          BY <1>1, <4>1, AppendFacts
      <3>3. /\ y \in ResponsesType /\ y.sent = x.sent /\ y.full = x.full /\ y.thought = x.thought
            /\ y.buffered = x.buffered /\ y.deferred = x.deferred /\ y.completed = x.completed
            /\ y.item = x.item /\ y.next = x.next
        BY <3>1, <3>2 DEF ResponsesType
      <3> HIDE DEF y
      <3>4. Numbered(x) => Numbered(y)
        BY <3>3 DEF Numbered, AddedItems
      <3>5. k \notin Opened(a) => Calm(a, y)
        <4>1. ASSUME k \notin Opened(a) PROVE Calm(a, y)
          <5>1. a.item[k].state = "none"
            BY <1>1, <4>1 DEF Opened
          <5>2. y.item["reasoning"] = a.item["reasoning"] /\ y.item["text"] = a.item["text"]
            BY <1>1, <3>1, <3>3, ItemKinds
          <5>3. QED
            BY <3>1, <3>3, <3>4, <5>1, <5>2 DEF Calm
        <4>2. QED
          BY <4>1
      <3>6. Opened(y) \subseteq Opened(a) \cup {k}
        BY <3>1, <3>3, ItemKinds DEF Opened
      <3>7. QED
        BY <2>1, <3>3, <3>5, <3>6
    <2>2. CASE ~t.start
      BY <1>0, <2>2, CalmParts
    <2>3. QED
      BY <2>1, <2>2
  <1> HIDE DEF b
  <1>3. c \in ResponsesType /\ Calm(b, c) /\ Opened(c) \subseteq Opened(b)
    <2>1. CASE t.args = "none"
      BY <1>2, <2>1, CalmParts
    <2>2. CASE t.args # "none"
      <3>1. /\ Grow(b, k) \in ResponsesType /\ Same(b.sent, Grow(b, k).sent)
            /\ Grow(b, k).full = b.full /\ Grow(b, k).thought = b.thought
            /\ Grow(b, k).buffered = b.buffered /\ Grow(b, k).deferred = b.deferred
            /\ Grow(b, k).completed = b.completed
            /\ \A j \in Items : Grow(b, k).item[j].state = b.item[j].state
            /\ \A j \in Items : j # k => Grow(b, k).item[j] = b.item[j]
            /\ Numbered(b) => Numbered(Grow(b, k))
        BY <1>1, <1>2, GrowEffect
      <3>2. c = Grow(b, k)
        BY <2>2
      <3> HIDE DEF c, k
      <3>3. Calm(b, c)
        BY <1>1, <3>1, <3>2, ItemKinds DEF Calm
      <3>4. Opened(c) \subseteq Opened(b)
        BY <3>1, <3>2, ItemKinds DEF Opened
      <3>5. QED
        BY <3>1, <3>2, <3>3, <3>4
    <2>3. QED
      BY <2>1, <2>2
  <1> HIDE DEF c
  <1>4. d \in ResponsesType /\ Calm(c, d) /\ Opened(d) \subseteq Opened(c)
    <2>1. CASE t.args = "last" /\ c.item[k].state = "open"
      <3> DEFINE m == c.item[k].size
      <3>1. m \in Nat
        BY <1>1, <1>3 DEF ResponsesType, ItemType
      <3>2. d = CloseItem(c, k, m)
        BY <2>1
      <3> HIDE DEF m
      <3>3. /\ CloseItem(c, k, m) \in ResponsesType /\ Same(c.sent, CloseItem(c, k, m).sent)
            /\ CloseItem(c, k, m).full = c.full /\ CloseItem(c, k, m).thought = c.thought
            /\ CloseItem(c, k, m).buffered = c.buffered /\ CloseItem(c, k, m).deferred = c.deferred
            /\ CloseItem(c, k, m).completed = c.completed
            /\ \A j \in Items : j # k => CloseItem(c, k, m).item[j] = c.item[j]
            /\ Numbered(c) => Numbered(CloseItem(c, k, m))
        BY <1>1, <1>3, <2>1, <3>1, CloseItemEffect
      <3> HIDE DEF d, k
      <3>4. Calm(c, d)
        BY <1>1, <3>2, <3>3, ItemKinds DEF Calm
      <3>5. Opened(d) \subseteq Opened(c)
        BY <1>1, <2>1, <3>2, <3>3, ItemKinds DEF Opened
      <3>6. QED
        BY <3>2, <3>3, <3>4, <3>5
    <2>2. CASE ~(t.args = "last" /\ c.item[k].state = "open")
      BY <1>3, <2>2, CalmParts
    <2>3. QED
      BY <2>1, <2>2
  <1>5. ToolEntry(a, t) = d
    BY DEF ToolEntry, d, c, b, y, x, k
  <1> HIDE DEF d, k
  <1>6. (t.start => k \notin Opened(a)) => Calm(a, d)
    BY <1>2, <1>3, <1>4, CalmParts
  <1>7. QED
    BY <1>2, <1>3, <1>4, <1>5, <1>6 DEF k

\* All entries of a chunk, when the calls it starts are new and each its own.
Fresh(a, u) ==
  /\ \A i \in DOMAIN u : u[i].start => u[i].call \notin Opened(a)
  /\ \A i, j \in DOMAIN u : i # j => u[i].call # u[j].call
Starting(u) == {k \in Calls : \E i \in DOMAIN u : u[i].start /\ u[i].call = k}

\* All entries of a chunk add calls and nothing that counts.
LEMMA ToolEntriesEffect ==
  ASSUME NEW a \in ResponsesType, NEW u \in Seq(ToolType), Fresh(a, u)
  PROVE  Calm(a, ToolEntries(a, u)) /\ Opened(ToolEntries(a, u)) \subseteq Opened(a) \cup Starting(u)
  <1> DEFINE n == Len(u)
             S == ResponsesType
             Turn(x, i) == ToolEntry(x, u[i])
             F == [p \in S \X (1..n) |-> Turn(p[1], p[2])]
             Def(h) == h = [i \in 0..n |-> IF i = 0 THEN a ELSE Turn(h[i - 1], i)]
  <1>1. n \in Nat /\ DOMAIN u = 1..n /\ \A i \in 1..n : u[i] \in ToolType
    BY ElementOfSeq, LenProperties
  <1>2. \A x \in S : \A i \in 1..n : Turn(x, i) \in S
    BY <1>1, ToolEntryEffect
  <1>3. ToolEntries(a, u) = (CHOOSE h : Def(h))[n]
    BY DEF ToolEntries
  <1>4. \A x \in S : \A i \in 1..n : F[<<x, i>>] = Turn(x, i)
    <2> HIDE DEF Turn, n, S
    <2>1. QED
      OBVIOUS
  <1> HIDE DEF F, Turn, n, S
  <1>5. PICK g \in [0..n -> S] : g[0] = a /\ \A i \in 1..n : g[i] = F[<<g[i - 1], i>>]
    <2>1. \A x \in S : \A i \in 1..n : F[<<x, i>>] \in S
      BY <1>2, <1>4
    <2>2. a \in S
      BY DEF S
    <2>3. \E g : Stepwise(g, S, a, n, F)
      BY <1>1, <2>1, <2>2, StepwiseDef
    <2>4. QED
      BY <2>3 DEF Stepwise
  <1>6. Def(g)
    <2>1. ASSUME NEW i \in 0..n PROVE g[i] = IF i = 0 THEN a ELSE Turn(g[i - 1], i)
      <3>1. CASE i = 0
        BY <1>5, <3>1
      <3>2. CASE i # 0
        <4>1. i \in 1..n /\ g[i - 1] \in S
          BY <1>1, <1>5, <3>2
        <4>2. QED
          BY <1>4, <1>5, <3>2, <4>1
      <3>3. QED
        BY <3>1, <3>2
    <2>2. QED
      BY <1>5, <2>1
  <1>7. ASSUME NEW h, Def(h) PROVE Calm(a, h[n]) /\ Opened(h[n]) \subseteq Opened(a) \cup Starting(u)
    <2>1. h[0] = a /\ \A i \in 1..n : h[i] = Turn(h[i - 1], i)
      BY <1>1, <1>7
    <2> DEFINE Up(i) == {k \in Calls : \E j \in 1..i : u[j].start /\ u[j].call = k}
               Good == {i \in 0..n : Calm(a, h[i]) /\ Opened(h[i]) \subseteq Opened(a) \cup Up(i)}
    <2>2. 0 \in Good
      <3>1. Calm(a, a)
        BY CalmParts
      <3>2. QED
        BY <1>1, <2>1, <3>1
    <2>3. ASSUME NEW i \in 0..(n - 1), i \in Good PROVE i + 1 \in Good
      <3>1. i + 1 \in 1..n /\ (i + 1) - 1 = i /\ i \in Nat
        BY <1>1, <2>3
      <3> DEFINE x == h[i]
                 t == u[i + 1]
      <3>2. Calm(a, x) /\ Opened(x) \subseteq Opened(a) \cup Up(i) /\ x \in ResponsesType
        BY <2>3 DEF Calm
      <3>3. h[i + 1] = ToolEntry(x, t) /\ t \in ToolType
        BY <1>1, <2>1, <3>1 DEF Turn
      <3>4. t.start => t.call \notin Opened(x)
        <4>1. SUFFICES ASSUME t.start PROVE t.call \notin Opened(a) /\ t.call \notin Up(i)
          BY <3>2
        <4>2. t.call \notin Opened(a)
          BY <1>1, <3>1, <4>1 DEF Fresh
        <4>3. \A j \in 1..i : j \in 1..n /\ j # i + 1
          BY <1>1, <3>1
        <4>4. \A j \in 1..i : u[j].call # t.call
          BY <1>1, <3>1, <4>3 DEF Fresh
        <4>5. QED
          BY <4>2, <4>4
      <3> HIDE DEF x, t
      <3>5. Calm(x, ToolEntry(x, t)) /\ Opened(ToolEntry(x, t)) \subseteq Opened(x) \cup (IF t.start THEN {t.call} ELSE {})
        BY <3>2, <3>3, <3>4, ToolEntryEffect
      <3>6. Calm(a, h[i + 1])
        BY <3>2, <3>3, <3>5, CalmParts
      <3>7. Up(i) \subseteq Up(i + 1)
        BY <3>1
      <3>8. t.start => t.call \in Up(i + 1)
        BY <3>1, <3>3 DEF t, ToolType
      <3>9. Opened(h[i + 1]) \subseteq Opened(a) \cup Up(i + 1)
        <4> HIDE DEF Up
        <4>1. QED
          BY <3>2, <3>3, <3>5, <3>7, <3>8
      <3>10. QED
        BY <3>1, <3>6, <3>9
    <2> HIDE DEF Good
    <2>4. \A i \in 0..n : i \in Good
      BY <1>1, <2>2, <2>3, UpToInduction
    <2>5. n \in Good
      BY <1>1, <2>4
    <2>6. Up(n) = Starting(u)
      BY <1>1 DEF Starting
    <2>7. QED
      BY <2>5, <2>6 DEF Good
  <1> HIDE DEF Def
  <1>8. Def(CHOOSE h : Def(h))
    BY <1>6
  <1>9. QED
    BY <1>3, <1>7, <1>8

\* The calls that never parsed.
LEMMA CloseCallsEffect ==
  ASSUME NEW a \in ResponsesType
  PROVE  Calm(a, CloseCalls(a)) /\ Opened(CloseCalls(a)) \subseteq Opened(a)
  <1> DEFINE u == a.calls
             n == Len(u)
             S == ResponsesType
             Turn(x, i) == IF NeedsClose(x, u[i]) THEN CloseItem(x, u[i], x.item[u[i]].size) ELSE x
             F == [p \in S \X (1..n) |-> Turn(p[1], p[2])]
             Def(h) == h = [i \in 0..n |-> IF i = 0 THEN a ELSE Turn(h[i - 1], i)]
  <1>0. u \in Seq(Calls)
    BY DEF ResponsesType
  <1>1. n \in Nat /\ DOMAIN u = 1..n /\ \A i \in 1..n : u[i] \in Calls
    BY <1>0, ElementOfSeq, LenProperties
  <1>2. ASSUME NEW x \in S, NEW i \in 1..n
        PROVE  Turn(x, i) \in S /\ Calm(x, Turn(x, i)) /\ Opened(Turn(x, i)) \subseteq Opened(x)
    <2> DEFINE k == u[i]
               m == x.item[k].size
    <2>1. k \in Calls /\ k \in Items /\ k \notin {"reasoning", "text"} /\ m \in Nat
      <3>1. k \in Calls
        BY <1>1
      <3>2. k \in Items /\ k \notin {"reasoning", "text"}
        BY <3>1, ItemKinds
      <3> HIDE DEF k
      <3>3. x \in ResponsesType
        OBVIOUS
      <3>4. QED
        BY <3>1, <3>2, <3>3 DEF ResponsesType, ItemType
    <2>2. CASE NeedsClose(x, k)
      <3>1. x.item[k].state = "open" /\ Turn(x, i) = CloseItem(x, k, m)
        BY <2>2 DEF NeedsClose
      <3> DEFINE d == CloseItem(x, k, m)
      <3> HIDE DEF m, k, Turn
      <3>2. /\ d \in ResponsesType /\ Same(x.sent, d.sent)
            /\ d.full = x.full /\ d.thought = x.thought
            /\ d.buffered = x.buffered /\ d.deferred = x.deferred /\ d.completed = x.completed
            /\ \A j \in Items : j # k => d.item[j] = x.item[j]
            /\ Numbered(x) => Numbered(d)
        BY <2>1, <3>1, CloseItemEffect
      <3> HIDE DEF d
      <3>4. Calm(x, d)
        BY <2>1, <3>2, ItemKinds DEF Calm
      <3>5. Opened(d) \subseteq Opened(x)
        BY <2>1, <3>1, <3>2, ItemKinds DEF Opened
      <3>6. QED
        BY <3>1, <3>2, <3>4, <3>5 DEF d
    <2>3. CASE ~NeedsClose(x, k)
      BY <2>3, CalmParts
    <2>4. QED
      BY <2>2, <2>3
  <1>3. CloseCalls(a) = (CHOOSE h : Def(h))[n]
    BY DEF CloseCalls
  <1>4. \A x \in S : \A i \in 1..n : F[<<x, i>>] = Turn(x, i)
    <2> HIDE DEF Turn, n, S
    <2>1. QED
      OBVIOUS
  <1> HIDE DEF F, Turn, n, S
  <1>5. PICK g \in [0..n -> S] : g[0] = a /\ \A i \in 1..n : g[i] = F[<<g[i - 1], i>>]
    <2>1. \A x \in S : \A i \in 1..n : F[<<x, i>>] \in S
      BY <1>2, <1>4
    <2>2. a \in S
      BY DEF S
    <2>3. \E g : Stepwise(g, S, a, n, F)
      BY <1>1, <2>1, <2>2, StepwiseDef
    <2>4. QED
      BY <2>3 DEF Stepwise
  <1>6. Def(g)
    <2>1. ASSUME NEW i \in 0..n PROVE g[i] = IF i = 0 THEN a ELSE Turn(g[i - 1], i)
      <3>1. CASE i = 0
        BY <1>5, <3>1
      <3>2. CASE i # 0
        <4>1. i \in 1..n /\ g[i - 1] \in S
          BY <1>1, <1>5, <3>2
        <4>2. QED
          BY <1>4, <1>5, <3>2, <4>1
      <3>3. QED
        BY <3>1, <3>2
    <2>2. QED
      BY <1>5, <2>1
  <1>7. ASSUME NEW h, Def(h) PROVE Calm(a, h[n]) /\ Opened(h[n]) \subseteq Opened(a)
    <2>1. h[0] = a /\ \A i \in 1..n : h[i] = Turn(h[i - 1], i)
      BY <1>1, <1>7
    <2> DEFINE Good == {i \in 0..n : Calm(a, h[i]) /\ Opened(h[i]) \subseteq Opened(a)}
    <2>2. 0 \in Good
      <3>1. Calm(a, a)
        BY CalmParts
      <3>2. QED
        BY <1>1, <2>1, <3>1
    <2>3. ASSUME NEW i \in 0..(n - 1), i \in Good PROVE i + 1 \in Good
      <3>1. i + 1 \in 1..n /\ (i + 1) - 1 = i /\ i + 1 \in 0..n
        BY <1>1, <2>3
      <3>2. Calm(a, h[i]) /\ Opened(h[i]) \subseteq Opened(a) /\ h[i] \in S
        BY <2>3 DEF Calm, S
      <3>3. h[i + 1] = Turn(h[i], i + 1)
        BY <2>1, <3>1
      <3>4. Calm(h[i], h[i + 1]) /\ Opened(h[i + 1]) \subseteq Opened(h[i])
        BY <1>2, <3>1, <3>2, <3>3
      <3>5. Calm(a, h[i + 1])
        BY <3>2, <3>4, CalmParts
      <3>6. QED
        BY <3>1, <3>2, <3>4, <3>5
    <2> HIDE DEF Good
    <2>4. \A i \in 0..n : i \in Good
      BY <1>1, <2>2, <2>3, UpToInduction
    <2>5. n \in Good
      BY <1>1, <2>4
    <2>6. QED
      BY <2>5 DEF Good
  <1> HIDE DEF Def
  <1>8. Def(CHOOSE h : Def(h))
    BY <1>6
  <1>9. QED
    BY <1>3, <1>7, <1>8

-----------------------------------------------------------------------------
(* The Responses API: the finish.                                          *)

\* What the completed response lists.
LEMMA OutputTypes ==
  ASSUME NEW a \in ResponsesType, NEW n \in Nat
  PROVE  /\ \A k \in {"reasoning", "text"} : OutputOf(k, n) \in Seq(OutputType)
         /\ CallsOutput(a) \in Seq(OutputType)
         /\ <<[kind |-> "upstream", size |-> 0]>> \in Seq(OutputType)
         /\ <<[kind |-> "text", size |-> n]>> \in Seq(OutputType)
         /\ <<>> \in Seq(OutputType)
  <1>1. <<>> \in Seq(OutputType)
    BY EmptySeq
  <1>2. ASSUME NEW x \in OutputType PROVE <<x>> \in Seq(OutputType)
    OBVIOUS
  <1>3. ASSUME NEW k \in Items \cup {"upstream"}, NEW m \in Nat PROVE <<[kind |-> k, size |-> m]>> \in Seq(OutputType)
    <2>1. [kind |-> k, size |-> m] \in OutputType
      BY DEF OutputType
    <2>2. QED
      BY <1>2, <2>1
  <1>4. \A k \in {"reasoning", "text"} : OutputOf(k, n) \in Seq(OutputType)
    <2>1. ASSUME NEW k \in {"reasoning", "text"} PROVE OutputOf(k, n) \in Seq(OutputType)
      <3>1. <<[kind |-> k, size |-> n]>> \in Seq(OutputType)
        BY <1>3, ItemKinds
      <3>2. QED
        BY <1>1, <3>1 DEF OutputOf
    <2>2. QED
      BY <2>1
  <1>5. CallsOutput(a) \in Seq(OutputType)
    <2> DEFINE m == Len(a.calls)
    <2>1. a.calls \in Seq(Calls) /\ a.item \in [Items -> ItemType]
      BY DEF ResponsesType
    <2>2. m \in Nat /\ \A i \in 1..m : a.calls[i] \in Calls
      BY <2>1, ElementOfSeq, LenProperties
    <2> HIDE DEF m
    <2>3. \A i \in 1..m : [kind |-> a.calls[i], size |-> a.item[a.calls[i]].size] \in OutputType
      BY <2>1, <2>2, ItemKinds DEF ItemType, OutputType
    <2>4. CallsOutput(a) \in [1..m -> OutputType]
      BY <2>3 DEF CallsOutput, m
    <2>5. QED
      BY <2>2, <2>4
  <1>6. QED
    BY <1>1, <1>3, <1>4, <1>5, ItemKinds

\* response.completed
LEMMA CompleteEffect ==
  ASSUME NEW a \in ResponsesType, NEW o \in Seq(OutputType), NEW v \in SUBSET AllTokens
  PROVE  LET b == Complete(a, o, v)
         IN  /\ b \in ResponsesType /\ b.completed /\ b.deferred = a.deferred
             /\ b.item = a.item /\ b.calls = a.calls /\ b.next = a.next /\ b.full = a.full
             /\ b.thought = a.thought /\ b.buffered = a.buffered
             /\ \E e \in CompletionsOf(v) : More(a.sent, b.sent, e)
  <1> DEFINE e0 == Event("completed", "response", 0, 0)
             e == [Telling(e0, v) EXCEPT !.output = o]
             b == Complete(a, o, v)
  <1>1. e0 \in ResponseEvents /\ e0.type = "completed"
    <2>1. "response" \in Items \cup {"response"} /\ 0 \in Nat
      OBVIOUS
    <2>2. QED
      BY <2>1, ResponseEvent
  <1> HIDE DEF e0
  <1>2. Telling(e0, v) \in ResponseEvents /\ Telling(e0, v).type = "completed" /\ Telling(e0, v).usage = v
    BY <1>1 DEF Telling, ResponseEvents
  <1>3. e \in ResponseEvents /\ e.type = "completed" /\ e.usage = v
    BY <1>2 DEF ResponseEvents
  <1>4. b = [a EXCEPT !.completed = TRUE, !.sent = Append(a.sent, e)]
    BY DEF Complete, Emit, ResponsesType, e0
  <1> HIDE DEF e, b
  <1>5. e \in Telltale /\ e \in CompletionsOf(v)
    BY <1>3 DEF Telltale, CompletionsOf
  <1>6. Append(a.sent, e) \in Seq(ResponseEvents) /\ More(a.sent, Append(a.sent, e), e)
    <2>1. a.sent \in Seq(ResponseEvents)
      BY DEF ResponsesType
    <2>2. QED
      BY <1>3, <1>5, <2>1, SameAppend
  <1>7. /\ b \in ResponsesType /\ b.completed /\ b.deferred = a.deferred /\ b.sent = Append(a.sent, e)
        /\ b.item = a.item /\ b.calls = a.calls /\ b.next = a.next /\ b.full = a.full
        /\ b.thought = a.thought /\ b.buffered = a.buffered
    BY <1>4, <1>6 DEF ResponsesType
  <1>8. QED
    BY <1>5, <1>6, <1>7 DEF b

\* An event that does not count.
LEMMA EmitEffect ==
  ASSUME NEW a \in ResponsesType, NEW e \in ResponseEvents \ Telltale
  PROVE  /\ Calm(a, Emit(a, e)) /\ Emit(a, e).item = a.item /\ Emit(a, e).calls = a.calls
         /\ Emit(a, e).next = a.next
  <1> DEFINE b == Emit(a, e)
  <1>1. b = [a EXCEPT !.sent = Append(a.sent, e)]
    BY DEF Emit
  <1> HIDE DEF b
  <1>2. Append(a.sent, e) \in Seq(ResponseEvents) /\ Same(a.sent, Append(a.sent, e))
    <2>1. a.sent \in Seq(ResponseEvents)
      BY DEF ResponsesType
    <2>2. QED
      BY <2>1, SameAppend
  <1>3. /\ b \in ResponsesType /\ b.sent = Append(a.sent, e) /\ b.item = a.item /\ b.calls = a.calls
        /\ b.next = a.next /\ b.full = a.full /\ b.thought = a.thought /\ b.buffered = a.buffered
        /\ b.deferred = a.deferred /\ b.completed = a.completed
    BY <1>1, <1>2 DEF ResponsesType
  <1>4. Numbered(a) => Numbered(b)
    BY <1>3 DEF Numbered, AddedItems
  <1>5. QED
    BY <1>2, <1>3, <1>4 DEF Calm, b

\* The usage v is told, or kept to be told at the end.
Settled(a, b, v) ==
  /\ b \in ResponsesType
  /\ b.full = a.full /\ b.thought = a.thought /\ b.buffered = a.buffered
  /\ Numbered(a) => Numbered(b)
  /\ \/ b.deferred = v /\ ~b.completed /\ Same(a.sent, b.sent)
     \/ b.completed /\ b.deferred = a.deferred /\ \E e \in CompletionsOf(v) : More(a.sent, b.sent, e)

\* The finish settles its usage.
LEMMA FormatFinishEffect ==
  ASSUME NEW a \in ResponsesType, NEW u \in Seq(ToolType), Fresh(a, u), ~a.completed,
         NEW v \in SUBSET AllTokens, NEW w
  PROVE  /\ Settled(a, FormatFinish(a, u, v, w), v)
         /\ Opened(FormatFinish(a, u, v, w)) \subseteq Opened(a) \cup Starting(u)
  <1> DEFINE x == ToolEntries(a, u)
             b == CloseCalls(x)
             text == b.item["text"]
             e == Event("done", "text", text.index, b.full)
             d == IF text.state = "open" THEN Emit(b, e) ELSE b
             message == IF text.state # "none" THEN <<[kind |-> "text", size |-> b.full]>> ELSE <<>>
             full == OutputOf("reasoning", d.thought) \o message \o CallsOutput(d)
             o == IF w THEN <<[kind |-> "upstream", size |-> 0]>> ELSE full
             r == IF b.calls # <<>> /\ text.state = "none" THEN [d EXCEPT !.deferred = v]
                  ELSE IF d.completed THEN d ELSE Complete(d, o, v)
  <1>1. Calm(a, x) /\ Opened(x) \subseteq Opened(a) \cup Starting(u)
    BY ToolEntriesEffect
  <1>2. x \in ResponsesType
    BY <1>1 DEF Calm
  <1>r. FormatFinish(a, u, v, w) = r
    BY DEF FormatFinish
  <1> HIDE DEF x
  <1>3. Calm(x, b) /\ Opened(b) \subseteq Opened(x)
    BY <1>2, CloseCallsEffect
  <1>4. Calm(a, b) /\ Opened(b) \subseteq Opened(a) \cup Starting(u)
    BY <1>1, <1>3, CalmParts
  <1>5. b \in ResponsesType
    BY <1>4 DEF Calm
  <1> HIDE DEF b
  <1>6. text \in ItemType /\ text.index \in Nat /\ b.full \in Nat
    BY <1>5, ItemKinds DEF ResponsesType, ItemType
  <1>7. Calm(b, d) /\ d.item = b.item
    <2>1. CASE text.state = "open"
      <3>1. e \in ResponseEvents \ Telltale
        <4>1. "text" \in Items \cup {"response"}
          BY ItemKinds
        <4> DEFINE n == text.index
                   m == b.full
        <4>2. n \in Nat /\ m \in Nat
          BY <1>6
        <4> HIDE DEF n, m
        <4>3. Event("done", "text", n, m) \in ResponseEvents /\ Event("done", "text", n, m).type = "done"
          BY <4>1, <4>2, ResponseEvent
        <4>4. Event("done", "text", n, m) \notin Telltale
          BY <4>3 DEF Telltale
        <4>5. QED
          BY <4>3, <4>4 DEF n, m
      <3> HIDE DEF e
      <3>2. d = Emit(b, e)
        BY <2>1
      <3> HIDE DEF d
      <3>3. QED
        BY <1>5, <3>1, <3>2, EmitEffect
    <2>2. CASE text.state # "open"
      BY <1>5, <2>2, CalmParts
    <2>3. QED
      BY <2>1, <2>2
  <1> HIDE DEF d
  <1>8. Calm(a, d) /\ Opened(d) \subseteq Opened(a) \cup Starting(u)
    BY <1>4, <1>7, CalmParts DEF Opened
  <1>9. d \in ResponsesType /\ ~d.completed
    BY <1>8 DEF Calm
  <1>10. o \in Seq(OutputType)
    <2>1. d.thought \in Nat
      BY <1>9 DEF ResponsesType
    <2>2. OutputOf("reasoning", d.thought) \in Seq(OutputType) /\ message \in Seq(OutputType)
          /\ CallsOutput(d) \in Seq(OutputType) /\ <<[kind |-> "upstream", size |-> 0]>> \in Seq(OutputType)
      BY <1>6, <1>9, <2>1, OutputTypes
    <2>3. full \in Seq(OutputType)
      <3> DEFINE o1 == OutputOf("reasoning", d.thought)
                 o2 == message
                 o3 == CallsOutput(d)
      <3>1. o1 \in Seq(OutputType) /\ o2 \in Seq(OutputType) /\ o3 \in Seq(OutputType)
        BY <2>2
      <3> HIDE DEF o1, o2, o3
      <3>2. (o1 \o o2) \o o3 \in Seq(OutputType)
        <4>1. o1 \o o2 \in Seq(OutputType)
          BY <3>1, ConcatProperties
        <4>2. QED
          BY <3>1, <4>1, ConcatProperties
      <3>3. QED
        BY <3>2 DEF o1, o2, o3
    <2> HIDE DEF full
    <2>4. QED
      BY <2>2, <2>3
  <1> HIDE DEF o
  <1>11. CASE b.calls # <<>> /\ text.state = "none"
    <2> DEFINE s == [d EXCEPT !.deferred = v]
    <2>1. s = r
      BY <1>11
    <2>2. /\ s \in ResponsesType /\ s.deferred = v /\ s.completed = d.completed /\ s.sent = d.sent
          /\ s.full = d.full /\ s.thought = d.thought /\ s.buffered = d.buffered /\ s.item = d.item
          /\ s.next = d.next
      BY <1>9 DEF ResponsesType
    <2> HIDE DEF s
    <2>3. Numbered(d) => Numbered(s)
      BY <2>2 DEF Numbered, AddedItems
    <2>4. Settled(a, s, v)
      BY <1>8, <1>9, <2>2, <2>3 DEF Settled, Calm
    <2>5. Opened(s) = Opened(d)
      BY <2>2 DEF Opened
    <2> HIDE DEF r
    <2>6. QED
      BY <1>r, <1>8, <2>1, <2>4, <2>5
  <1>12. CASE ~(b.calls # <<>> /\ text.state = "none")
    <2> DEFINE s == Complete(d, o, v)
    <2>1. s = r
      BY <1>9, <1>12
    <2>2. /\ s \in ResponsesType /\ s.completed /\ s.deferred = d.deferred
          /\ s.item = d.item /\ s.next = d.next /\ s.full = d.full
          /\ s.thought = d.thought /\ s.buffered = d.buffered
          /\ \E f \in CompletionsOf(v) : More(d.sent, s.sent, f)
      BY <1>9, <1>10, CompleteEffect
    <2> HIDE DEF s
    <2>3. Numbered(d) => Numbered(s)
      BY <2>2 DEF Numbered, AddedItems
    <2>4. \E f \in CompletionsOf(v) : More(a.sent, s.sent, f)
      BY <1>8, <2>2, SameParts DEF Calm
    <2>5. Settled(a, s, v)
      BY <1>8, <1>9, <2>2, <2>3, <2>4 DEF Settled, Calm
    <2>6. Opened(s) = Opened(d)
      BY <2>2 DEF Opened
    <2> HIDE DEF r
    <2>7. QED
      BY <1>r, <1>8, <2>1, <2>5, <2>6
  <1>13. QED
    BY <1>11, <1>12

-----------------------------------------------------------------------------
(* The Responses API: what a chunk brings.                                 *)

\* b waits for the same finish as a and has numbered its items as well.
Steady(a, b) ==
  /\ b \in ResponsesType
  /\ b.buffered = a.buffered /\ b.deferred = a.deferred /\ b.completed = a.completed
  /\ Numbered(a) => Numbered(b)

\* Steps that add up, those with calls among them.
LEMMA SteadyParts ==
  /\ \A a \in ResponsesType : Steady(a, a)
  /\ \A a, b, c : Steady(a, b) /\ Steady(b, c) => Steady(a, c)
  /\ \A a, b : Calm(a, b) => Steady(a, b) /\ Same(a.sent, b.sent)
  BY DEF Steady, Calm

\* The reasoning and the text are closed when they are open.
LEMMA CloseEffect ==
  ASSUME NEW a \in ResponsesType, NEW b \in {CloseReasoning(a), CloseText(a)}
  PROVE  Steady(a, b) /\ Same(a.sent, b.sent) /\ Opened(b) \subseteq Opened(a)
  <1>1. ASSUME NEW k \in {"reasoning", "text"}, NEW m \in Nat, a.item[k].state = "open", b = CloseItem(a, k, m)
        PROVE  Steady(a, b) /\ Same(a.sent, b.sent) /\ Opened(b) \subseteq Opened(a)
    <2>1. k \in Items /\ k \notin Calls
      BY ItemKinds
    <2>2. /\ b \in ResponsesType /\ Same(a.sent, b.sent)
          /\ b.buffered = a.buffered /\ b.deferred = a.deferred /\ b.completed = a.completed
          /\ \A j \in Items : j # k => b.item[j] = a.item[j]
          /\ Numbered(a) => Numbered(b)
      BY <1>1, <2>1, CloseItemEffect
    <2>3. Opened(b) \subseteq Opened(a)
      BY <2>1, <2>2, ItemKinds DEF Opened
    <2>4. QED
      BY <2>2, <2>3 DEF Steady
  <1>2. a.full \in Nat /\ a.item["reasoning"].size \in Nat
    BY ItemKinds DEF ResponsesType, ItemType
  <1>3. CASE b = a
    <2>1. a.sent \in Seq(ResponseEvents)
      BY DEF ResponsesType
    <2>2. QED
      BY <1>3, <2>1, SteadyParts, SameParts
  <1>4. CASE b # a
    <2>1. \/ a.item["reasoning"].state = "open" /\ b = CloseItem(a, "reasoning", a.item["reasoning"].size)
          \/ a.item["text"].state = "open" /\ b = CloseItem(a, "text", a.full)
      BY <1>4 DEF CloseReasoning, CloseText
    <2>2. QED
      BY <1>1, <1>2, <2>1
  <1>5. QED
    BY <1>3, <1>4

\* A piece of reasoning or of text, in an item that is added for it.
LEMMA PieceEffect ==
  ASSUME NEW a \in ResponsesType, NEW k \in {"reasoning", "text"}
  PROVE  LET b == IF a.item[k].state = "none" THEN AddItem(a, k) ELSE a
             d == Grow(b, k)
         IN  /\ Steady(a, d) /\ Opened(d) \subseteq Opened(a)
             /\ \E e \in ItemDeltas(k) : More(a.sent, d.sent, e)
  <1> DEFINE b == IF a.item[k].state = "none" THEN AddItem(a, k) ELSE a
             d == Grow(b, k)
             e == Event("delta", k, b.item[k].index, 1)
  <1>1. k \in Items /\ k \notin Calls
    BY ItemKinds
  <1>2. Steady(a, b) /\ Same(a.sent, b.sent) /\ Opened(b) \subseteq Opened(a)
    <2>1. CASE a.item[k].state = "none"
      <3> DEFINE x == AddItem(a, k)
      <3>1. /\ x \in ResponsesType /\ Same(a.sent, x.sent)
            /\ x.buffered = a.buffered /\ x.deferred = a.deferred /\ x.completed = a.completed
            /\ \A j \in Items : j # k => x.item[j] = a.item[j]
            /\ a.item[k].state = "none" /\ Numbered(a) => Numbered(x)
        BY <1>1, AddItemEffect
      <3>2. b = x
        BY <2>1
      <3> HIDE DEF x, b
      <3>3. Opened(x) \subseteq Opened(a)
        BY <1>1, <3>1, ItemKinds DEF Opened
      <3>4. QED
        BY <2>1, <3>1, <3>2, <3>3 DEF Steady
    <2>2. CASE a.item[k].state # "none"
      <3>1. a.sent \in Seq(ResponseEvents)
        BY DEF ResponsesType
      <3>2. QED
        BY <2>2, <3>1, SteadyParts, SameParts
    <2>3. QED
      BY <2>1, <2>2
  <1> HIDE DEF b
  <1>3. b \in ResponsesType
    BY <1>2 DEF Steady
  <1>4. /\ d \in ResponsesType /\ More(b.sent, d.sent, e) /\ e \in ItemDeltas(k)
        /\ d.buffered = b.buffered /\ d.deferred = b.deferred /\ d.completed = b.completed
        /\ \A j \in Items : d.item[j].state = b.item[j].state
        /\ Numbered(b) => Numbered(d)
    BY <1>1, <1>3, GrowEffect
  <1> HIDE DEF d, e
  <1>5. Steady(a, d) /\ Opened(d) \subseteq Opened(a)
    BY <1>2, <1>4, ItemKinds DEF Steady, Opened
  <1>6. More(a.sent, d.sent, e)
    BY <1>2, <1>4, SameParts
  <1>7. QED
    BY <1>4, <1>5, <1>6 DEF d, b

\* The reasoning of a chunk.
LEMMA ReasoningPartEffect ==
  ASSUME NEW a \in ResponsesType, NEW c \in ChunkType
  PROVE  LET b == ReasoningPart(a, c)
         IN  /\ Steady(a, b) /\ Opened(b) \subseteq Opened(a)
             /\ IF c.reasoning THEN \E e \in ItemDeltas("reasoning") : More(a.sent, b.sent, e)
                ELSE Same(a.sent, b.sent)
  <1> DEFINE x == IF a.item["reasoning"].state = "none" THEN AddItem(a, "reasoning") ELSE a
             d == IF c.reasoning THEN Grow(x, "reasoning") ELSE a
             b == IF c.text THEN CloseReasoning(d) ELSE d
  <1>1. /\ Steady(a, d) /\ Opened(d) \subseteq Opened(a)
        /\ IF c.reasoning THEN \E e \in ItemDeltas("reasoning") : More(a.sent, d.sent, e)
           ELSE Same(a.sent, d.sent)
    <2>1. CASE c.reasoning
      <3>1. /\ Steady(a, Grow(x, "reasoning")) /\ Opened(Grow(x, "reasoning")) \subseteq Opened(a)
            /\ \E e \in ItemDeltas("reasoning") : More(a.sent, Grow(x, "reasoning").sent, e)
        BY PieceEffect
      <3> HIDE DEF x
      <3>2. QED
        BY <2>1, <3>1
    <2>2. CASE ~c.reasoning
      <3>1. a.sent \in Seq(ResponseEvents)
        BY DEF ResponsesType
      <3>2. QED
        BY <2>2, <3>1, SteadyParts, SameParts
    <2>3. QED
      BY <2>1, <2>2
  <1> HIDE DEF d
  <1>2. d \in ResponsesType
    BY <1>1 DEF Steady
  <1>3. Steady(d, b) /\ Same(d.sent, b.sent) /\ Opened(b) \subseteq Opened(d)
    <2>1. CASE c.text
      <3>1. b = CloseReasoning(d)
        BY <2>1
      <3>2. QED
        BY <1>2, <3>1, CloseEffect
    <2>2. CASE ~c.text
      <3>1. d.sent \in Seq(ResponseEvents)
        BY <1>2 DEF ResponsesType
      <3>2. QED
        BY <1>2, <2>2, <3>1, SteadyParts, SameParts
    <2>3. QED
      BY <2>1, <2>2
  <1> HIDE DEF b
  <1>4. Steady(a, b) /\ Opened(b) \subseteq Opened(a)
    BY <1>1, <1>3, SteadyParts
  <1>5. IF c.reasoning THEN \E e \in ItemDeltas("reasoning") : More(a.sent, b.sent, e)
        ELSE Same(a.sent, b.sent)
    BY <1>1, <1>3, SameParts
  <1>6. b = ReasoningPart(a, c)
    BY DEF ReasoningPart, b, d, x
  <1>7. QED
    BY <1>4, <1>5, <1>6

\* The text piece counted.
LEMMA FullEffect ==
  ASSUME NEW a \in ResponsesType, NEW n \in Nat
  PROVE  LET b == [a EXCEPT !.full = @ + n]
         IN  Steady(a, b) /\ b.sent = a.sent /\ Opened(b) = Opened(a)
  <1> DEFINE m == a.full + n
             b == [a EXCEPT !.full = m]
  <1>1. m \in Nat
    BY DEF ResponsesType
  <1> HIDE DEF m
  <1>2. /\ b \in ResponsesType /\ b.sent = a.sent /\ b.item = a.item /\ b.next = a.next
        /\ b.buffered = a.buffered /\ b.deferred = a.deferred /\ b.completed = a.completed
    BY <1>1 DEF ResponsesType
  <1> HIDE DEF b
  <1>3. Steady(a, b) /\ Opened(b) = Opened(a)
    BY <1>2 DEF Steady, Opened, Numbered, AddedItems
  <1>4. [a EXCEPT !.full = @ + n] = b
    BY DEF b, m
  <1>5. QED
    BY <1>2, <1>3, <1>4

\* The calls and the text of a chunk without a finish.
LEMMA DeltaEffect ==
  ASSUME NEW a \in ResponsesType, NEW c \in ChunkType, Fresh(a, c.tools)
  PROVE  LET r == Delta(a, c)
         IN  /\ Steady(a, r) /\ Opened(r) \subseteq Opened(a) \cup Starting(c.tools)
             /\ IF c.text THEN \E e \in ItemDeltas("text") : More(a.sent, r.sent, e)
                ELSE Same(a.sent, r.sent)
  <1> DEFINE n == IF c.text THEN 1 ELSE 0
             b == [a EXCEPT !.full = @ + n]
             x == CloseReasoning(b)
             y == CloseText(x)
             z == IF c.tools = <<>> THEN b ELSE y
             t == ToolEntries(z, c.tools)
             d == IF t.item["text"].state = "none" THEN AddItem(t, "text") ELSE t
             g == Grow(d, "text")
  <1>0. c.tools \in Seq(ToolType) /\ n \in Nat
    BY DEF ChunkType
  <1>1. Delta(a, c) = IF c.text THEN g ELSE t
    BY DEF Delta, FormatDelta
  <1> HIDE DEF n
  <1>2. Steady(a, b) /\ b.sent = a.sent /\ Opened(b) = Opened(a)
    BY <1>0, FullEffect
  <1> HIDE DEF b
  <1>3. b \in ResponsesType /\ b.sent \in Seq(ResponseEvents)
    BY <1>2 DEF Steady, ResponsesType
  <1>4. Steady(b, x) /\ Same(b.sent, x.sent) /\ Opened(x) \subseteq Opened(b)
    BY <1>3, CloseEffect
  <1> HIDE DEF x
  <1>5. x \in ResponsesType
    BY <1>4 DEF Steady
  <1>6. Steady(x, y) /\ Same(x.sent, y.sent) /\ Opened(y) \subseteq Opened(x)
    BY <1>5, CloseEffect
  <1> HIDE DEF y
  <1>7. Steady(b, z) /\ Same(b.sent, z.sent) /\ Opened(z) \subseteq Opened(b)
    BY <1>3, <1>4, <1>6, SteadyParts, SameParts
  <1> HIDE DEF z
  <1>8. z \in ResponsesType /\ Opened(z) \subseteq Opened(a) /\ Steady(a, z) /\ Same(a.sent, z.sent)
    <2>1. Steady(a, z)
      BY <1>2, <1>7, SteadyParts
    <2>2. QED
      BY <1>2, <1>7, <2>1 DEF Steady
  <1>9. Fresh(z, c.tools)
    BY <1>8 DEF Fresh
  <1>10. Calm(z, t) /\ Opened(t) \subseteq Opened(z) \cup Starting(c.tools)
    BY <1>0, <1>8, <1>9, ToolEntriesEffect
  <1> HIDE DEF t
  <1>11. /\ t \in ResponsesType /\ Steady(a, t) /\ Same(a.sent, t.sent)
         /\ Opened(t) \subseteq Opened(a) \cup Starting(c.tools)
    <2>1. Steady(z, t) /\ Same(z.sent, t.sent)
      BY <1>10, SteadyParts
    <2>2. Steady(a, t) /\ Same(a.sent, t.sent)
      BY <1>8, <2>1, SteadyParts, SameParts
    <2>3. QED
      BY <1>8, <1>10, <2>2 DEF Steady
  <1>12. /\ Steady(t, g) /\ Opened(g) \subseteq Opened(t)
         /\ \E e \in ItemDeltas("text") : More(t.sent, g.sent, e)
    BY <1>11, PieceEffect
  <1> HIDE DEF g
  <1>13. Steady(a, g) /\ \E e \in ItemDeltas("text") : More(a.sent, g.sent, e)
    BY <1>11, <1>12, SteadyParts, SameParts
  <1>14. QED
    BY <1>1, <1>11, <1>12, <1>13

-----------------------------------------------------------------------------
(* The Responses API: the invariant of the adapter.                        *)

FinishChunks == {c \in ChunkType : c.finish}
EarlyTexts == {c \in ChunkType : c.text /\ ~c.finish}

\* Each piece has its delta, but for a text that comes with the finish.
Tallied(s, f) ==
  /\ Count(s, ItemDeltas("text")) = Count(f, EarlyTexts)
  /\ Count(s, ItemDeltas("reasoning")) = Count(f, Reasoned)

\* Behind a finish its chunk waits, or the usage is told, or it is to be told at the end.
Pending(a) == ~a.completed /\ Count(a.sent, Completions) = 0
Answered(a, u) ==
  /\ u # {}
  /\ \/ Pending(a) /\ a.deferred = u
     \/ a.completed /\ Count(a.sent, Completions) = 1 /\ Count(a.sent, CompletionsOf(u)) = 1
Completing(a, f, u) ==
  IF At(f, FinishChunks) = {} THEN Pending(a) /\ a.deferred = {} /\ a.buffered = <<>>
  ELSE IF a.buffered # <<>> THEN Pending(a) /\ a.deferred = {} ELSE Answered(a, u)
Parked(a) == a.buffered # <<>> => a.buffered[1].tools = <<>> /\ a.buffered[1].usage = {}

ResponsesLive(a, f, u) ==
  /\ a \in ResponsesType /\ Numbered(a) /\ Opened(a) \subseteq Started(f)
  /\ Tallied(a.sent, f) /\ Parked(a) /\ Completing(a, f, u)

\* What nothing, and something, more means for the counts.
LEMMA SameCounts ==
  ASSUME NEW s, NEW t, Same(s, t)
  PROVE  /\ Count(t, ItemDeltas("text")) = Count(s, ItemDeltas("text"))
         /\ Count(t, ItemDeltas("reasoning")) = Count(s, ItemDeltas("reasoning"))
         /\ Count(t, Completions) = Count(s, Completions)
         /\ \A u : Count(t, CompletionsOf(u)) = Count(s, CompletionsOf(u))
  BY CountedSets DEF Same

\* One delta more.
LEMMA MoreDeltas ==
  ASSUME NEW s \in Seq(ResponseEvents), NEW t, NEW k \in {"reasoning", "text"}, \E e \in ItemDeltas(k) : More(s, t, e)
  PROVE  /\ Count(t, ItemDeltas("text")) = Count(s, ItemDeltas("text")) + (IF k = "text" THEN 1 ELSE 0)
         /\ Count(t, ItemDeltas("reasoning")) = Count(s, ItemDeltas("reasoning")) + (IF k = "reasoning" THEN 1 ELSE 0)
         /\ Count(t, Completions) = Count(s, Completions)
         /\ \A u : Count(t, CompletionsOf(u)) = Count(s, CompletionsOf(u))
  <1>1. PICK e \in ItemDeltas(k) : More(s, t, e)
    OBVIOUS
  <1>2. /\ e \in ItemDeltas("text") <=> k = "text"
        /\ e \in ItemDeltas("reasoning") <=> k = "reasoning"
        /\ e \notin Completions /\ \A u : e \notin CompletionsOf(u)
    BY DEF ItemDeltas, Completions, CompletionsOf
  <1>3. \A T : Count(s, T) \in Nat
    BY CountZero
  <1>4. \A T \in SUBSET Telltale : Count(t, T) = Count(s, T) + (IF e \in T THEN 1 ELSE 0)
    BY <1>1 DEF More
  <1>5. Count(t, ItemDeltas("text")) = Count(s, ItemDeltas("text")) + (IF k = "text" THEN 1 ELSE 0)
    BY <1>2, <1>4, CountedSets
  <1>6. Count(t, ItemDeltas("reasoning")) = Count(s, ItemDeltas("reasoning")) + (IF k = "reasoning" THEN 1 ELSE 0)
    BY <1>2, <1>4, CountedSets
  <1>7. Count(t, Completions) = Count(s, Completions)
    BY <1>2, <1>3, <1>4, CountedSets
  <1>8. ASSUME NEW u PROVE Count(t, CompletionsOf(u)) = Count(s, CompletionsOf(u))
    BY <1>2, <1>3, <1>4, CountedSets
  <1>9. QED
    BY <1>5, <1>6, <1>7, <1>8

\* One completion more.
LEMMA MoreCompletions ==
  ASSUME NEW s \in Seq(ResponseEvents), NEW t, NEW v, \E e \in CompletionsOf(v) : More(s, t, e)
  PROVE  /\ Count(t, ItemDeltas("text")) = Count(s, ItemDeltas("text"))
         /\ Count(t, ItemDeltas("reasoning")) = Count(s, ItemDeltas("reasoning"))
         /\ Count(t, Completions) = Count(s, Completions) + 1
         /\ Count(t, CompletionsOf(v)) = Count(s, CompletionsOf(v)) + 1
  <1>1. PICK e \in CompletionsOf(v) : More(s, t, e)
    OBVIOUS
  <1>2. /\ e \notin ItemDeltas("text") /\ e \notin ItemDeltas("reasoning")
        /\ e \in Completions /\ e \in CompletionsOf(v)
    BY DEF ItemDeltas, Completions, CompletionsOf
  <1>3. \A T : Count(s, T) \in Nat
    BY CountZero
  <1>4. \A T \in SUBSET Telltale : Count(t, T) = Count(s, T) + (IF e \in T THEN 1 ELSE 0)
    BY <1>1 DEF More
  <1>5. Count(t, ItemDeltas("text")) = Count(s, ItemDeltas("text"))
    BY <1>2, <1>3, <1>4, CountedSets
  <1>6. Count(t, ItemDeltas("reasoning")) = Count(s, ItemDeltas("reasoning"))
    BY <1>2, <1>3, <1>4, CountedSets
  <1>7. Count(t, Completions) = Count(s, Completions) + 1
    BY <1>2, <1>4, CountedSets
  <1>8. Count(t, CompletionsOf(v)) = Count(s, CompletionsOf(v)) + 1
    BY <1>2, <1>4, CountedSets
  <1>9. QED
    BY <1>5, <1>6, <1>7, <1>8

\* Without completions there are none of any usage.
LEMMA NoCompletions ==
  ASSUME NEW s \in Seq(ResponseEvents), Count(s, Completions) = 0
  PROVE  \A u : Count(s, CompletionsOf(u)) = 0
  <1>1. At(s, Completions) = {}
    BY CountZero
  <1>2. ASSUME NEW u PROVE At(s, CompletionsOf(u)) = {}
    BY <1>1 DEF At, Completions, CompletionsOf
  <1>3. QED
    BY <1>2, CountZero

\* A finish that is settled is answered.
LEMMA SettledAnswers ==
  ASSUME NEW a \in ResponsesType, NEW b, NEW v \in SUBSET AllTokens, v # {}, Pending(a), Settled(a, b, v)
  PROVE  /\ Answered(b, v)
         /\ Count(b.sent, ItemDeltas("text")) = Count(a.sent, ItemDeltas("text"))
         /\ Count(b.sent, ItemDeltas("reasoning")) = Count(a.sent, ItemDeltas("reasoning"))
  <1>1. a.sent \in Seq(ResponseEvents) /\ Count(a.sent, Completions) = 0
    BY DEF ResponsesType, Pending
  <1>2. CASE b.deferred = v /\ ~b.completed /\ Same(a.sent, b.sent)
    BY <1>1, <1>2, SameCounts DEF Answered, Pending
  <1>3. CASE b.completed /\ \E e \in CompletionsOf(v) : More(a.sent, b.sent, e)
    <2>1. Count(a.sent, CompletionsOf(v)) = 0
      BY <1>1, NoCompletions
    <2>2. /\ Count(b.sent, ItemDeltas("text")) = Count(a.sent, ItemDeltas("text"))
          /\ Count(b.sent, ItemDeltas("reasoning")) = Count(a.sent, ItemDeltas("reasoning"))
          /\ Count(b.sent, Completions) = Count(a.sent, Completions) + 1
          /\ Count(b.sent, CompletionsOf(v)) = Count(a.sent, CompletionsOf(v)) + 1
      BY <1>1, <1>3, MoreCompletions
    <2>3. QED
      BY <1>1, <1>3, <2>1, <2>2 DEF Answered
  <1>4. QED
    BY <1>2, <1>3 DEF Settled

\* A chunk more: the calls it starts, and what of it is counted.
LEMMA FedAppend ==
  ASSUME NEW f \in Seq(ChunkType), NEW c \in ChunkType
  PROVE  /\ Append(f, c) \in Seq(ChunkType)
         /\ Started(f) \subseteq Started(Append(f, c)) /\ Starting(c.tools) \subseteq Started(Append(f, c))
         /\ Count(Append(f, c), EarlyTexts) = Count(f, EarlyTexts) + (IF c.text /\ ~c.finish THEN 1 ELSE 0)
         /\ Count(Append(f, c), Reasoned) = Count(f, Reasoned) + (IF c.reasoning THEN 1 ELSE 0)
         /\ Count(f, EarlyTexts) \in Nat /\ Count(f, Reasoned) \in Nat
         /\ (At(Append(f, c), FinishChunks) = {} <=> At(f, FinishChunks) = {} /\ ~c.finish)
  <1>1. /\ Append(f, c) \in Seq(ChunkType) /\ Len(f) \in Nat
        /\ DOMAIN f = 1..Len(f) /\ DOMAIN Append(f, c) = 1..(Len(f) + 1)
        /\ \A i \in 1..Len(f) : Append(f, c)[i] = f[i]
        /\ Append(f, c)[Len(f) + 1] = c
    BY AppendFacts
  <1>2. ToSet(Append(f, c)) = ToSet(f) \cup {c}
    BY <1>1 DEF ToSet
  <1>3. Entries(Append(f, c)) = Entries(f) \cup ToSet(c.tools)
    BY <1>2 DEF Entries
  <1>4. Started(f) \subseteq Started(Append(f, c))
    BY <1>3 DEF Started
  <1>5. Starting(c.tools) \subseteq Started(Append(f, c))
    <2>1. ASSUME NEW k \in Starting(c.tools) PROVE k \in Started(Append(f, c))
      <3>1. PICK i \in DOMAIN c.tools : c.tools[i].start /\ c.tools[i].call = k
        BY DEF Starting
      <3>2. c.tools[i] \in ToSet(c.tools)
        BY DEF ToSet
      <3>3. c.tools[i] \in Entries(Append(f, c))
        BY <1>3, <3>2
      <3>4. QED
        BY <3>1, <3>3 DEF Started
    <2>2. QED
      BY <2>1
  <1>6. /\ Count(Append(f, c), EarlyTexts) = Count(f, EarlyTexts) + (IF c \in EarlyTexts THEN 1 ELSE 0)
        /\ Count(f, EarlyTexts) \in Nat
    BY CountAppend
  <1>7. /\ Count(Append(f, c), Reasoned) = Count(f, Reasoned) + (IF c \in Reasoned THEN 1 ELSE 0)
        /\ Count(f, Reasoned) \in Nat
    BY CountAppend
  <1>8. At(Append(f, c), FinishChunks) = At(f, FinishChunks) \cup (IF c \in FinishChunks THEN {Len(f) + 1} ELSE {})
    BY CountAppend
  <1>9. (c \in EarlyTexts <=> c.text /\ ~c.finish) /\ (c \in Reasoned <=> c.reasoning) /\ (c \in FinishChunks <=> c.finish)
    BY DEF EarlyTexts, Reasoned, FinishChunks
  <1>10. QED
    BY <1>1, <1>4, <1>5, <1>6, <1>7, <1>8, <1>9

-----------------------------------------------------------------------------
(* The Responses API: a turn of the loop.                                  *)

\* response.created goes out first.
LEMMA OpenEffect ==
  ASSUME NEW a \in ResponsesType
  PROVE  Steady(a, Open(a)) /\ Same(a.sent, Open(a).sent) /\ Opened(Open(a)) = Opened(a)
  <1> DEFINE e == Event("created", "response", 0, 0)
  <1>1. e \in ResponseEvents \ Telltale
    <2>1. e \in ResponseEvents /\ e.type = "created"
      <3>1. "response" \in Items \cup {"response"} /\ 0 \in Nat
        OBVIOUS
      <3>2. QED
        BY <3>1, ResponseEvent
    <2> HIDE DEF e
    <2>2. QED
      BY <2>1 DEF Telltale
  <1>2. Open(a) = Emit(a, e) \/ Open(a) = a
    BY DEF Open
  <1> HIDE DEF e
  <1>3. Calm(a, Emit(a, e)) /\ Emit(a, e).item = a.item
    BY <1>1, EmitEffect
  <1>4. Calm(a, a)
    BY CalmParts
  <1>5. QED
    BY <1>2, <1>3, <1>4, SteadyParts DEF Opened

\* A live adapter that has been taken on steadily.
LEMMA SteadyKeeps ==
  ASSUME NEW a, NEW f, NEW u, ResponsesLive(a, f, u), NEW b, Steady(a, b)
  PROVE  /\ b \in ResponsesType /\ b.sent \in Seq(ResponseEvents) /\ Numbered(b) /\ Parked(b)
         /\ a \in ResponsesType /\ a.sent \in Seq(ResponseEvents)
  BY DEF ResponsesLive, Steady, Parked, ResponsesType

\* The adapter waits for nothing any more, with what it thought.
LEMMA TakenEffect ==
  ASSUME NEW a \in ResponsesType, NEW n \in Nat
  PROVE  LET b == [a EXCEPT !.buffered = <<>>, !.thought = n]
         IN  /\ b \in ResponsesType /\ b.sent = a.sent /\ b.buffered = <<>> /\ b.completed = a.completed
             /\ b.deferred = a.deferred /\ Opened(b) = Opened(a) /\ (Numbered(a) => Numbered(b))
             /\ (Pending(a) => Pending(b))
  <1> DEFINE b == [a EXCEPT !.buffered = <<>>, !.thought = n]
  <1>1. <<>> \in Seq(ChunkType)
    BY EmptySeq
  <1>2. /\ b \in ResponsesType /\ b.sent = a.sent /\ b.buffered = <<>> /\ b.completed = a.completed
        /\ b.deferred = a.deferred /\ b.item = a.item /\ b.next = a.next
    BY <1>1 DEF ResponsesType
  <1> HIDE DEF b
  <1>3. Opened(b) = Opened(a) /\ (Numbered(a) => Numbered(b)) /\ (Pending(a) => Pending(b))
    BY <1>2 DEF Opened, Numbered, AddedItems, Pending
  <1>4. QED
    BY <1>2, <1>3 DEF b

\* The calls of a chunk are new.
LEMMA ChunkFresh ==
  ASSUME NEW f, NEW c, Shape(c, f), NEW a, Opened(a) \subseteq Started(f)
  PROVE  Fresh(a, c.tools) /\ c.tools \in Seq(ToolType) /\ c \in ChunkType
  BY DEF Fresh, Shape, ChunkType

\* Usage alone, for a finish that waits.
LEMMA ArrivalEffect ==
  ASSUME NEW a, NEW f, NEW u, ResponsesLive(a, f, u), NEW b, Steady(a, b), Same(a.sent, b.sent),
         Opened(b) \subseteq Opened(a), NEW c \in ChunkType, c.usage # {}
  PROVE  LET r == UsageArrives(b, c)
         IN  /\ a.buffered = <<>> => r = b
             /\ a.buffered # <<>> =>
                  /\ r \in ResponsesType /\ Numbered(r) /\ Opened(r) \subseteq Opened(a)
                  /\ r.buffered = <<>> /\ Answered(r, c.usage)
                  /\ Count(r.sent, ItemDeltas("text")) = Count(a.sent, ItemDeltas("text"))
                  /\ Count(r.sent, ItemDeltas("reasoning")) = Count(a.sent, ItemDeltas("reasoning"))
  <1>1. /\ b \in ResponsesType /\ b.sent \in Seq(ResponseEvents) /\ Numbered(b) /\ Parked(b)
        /\ a \in ResponsesType /\ b.buffered = a.buffered /\ b.completed = a.completed
        /\ b.deferred = a.deferred
    BY SteadyKeeps DEF Steady
  <1>2. a.buffered = <<>> => UsageArrives(b, c) = b
    BY <1>1 DEF UsageArrives
  <1>3. CASE a.buffered # <<>>
    <2> DEFINE n == b.item["reasoning"].size
               x == [b EXCEPT !.buffered = <<>>, !.thought = n]
               u1 == b.buffered[1].tools
               r == FormatFinish(x, u1, c.usage, FALSE)
    <2>1. UsageArrives(b, c) = r
      BY <1>1, <1>3 DEF UsageArrives
    <2>2. n \in Nat
      BY <1>1, ItemKinds DEF ResponsesType, ItemType
    <2>3. u1 = <<>>
      BY <1>1, <1>3 DEF Parked
    <2> HIDE DEF n, u1
    <2>4. Pending(a)
      BY <1>3 DEF ResponsesLive, Completing
    <2>5. Pending(b)
      BY <1>1, <2>4, SameCounts DEF Pending
    <2>6. /\ x \in ResponsesType /\ x.sent = b.sent /\ x.buffered = <<>>
          /\ Opened(x) = Opened(b) /\ Numbered(x) /\ Pending(x)
      BY <1>1, <2>2, <2>5, TakenEffect
    <2> HIDE DEF x
    <2>7. <<>> \in Seq(ToolType) /\ Fresh(x, <<>>) /\ Starting(<<>>) = {}
      BY EmptySeq DEF Fresh, Starting
    <2>8. c.usage \in SUBSET AllTokens
      BY DEF ChunkType
    <2>9. /\ Settled(x, FormatFinish(x, <<>>, c.usage, FALSE), c.usage)
          /\ Opened(FormatFinish(x, <<>>, c.usage, FALSE)) \subseteq Opened(x) \cup Starting(<<>>)
      BY <2>6, <2>7, <2>8, FormatFinishEffect DEF Pending
    <2>10. Settled(x, r, c.usage) /\ Opened(r) \subseteq Opened(a)
      BY <2>3, <2>6, <2>7, <2>9
    <2> HIDE DEF r
    <2>11. /\ Answered(r, c.usage)
           /\ Count(r.sent, ItemDeltas("text")) = Count(x.sent, ItemDeltas("text"))
           /\ Count(r.sent, ItemDeltas("reasoning")) = Count(x.sent, ItemDeltas("reasoning"))
      BY <2>6, <2>8, <2>10, SettledAnswers
    <2>12. /\ Count(b.sent, ItemDeltas("text")) = Count(a.sent, ItemDeltas("text"))
           /\ Count(b.sent, ItemDeltas("reasoning")) = Count(a.sent, ItemDeltas("reasoning"))
      BY SameCounts
    <2>13. r \in ResponsesType /\ Numbered(r) /\ r.buffered = <<>>
      BY <2>6, <2>10 DEF Settled
    <2>14. QED
      BY <1>3, <2>1, <2>6, <2>10, <2>11, <2>12, <2>13
  <1>4. QED
    BY <1>2, <1>3

\* A finish that comes with usage.
LEMMA FinishWithUsageEffect ==
  ASSUME NEW a, NEW f, NEW u, ResponsesLive(a, f, u), At(f, FinishChunks) = {}, NEW b, Steady(a, b),
         Opened(b) \subseteq Opened(a), Count(b.sent, Completions) = Count(a.sent, Completions),
         NEW c, Shape(c, f), c.usage # {}
  PROVE  LET r == FinishWithUsage(b, c)
         IN  /\ r \in ResponsesType /\ Numbered(r) /\ Opened(r) \subseteq Opened(a) \cup Starting(c.tools)
             /\ r.buffered = <<>> /\ Answered(r, c.usage)
             /\ Count(r.sent, ItemDeltas("text")) = Count(b.sent, ItemDeltas("text"))
             /\ Count(r.sent, ItemDeltas("reasoning")) = Count(b.sent, ItemDeltas("reasoning"))
  <1> DEFINE d == CloseReasoning(b)
             n == d.item["reasoning"].size
             x == [d EXCEPT !.buffered = <<>>, !.thought = n]
             r == FormatFinish(x, c.tools, c.usage, c.verbatim)
  <1>1. FinishWithUsage(b, c) = r
    BY DEF FinishWithUsage
  <1>2. /\ b \in ResponsesType /\ b.sent \in Seq(ResponseEvents) /\ Numbered(b)
        /\ b.completed = a.completed /\ Opened(a) \subseteq Started(f)
    BY SteadyKeeps DEF Steady, ResponsesLive
  <1>3. Steady(b, d) /\ Same(b.sent, d.sent) /\ Opened(d) \subseteq Opened(b)
    BY <1>2, CloseEffect
  <1> HIDE DEF d
  <1>4. d \in ResponsesType /\ Numbered(d) /\ d.completed = b.completed
    BY <1>2, <1>3 DEF Steady
  <1>5. n \in Nat
    BY <1>4, ItemKinds DEF ResponsesType, ItemType
  <1> HIDE DEF n
  <1>6. Pending(a)
    BY DEF ResponsesLive, Completing
  <1>7. Pending(d)
    <2>1. Count(d.sent, Completions) = Count(b.sent, Completions)
      BY <1>3, SameCounts
    <2>2. QED
      BY <1>2, <1>4, <1>6, <2>1 DEF Pending
  <1>8. /\ x \in ResponsesType /\ x.sent = d.sent /\ x.buffered = <<>>
        /\ Opened(x) = Opened(d) /\ Numbered(x) /\ Pending(x)
    BY <1>4, <1>5, <1>7, TakenEffect
  <1> HIDE DEF x
  <1>9. Opened(x) \subseteq Opened(a)
    BY <1>3, <1>8
  <1>10. Fresh(x, c.tools) /\ c.tools \in Seq(ToolType) /\ c \in ChunkType
    BY <1>2, <1>9, ChunkFresh
  <1>11. c.usage \in SUBSET AllTokens
    BY <1>10 DEF ChunkType
  <1>12. Settled(x, r, c.usage) /\ Opened(r) \subseteq Opened(x) \cup Starting(c.tools)
    BY <1>8, <1>10, <1>11, FormatFinishEffect DEF Pending
  <1> HIDE DEF r
  <1>13. /\ Answered(r, c.usage)
         /\ Count(r.sent, ItemDeltas("text")) = Count(x.sent, ItemDeltas("text"))
         /\ Count(r.sent, ItemDeltas("reasoning")) = Count(x.sent, ItemDeltas("reasoning"))
    BY <1>8, <1>11, <1>12, SettledAnswers
  <1>14. /\ Count(d.sent, ItemDeltas("text")) = Count(b.sent, ItemDeltas("text"))
         /\ Count(d.sent, ItemDeltas("reasoning")) = Count(b.sent, ItemDeltas("reasoning"))
    BY <1>3, SameCounts
  <1>15. r \in ResponsesType /\ Numbered(r) /\ r.buffered = <<>>
    BY <1>8, <1>12 DEF Settled
  <1>16. QED
    BY <1>1, <1>8, <1>9, <1>12, <1>13, <1>14, <1>15

\* A finish that waits for its usage.
LEMMA FinishAloneEffect ==
  ASSUME NEW b \in ResponsesType, NEW c \in ChunkType
  PROVE  LET r == FinishAlone(b, c)
         IN  /\ r \in ResponsesType /\ (Numbered(b) => Numbered(r)) /\ Opened(r) \subseteq Opened(b)
             /\ r.buffered = <<c>> /\ r.completed = b.completed /\ r.deferred = b.deferred
             /\ Same(b.sent, r.sent)
  <1> DEFINE d == CloseReasoning(b)
             n == d.full + (IF c.text THEN 1 ELSE 0)
             s == <<c>>
             r == [d EXCEPT !.full = n, !.buffered = s]
  <1>1. Steady(b, d) /\ Same(b.sent, d.sent) /\ Opened(d) \subseteq Opened(b)
    BY CloseEffect
  <1>2. FinishAlone(b, c) = r
    BY DEF FinishAlone
  <1> HIDE DEF d
  <1>3. n \in Nat /\ s \in Seq(ChunkType) /\ d \in ResponsesType
    BY <1>1 DEF Steady, ResponsesType
  <1> HIDE DEF n, s
  <1>4. /\ r \in ResponsesType /\ r.sent = d.sent /\ r.item = d.item /\ r.next = d.next /\ r.buffered = s
        /\ r.completed = d.completed /\ r.deferred = d.deferred
    BY <1>3 DEF ResponsesType
  <1> HIDE DEF r
  <1>5. (Numbered(d) => Numbered(r)) /\ Opened(r) = Opened(d)
    BY <1>4 DEF Numbered, AddedItems, Opened
  <1>6. QED
    BY <1>1, <1>2, <1>4, <1>5 DEF Steady, s

\* What a chunk brings of reasoning, in an adapter that is live.
LEMMA BeginEffect ==
  ASSUME NEW a, NEW f, NEW u, ResponsesLive(a, f, u), NEW c \in ChunkType
  PROVE  LET b == ReasoningPart(Open(a), c)
         IN  /\ Steady(a, b) /\ Opened(b) \subseteq Opened(a)
             /\ b \in ResponsesType /\ b.sent \in Seq(ResponseEvents) /\ Numbered(b) /\ Parked(b)
             /\ Count(b.sent, ItemDeltas("text")) = Count(a.sent, ItemDeltas("text"))
             /\ Count(b.sent, ItemDeltas("reasoning")) =
                  Count(a.sent, ItemDeltas("reasoning")) + (IF c.reasoning THEN 1 ELSE 0)
             /\ Count(b.sent, Completions) = Count(a.sent, Completions)
             /\ \A x : Count(b.sent, CompletionsOf(x)) = Count(a.sent, CompletionsOf(x))
             /\ ~c.reasoning => Same(a.sent, b.sent)
  <1> DEFINE o == Open(a)
             b == ReasoningPart(o, c)
  <1>1. a \in ResponsesType /\ a.sent \in Seq(ResponseEvents)
    BY DEF ResponsesLive, ResponsesType
  <1>2. Steady(a, o) /\ Same(a.sent, o.sent) /\ Opened(o) = Opened(a)
    BY <1>1, OpenEffect
  <1> HIDE DEF o
  <1>3. o \in ResponsesType /\ o.sent \in Seq(ResponseEvents)
    BY <1>2 DEF Steady, ResponsesType
  <1>4. /\ Steady(o, b) /\ Opened(b) \subseteq Opened(o)
        /\ IF c.reasoning THEN \E e \in ItemDeltas("reasoning") : More(o.sent, b.sent, e)
           ELSE Same(o.sent, b.sent)
    BY <1>3, ReasoningPartEffect
  <1> HIDE DEF b
  <1>5. Steady(a, b)
    BY <1>2, <1>4, SteadyParts
  <1>6. b \in ResponsesType /\ b.sent \in Seq(ResponseEvents) /\ Numbered(b) /\ Parked(b)
    BY <1>5, SteadyKeeps
  <1>7. CASE c.reasoning
    <2>1. PICK e \in ItemDeltas("reasoning") : More(o.sent, b.sent, e)
      BY <1>4, <1>7
    <2>2. More(a.sent, b.sent, e)
      BY <1>2, <2>1, SameParts
    <2>3. \E d \in ItemDeltas("reasoning") : More(a.sent, b.sent, d)
      BY <2>2
    <2>4. /\ Count(b.sent, ItemDeltas("text")) = Count(a.sent, ItemDeltas("text")) + 0
          /\ Count(b.sent, ItemDeltas("reasoning")) = Count(a.sent, ItemDeltas("reasoning")) + 1
          /\ Count(b.sent, Completions) = Count(a.sent, Completions)
          /\ \A x : Count(b.sent, CompletionsOf(x)) = Count(a.sent, CompletionsOf(x))
      <3>1. /\ Count(b.sent, ItemDeltas("text")) =
                 Count(a.sent, ItemDeltas("text")) + (IF "reasoning" = "text" THEN 1 ELSE 0)
            /\ Count(b.sent, ItemDeltas("reasoning")) =
                 Count(a.sent, ItemDeltas("reasoning")) + (IF "reasoning" = "reasoning" THEN 1 ELSE 0)
            /\ Count(b.sent, Completions) = Count(a.sent, Completions)
            /\ \A x : Count(b.sent, CompletionsOf(x)) = Count(a.sent, CompletionsOf(x))
        BY <1>1, <2>3, MoreDeltas
      <3>2. "reasoning" # "text"
        OBVIOUS
      <3>3. QED
        BY <3>1, <3>2
    <2>5. Count(a.sent, ItemDeltas("text")) \in Nat
      BY <1>1, CountZero
    <2>6. QED
      BY <1>2, <1>4, <1>5, <1>6, <1>7, <2>4, <2>5 DEF b, o
  <1>8. CASE ~c.reasoning
    <2>1. Same(a.sent, b.sent)
      BY <1>2, <1>4, <1>8, SameParts
    <2>2. /\ Count(b.sent, ItemDeltas("text")) = Count(a.sent, ItemDeltas("text"))
          /\ Count(b.sent, ItemDeltas("reasoning")) = Count(a.sent, ItemDeltas("reasoning"))
          /\ Count(b.sent, Completions) = Count(a.sent, Completions)
          /\ \A x : Count(b.sent, CompletionsOf(x)) = Count(a.sent, CompletionsOf(x))
      BY <2>1, SameCounts
    <2>3. Count(a.sent, ItemDeltas("reasoning")) \in Nat
      BY <1>1, CountZero
    <2>4. QED
      BY <1>2, <1>4, <1>5, <1>6, <1>8, <2>1, <2>2, <2>3 DEF b, o
  <1>9. QED
    BY <1>7, <1>8

\* A turn of the loop keeps the adapter live. Behind a finish there is usage only,
\* no other than before.
LEMMA ResponsesStep ==
  ASSUME NEW a, NEW f \in Seq(ChunkType), NEW u \in SUBSET AllTokens, NEW c,
         ResponsesLive(a, f, u), Shape(c, f),
         At(f, FinishChunks) = {} \/ (UsageOnly(c) /\ ~IsMarker(c) /\ u \in {{}, c.usage})
  PROVE  ResponsesLive(ResponsesFeed(a, c), Append(f, c), IF c.usage = {} THEN u ELSE c.usage)
  <1> DEFINE o == Open(a)
             b == ReasoningPart(o, c)
             v == IF c.usage = {} THEN u ELSE c.usage
             g == Append(f, c)
             r == ResponsesFeed(a, c)
  <1>1. /\ c \in ChunkType /\ c.text \in BOOLEAN /\ c.reasoning \in BOOLEAN /\ c.finish \in BOOLEAN
        /\ c.usage \in SUBSET AllTokens
    BY DEF Shape, ChunkType
  <1>2. /\ a \in ResponsesType /\ Numbered(a) /\ Opened(a) \subseteq Started(f)
        /\ Tallied(a.sent, f) /\ Parked(a) /\ Completing(a, f, u)
    BY DEF ResponsesLive
  <1>3. /\ Started(f) \subseteq Started(g) /\ Starting(c.tools) \subseteq Started(g)
        /\ Count(g, EarlyTexts) = Count(f, EarlyTexts) + (IF c.text /\ ~c.finish THEN 1 ELSE 0)
        /\ Count(g, Reasoned) = Count(f, Reasoned) + (IF c.reasoning THEN 1 ELSE 0)
        /\ Count(f, EarlyTexts) \in Nat /\ Count(f, Reasoned) \in Nat
        /\ (At(g, FinishChunks) = {} <=> At(f, FinishChunks) = {} /\ ~c.finish)
    BY <1>1, FedAppend
  <1> HIDE DEF g
  <1>4. /\ Steady(a, b) /\ Opened(b) \subseteq Opened(a)
        /\ b \in ResponsesType /\ b.sent \in Seq(ResponseEvents) /\ Numbered(b) /\ Parked(b)
        /\ Count(b.sent, ItemDeltas("text")) = Count(a.sent, ItemDeltas("text"))
        /\ Count(b.sent, ItemDeltas("reasoning")) =
             Count(a.sent, ItemDeltas("reasoning")) + (IF c.reasoning THEN 1 ELSE 0)
        /\ Count(b.sent, Completions) = Count(a.sent, Completions)
        /\ (~c.reasoning => Same(a.sent, b.sent))
    BY <1>1, BeginEffect
  <1>5. /\ b.buffered = a.buffered /\ b.deferred = a.deferred /\ b.completed = a.completed
    BY <1>4 DEF Steady
  <1>6. Fresh(b, c.tools)
    BY <1>2, <1>4, ChunkFresh
  <1>7. ProcessChunk(o, c) = IF c.finish /\ c.usage # {} THEN FinishWithUsage(b, c)
                             ELSE IF c.finish THEN FinishAlone(b, c)
                             ELSE IF UsageOnly(c) THEN UsageArrives(b, c) ELSE Delta(b, c)
    BY DEF ProcessChunk
  <1> HIDE DEF b
  <1>8. ASSUME NEW x, x \in ResponsesType, Numbered(x), Opened(x) \subseteq Opened(a) \cup Starting(c.tools),
               Count(x.sent, ItemDeltas("text")) =
                 Count(a.sent, ItemDeltas("text")) + (IF c.text /\ ~c.finish THEN 1 ELSE 0),
               Count(x.sent, ItemDeltas("reasoning")) =
                 Count(a.sent, ItemDeltas("reasoning")) + (IF c.reasoning THEN 1 ELSE 0),
               Parked(x), Completing(x, g, v)
        PROVE  ResponsesLive(x, g, v)
    <2>1. Opened(x) \subseteq Started(g)
      BY <1>2, <1>3, <1>8
    <2>2. Tallied(x.sent, g)
      BY <1>2, <1>3, <1>8 DEF Tallied
    <2>3. QED
      BY <1>8, <2>1, <2>2 DEF ResponsesLive
  <1>9. Count(a.sent, ItemDeltas("text")) \in Nat /\ Count(a.sent, ItemDeltas("reasoning")) \in Nat
    BY <1>2, <1>3 DEF Tallied
  <1>10. CASE a.sent = <<>> /\ IsMarker(c)
    <2>1. r = a
      BY <1>10 DEF ResponsesFeed
    <2>2. ~c.text /\ ~c.reasoning /\ ~c.finish
      BY <1>10 DEF IsMarker
    <2>3. At(f, FinishChunks) = {} /\ At(g, FinishChunks) = {}
      BY <1>3, <1>10, <2>2
    <2>4. Completing(a, g, v)
      BY <1>2, <2>3 DEF Completing
    <2>5. ResponsesLive(a, g, v)
      BY <1>2, <1>8, <1>9, <2>2, <2>4
    <2>6. QED
      BY <2>1, <2>5 DEF r, g, v
  <1>11. CASE ~(a.sent = <<>> /\ IsMarker(c))
    <2>1. r = ProcessChunk(o, c)
      BY <1>11 DEF ResponsesFeed
    <2> HIDE DEF r, o
    <2>2. CASE c.finish /\ c.usage # {}
      <3>1. r = FinishWithUsage(b, c)
        BY <1>7, <2>1, <2>2
      <3>2. At(f, FinishChunks) = {} /\ At(g, FinishChunks) # {}
        BY <1>3, <2>2 DEF UsageOnly
      <3>3. /\ r \in ResponsesType /\ Numbered(r) /\ Opened(r) \subseteq Opened(a) \cup Starting(c.tools)
            /\ r.buffered = <<>> /\ Answered(r, c.usage)
            /\ Count(r.sent, ItemDeltas("text")) = Count(b.sent, ItemDeltas("text"))
            /\ Count(r.sent, ItemDeltas("reasoning")) = Count(b.sent, ItemDeltas("reasoning"))
        BY <1>4, <2>2, <3>1, <3>2, FinishWithUsageEffect
      <3>4. Completing(r, g, v) /\ Parked(r)
        BY <2>2, <3>2, <3>3 DEF Completing, Parked
      <3>5. ResponsesLive(r, g, v)
        BY <1>4, <1>8, <1>9, <2>2, <3>3, <3>4
      <3>6. QED
        BY <3>5 DEF r, g, v
    <2>3. CASE c.finish /\ c.usage = {}
      <3>1. r = FinishAlone(b, c)
        BY <1>7, <2>1, <2>3
      <3>2. At(f, FinishChunks) = {} /\ At(g, FinishChunks) # {}
        BY <1>3, <2>3 DEF UsageOnly
      <3>3. /\ r \in ResponsesType /\ Numbered(r) /\ Opened(r) \subseteq Opened(b)
            /\ r.buffered = <<c>> /\ r.completed = b.completed /\ r.deferred = b.deferred
            /\ Same(b.sent, r.sent)
        BY <1>1, <1>4, <3>1, FinishAloneEffect
      <3>4. /\ Count(r.sent, ItemDeltas("text")) = Count(b.sent, ItemDeltas("text"))
            /\ Count(r.sent, ItemDeltas("reasoning")) = Count(b.sent, ItemDeltas("reasoning"))
            /\ Count(r.sent, Completions) = Count(b.sent, Completions)
        BY <3>3, SameCounts
      <3>5. c.tools = <<>>
        BY <2>3 DEF Shape
      <3>6. Parked(r)
        BY <2>3, <3>3, <3>5 DEF Parked
      <3>7. r.buffered # <<>>
        BY <3>3
      <3>8. Completing(r, g, v)
        BY <1>2, <1>4, <1>5, <3>2, <3>3, <3>4, <3>7 DEF Completing, Pending
      <3>9. ResponsesLive(r, g, v)
        BY <1>4, <1>8, <1>9, <2>3, <3>3, <3>4, <3>6, <3>8
      <3>10. QED
        BY <3>9 DEF r, g, v
    <2>4. CASE ~c.finish /\ UsageOnly(c)
      <3>1. r = UsageArrives(b, c)
        BY <1>7, <2>1, <2>4
      <3>2. c.usage # {} /\ ~c.text /\ ~c.reasoning /\ c.tools = <<>>
        BY <2>4 DEF UsageOnly
      <3>3. LET x == UsageArrives(b, c)
            IN  /\ a.buffered = <<>> => x = b
                /\ a.buffered # <<>> =>
                     /\ x \in ResponsesType /\ Numbered(x) /\ Opened(x) \subseteq Opened(a)
                     /\ x.buffered = <<>> /\ Answered(x, c.usage)
                     /\ Count(x.sent, ItemDeltas("text")) = Count(a.sent, ItemDeltas("text"))
                     /\ Count(x.sent, ItemDeltas("reasoning")) = Count(a.sent, ItemDeltas("reasoning"))
        BY <1>1, <1>4, <3>2, ArrivalEffect
      <3>4. CASE a.buffered = <<>>
        <4>1. r = b
          BY <3>1, <3>3, <3>4
        <4>2. Completing(b, g, v)
          <5>1. CASE At(f, FinishChunks) = {}
            BY <1>2, <1>3, <1>4, <1>5, <2>4, <5>1 DEF Completing, Pending
          <5>2. CASE At(f, FinishChunks) # {}
            <6>1. Answered(a, u)
              BY <1>2, <3>4, <5>2 DEF Completing
            <6>2. u = c.usage /\ v = u
              BY <3>2, <5>2, <6>1 DEF Answered
            <6>3. \A x : Count(b.sent, CompletionsOf(x)) = Count(a.sent, CompletionsOf(x))
              BY <1>4, <3>2, SameCounts
            <6>4. Answered(b, v)
              BY <1>4, <1>5, <6>1, <6>2, <6>3 DEF Answered, Pending
            <6>5. At(g, FinishChunks) # {}
              BY <1>3, <5>2
            <6>6. QED
              BY <1>5, <3>4, <6>4, <6>5 DEF Completing
          <5>3. QED
            BY <5>1, <5>2
        <4>3. ResponsesLive(b, g, v)
          BY <1>4, <1>8, <1>9, <3>2, <4>2
        <4>4. QED
          BY <4>1, <4>3 DEF r, g, v
      <3>5. CASE a.buffered # <<>>
        <4>1. /\ r \in ResponsesType /\ Numbered(r) /\ Opened(r) \subseteq Opened(a)
              /\ r.buffered = <<>> /\ Answered(r, c.usage)
              /\ Count(r.sent, ItemDeltas("text")) = Count(a.sent, ItemDeltas("text"))
              /\ Count(r.sent, ItemDeltas("reasoning")) = Count(a.sent, ItemDeltas("reasoning"))
          BY <3>1, <3>3, <3>5
        <4>2. At(f, FinishChunks) # {} /\ At(g, FinishChunks) # {}
          BY <1>2, <1>3, <3>5 DEF Completing
        <4>3. Completing(r, g, v) /\ Parked(r)
          BY <3>2, <4>1, <4>2 DEF Completing, Parked
        <4>4. ResponsesLive(r, g, v)
          BY <1>8, <1>9, <3>2, <4>1, <4>3
        <4>5. QED
          BY <4>4 DEF r, g, v
      <3>6. QED
        BY <3>4, <3>5
    <2>5. CASE ~c.finish /\ ~UsageOnly(c)
      <3>1. r = Delta(b, c)
        BY <1>7, <2>1, <2>5
      <3>2. At(f, FinishChunks) = {} /\ At(g, FinishChunks) = {}
        BY <1>3, <2>5
      <3>3. /\ Steady(b, r) /\ Opened(r) \subseteq Opened(b) \cup Starting(c.tools)
            /\ IF c.text THEN \E e \in ItemDeltas("text") : More(b.sent, r.sent, e)
               ELSE Same(b.sent, r.sent)
        BY <1>1, <1>4, <1>6, <3>1, DeltaEffect
      <3>4. /\ Count(r.sent, ItemDeltas("text")) = Count(b.sent, ItemDeltas("text")) + (IF c.text THEN 1 ELSE 0)
            /\ Count(r.sent, ItemDeltas("reasoning")) = Count(b.sent, ItemDeltas("reasoning"))
            /\ Count(r.sent, Completions) = Count(b.sent, Completions)
        <4>1. CASE c.text
          <5>1. /\ Count(r.sent, ItemDeltas("text")) =
                     Count(b.sent, ItemDeltas("text")) + (IF "text" = "text" THEN 1 ELSE 0)
                /\ Count(r.sent, ItemDeltas("reasoning")) =
                     Count(b.sent, ItemDeltas("reasoning")) + (IF "text" = "reasoning" THEN 1 ELSE 0)
                /\ Count(r.sent, Completions) = Count(b.sent, Completions)
            BY <1>4, <3>3, <4>1, MoreDeltas
          <5>2. "text" # "reasoning" /\ Count(b.sent, ItemDeltas("reasoning")) \in Nat
            BY <1>4, CountZero
          <5>3. QED
            BY <4>1, <5>1, <5>2
        <4>2. CASE ~c.text
          <5>1. /\ Count(r.sent, ItemDeltas("text")) = Count(b.sent, ItemDeltas("text"))
                /\ Count(r.sent, ItemDeltas("reasoning")) = Count(b.sent, ItemDeltas("reasoning"))
                /\ Count(r.sent, Completions) = Count(b.sent, Completions)
            BY <3>3, <4>2, SameCounts
          <5>2. Count(b.sent, ItemDeltas("text")) \in Nat
            BY <1>4, CountZero
          <5>3. QED
            BY <4>2, <5>1, <5>2
        <4>3. QED
          BY <4>1, <4>2
      <3>5. r \in ResponsesType /\ Numbered(r) /\ Parked(r)
        BY <1>4, <3>3 DEF Steady, Parked
      <3>6. Completing(r, g, v)
        BY <1>2, <1>4, <1>5, <3>2, <3>3, <3>4 DEF Completing, Pending, Steady
      <3>7. ResponsesLive(r, g, v)
        BY <1>4, <1>8, <1>9, <2>5, <3>3, <3>4, <3>5, <3>6
      <3>8. QED
        BY <3>7 DEF r, g, v
    <2>6. QED
      BY <1>1, <2>2, <2>3, <2>4, <2>5
  <1>12. QED
    BY <1>10, <1>11

\* Behind a finish only usage is fed, and no other than was seen.
LEMMA UpcomingTurn ==
  ASSUME FedInv, WrapperInv, NEW c \in Upcoming
  PROVE  /\ Shape(c, fed) /\ fed \in Seq(ChunkType) /\ usage \in SUBSET AllTokens
         /\ At(fed, FinishChunks) = {} \/ (UsageOnly(c) /\ ~IsMarker(c) /\ usage \in {{}, c.usage})
  <1>1. fed \in Seq(ChunkType) /\ family \in Families /\ usage \in SUBSET AllTokens
    BY DEF FedInv, WrapperInv
  <1>2. Shape(c, fed)
    BY <1>1, UpcomingShape
  <1>3. ASSUME At(fed, FinishChunks) # {}
        PROVE  UsageOnly(c) /\ ~IsMarker(c) /\ usage \in {{}, c.usage}
    <2>1. At(fed, EndChunk) # {} /\ fed # <<>>
      BY <1>3, EmptySeq DEF At, FinishChunks, EndChunk
    <2>2. Over
      <3>1. Count(fed, EndChunk) # 0
        BY <1>1, <2>1, CountZero
      <3>2. QED
        BY <3>1 DEF FedInv
    <2>3. ~c.finish /\ ~HasContent(c) /\ c.usage = AllTokens
      BY <1>1, <2>1, <2>2, UpcomingShape
    <2>4. c \in UsageChunks(family)
      BY <2>1, <2>2 DEF Upcoming
    <2>5. family \in {"openai", "gemini"}
      BY <2>4 DEF UsageChunks
    <2>6. c = UsageEvent(Using(Chunk, AllTokens))
      BY <2>4 DEF UsageChunks
    <2>7. ~c.role
      <3>1. Using(Chunk, AllTokens) \in ChunkType /\ Using(Chunk, AllTokens).role = Chunk.role
        BY PlainChunks, UsingChunk
      <3>2. QED
        BY <2>6, <3>1, PlainChunks, UsageEventChunk
    <2>8. UsageOnly(c)
      BY <2>3 DEF UsageOnly, HasContent, AllTokens
    <2>9. QED
      BY <2>3, <2>5, <2>7, <2>8 DEF IsMarker, WrapperInv
  <1>4. QED
    BY <1>1, <1>2, <1>3

\* With usage there is no finish that waits.
Spent(a, u) == u # {} => a.buffered = <<>>

\* The chunk with the price ends the waiting and adds nothing else.
LEMMA PriceResponses ==
  ASSUME NEW a, NEW f \in Seq(ChunkType), NEW u \in SUBSET AllTokens, u # {}, ResponsesLive(a, f, u)
  PROVE  LET r == ResponsesFeed(a, Using(Chunk, u)) IN ResponsesLive(r, f, u) /\ Spent(r, u)
  <1> DEFINE c == Using(Chunk, u)
             b == ReasoningPart(Open(a), c)
             r == ResponsesFeed(a, c)
  <1>1. /\ c \in ChunkType /\ ~c.finish /\ c.usage = u /\ c.tools = <<>> /\ ~c.text /\ ~c.reasoning /\ ~c.role
    <2>1. ~Chunk.text /\ ~Chunk.reasoning
      BY DEF Chunk
    <2>2. QED
      BY <2>1, PlainChunks, UsingChunk
  <1> HIDE DEF c
  <1>2. r = UsageArrives(b, c)
    BY <1>1 DEF ResponsesFeed, ProcessChunk, IsMarker, UsageOnly
  <1>3. /\ Steady(a, b) /\ Opened(b) \subseteq Opened(a)
        /\ b \in ResponsesType /\ b.sent \in Seq(ResponseEvents) /\ Numbered(b) /\ Parked(b)
        /\ (~c.reasoning => Same(a.sent, b.sent))
    BY <1>1, BeginEffect
  <1> HIDE DEF b, r
  <1>4. /\ Count(b.sent, ItemDeltas("text")) = Count(a.sent, ItemDeltas("text"))
        /\ Count(b.sent, ItemDeltas("reasoning")) = Count(a.sent, ItemDeltas("reasoning"))
        /\ Count(b.sent, Completions) = Count(a.sent, Completions)
        /\ \A x : Count(b.sent, CompletionsOf(x)) = Count(a.sent, CompletionsOf(x))
    BY <1>1, <1>3, SameCounts
  <1>5. /\ a.buffered = <<>> => r = b
        /\ a.buffered # <<>> =>
             /\ r \in ResponsesType /\ Numbered(r) /\ Opened(r) \subseteq Opened(a)
             /\ r.buffered = <<>> /\ Answered(r, u)
             /\ Count(r.sent, ItemDeltas("text")) = Count(a.sent, ItemDeltas("text"))
             /\ Count(r.sent, ItemDeltas("reasoning")) = Count(a.sent, ItemDeltas("reasoning"))
    <2>1. LET x == UsageArrives(b, c)
          IN  /\ a.buffered = <<>> => x = b
              /\ a.buffered # <<>> =>
                   /\ x \in ResponsesType /\ Numbered(x) /\ Opened(x) \subseteq Opened(a)
                   /\ x.buffered = <<>> /\ Answered(x, c.usage)
                   /\ Count(x.sent, ItemDeltas("text")) = Count(a.sent, ItemDeltas("text"))
                   /\ Count(x.sent, ItemDeltas("reasoning")) = Count(a.sent, ItemDeltas("reasoning"))
      BY <1>1, <1>3, ArrivalEffect
    <2>2. QED
      BY <1>1, <1>2, <2>1
  <1>6. /\ Opened(a) \subseteq Started(f) /\ Tallied(a.sent, f) /\ Completing(a, f, u)
    BY DEF ResponsesLive
  <1>7. CASE a.buffered = <<>>
    <2>1. b.buffered = <<>> /\ b.deferred = a.deferred /\ b.completed = a.completed
      BY <1>3, <1>7 DEF Steady
    <2>2. Completing(b, f, u)
      BY <1>4, <1>6, <1>7, <2>1 DEF Completing, Pending, Answered
    <2>3. ResponsesLive(b, f, u)
      BY <1>3, <1>4, <1>6, <2>2 DEF ResponsesLive, Tallied
    <2>4. QED
      BY <1>5, <1>7, <2>1, <2>3 DEF Spent, r, c
  <1>8. CASE a.buffered # <<>>
    <2>1. At(f, FinishChunks) # {}
      BY <1>6, <1>8 DEF Completing
    <2>2. Completing(r, f, u) /\ Parked(r)
      BY <1>5, <1>8, <2>1 DEF Completing, Parked
    <2>3. ResponsesLive(r, f, u)
      BY <1>5, <1>6, <1>8, <2>2 DEF ResponsesLive, Tallied
    <2>4. QED
      BY <1>5, <1>8, <2>3 DEF Spent, r, c
  <1>9. QED
    BY <1>7, <1>8

\* The adapter of the Responses API: within the stream, and behind its end.
ResponsesInv ==
  api = "responses" =>
    IF phase = "ended"
    THEN \E a : /\ ResponsesLive(a, fed, usage)
                /\ outcome = "exhausted" => Spent(a, usage)
                /\ adapter = IF outcome = "failed" THEN ResponsesError(a) ELSE ResponsesEnd(a)
    ELSE /\ ResponsesLive(adapter, fed, usage)
         /\ outcome = "exhausted" => Spent(adapter, usage)

\* A stream of the Responses API numbers its items, has a delta for each piece and
\* tells its usage once.
THEOREM ResponsesInduction == Spec => []ResponsesInv
  <1>1. Init => ResponsesInv
    <2> SUFFICES ASSUME Init, api = "responses"
                 PROVE  ResponsesLive(adapter, fed, usage) /\ Spent(adapter, usage)
      BY DEF Init, ResponsesInv
    <2>1. fed = <<>> /\ usage = {} /\ adapter = ResponsesStart
      BY DEF Init
    <2>2. /\ adapter.sent = <<>> /\ adapter.buffered = <<>> /\ ~adapter.completed /\ adapter.deferred = {}
          /\ adapter.next = 0 /\ \A k \in Items : adapter.item[k].state = "none"
      BY <2>1 DEF ResponsesStart, NoItem
    <2>3. ResponsesStart \in ResponsesType
      <3>1. /\ <<>> \in Seq(Calls) /\ <<>> \in Seq(ChunkType) /\ <<>> \in Seq(ResponseEvents)
            /\ {} \in SUBSET AllTokens
        BY EmptySeq
      <3>2. NoItem \in ItemType
        BY DEF NoItem, ItemType
      <3>3. [k \in Items |-> NoItem] \in [Items -> ItemType]
        BY <3>2
      <3>4. QED
        BY <3>1, <3>3 DEF ResponsesStart, ResponsesType
    <2>4. \A T : At(<<>>, T) = {} /\ Count(<<>>, T) = 0
      BY CountEmpty
    <2>5. Opened(adapter) = {} /\ AddedItems(adapter) = {}
      BY <2>2, ItemKinds DEF Opened, AddedItems
    <2>6. Numbered(adapter)
      BY <2>2, <2>5, FS_EmptySet DEF Numbered
    <2>7. Tallied(adapter.sent, fed) /\ Parked(adapter)
      BY <2>1, <2>2, <2>4 DEF Tallied, Parked
    <2>8. Completing(adapter, fed, usage)
      BY <2>1, <2>2, <2>4 DEF Completing, Pending
    <2>9. QED
      BY <2>1, <2>2, <2>3, <2>5, <2>6, <2>7, <2>8 DEF ResponsesLive, Spent
  <1>2. FedInv /\ WrapperInv /\ ResponsesInv /\ [Next]_vars => ResponsesInv'
    <2> SUFFICES ASSUME FedInv, WrapperInv, ResponsesInv, [Next]_vars, api = "responses"
                 PROVE  /\ phase' = "ended" =>
                             \E a : /\ ResponsesLive(a, fed', usage')
                                    /\ outcome' = "exhausted" => Spent(a, usage')
                                    /\ adapter' = IF outcome' = "failed" THEN ResponsesError(a) ELSE ResponsesEnd(a)
                        /\ phase' # "ended" =>
                             /\ ResponsesLive(adapter', fed', usage')
                             /\ outcome' = "exhausted" => Spent(adapter', usage')
      <3>1. [Next]_vars => api' = api
        BY DEF Next, Feed, Exhaust, Fail, Leave, Unwind, Record, LeaveReconciling, Close, vars
      <3>2. QED
        BY <3>1 DEF ResponsesInv
    <2>1. phase # "ended" => /\ ResponsesLive(adapter, fed, usage)
                             /\ outcome = "exhausted" => Spent(adapter, usage)
      BY DEF ResponsesInv
    <2>2. fed \in Seq(ChunkType) /\ usage \in SUBSET AllTokens /\ (phase = "streaming" <=> outcome = "none")
      BY DEF FedInv, WrapperInv
    <2>3. CASE Feed
      <3>1. PICK c \in Upcoming : /\ fed' = Append(fed, c)
                                  /\ usage' = IF c.usage = {} THEN usage ELSE c.usage
                                  /\ AdapterFeed(Stripped(c))
        BY <2>3 DEF Feed
      <3>2. phase = "streaming" /\ phase' = phase /\ outcome' = "none"
        BY <2>2, <2>3 DEF Feed
      <3>3. adapter' = ResponsesFeed(adapter, c)
        BY <3>1 DEF AdapterFeed, Stripped
      <3>4. /\ Shape(c, fed)
            /\ At(fed, FinishChunks) = {} \/ (UsageOnly(c) /\ ~IsMarker(c) /\ usage \in {{}, c.usage})
        BY UpcomingTurn
      <3>5. ResponsesLive(ResponsesFeed(adapter, c), Append(fed, c), IF c.usage = {} THEN usage ELSE c.usage)
        BY <2>1, <2>2, <3>2, <3>4, ResponsesStep
      <3>6. QED
        BY <3>1, <3>2, <3>3, <3>5
    <2>4. CASE Exhaust
      <3>1. /\ phase = "streaming" /\ phase' = "unwinding" /\ fed' = fed /\ usage' = usage
            /\ IF usage = {} THEN adapter' = adapter ELSE AdapterFeed(Using(Chunk, usage))
        BY <2>4 DEF Exhaust
      <3>2. ResponsesLive(adapter, fed, usage)
        BY <2>1, <3>1
      <3>3. ResponsesLive(adapter', fed, usage) /\ Spent(adapter', usage)
        <4>1. CASE usage = {}
          BY <3>1, <3>2, <4>1 DEF Spent
        <4>2. CASE usage # {}
          <5>1. adapter' = ResponsesFeed(adapter, Using(Chunk, usage))
            BY <3>1, <4>2 DEF AdapterFeed
          <5>2. LET r == ResponsesFeed(adapter, Using(Chunk, usage))
                IN  ResponsesLive(r, fed, usage) /\ Spent(r, usage)
            BY <2>2, <3>2, <4>2, PriceResponses
          <5>3. QED
            BY <5>1, <5>2
        <4>3. QED
          BY <4>1, <4>2
      <3>4. QED
        BY <3>1, <3>3
    <2>5. CASE Fail \/ Leave \/ Unwind \/ Record \/ LeaveReconciling
      <3>1. /\ phase # "ended" /\ phase' # "ended" /\ UNCHANGED <<adapter, fed, usage>>
            /\ outcome' = "exhausted" => outcome = "exhausted"
        BY <2>5 DEF Fail, Leave, Unwind, Record, LeaveReconciling
      <3>2. QED
        BY <2>1, <3>1
    <2>6. CASE Close
      <3>1. phase = "closed" /\ phase' = "ended" /\ UNCHANGED <<fed, usage, outcome>>
            /\ adapter' = IF outcome = "failed" THEN ResponsesError(adapter) ELSE ResponsesEnd(adapter)
        BY <2>6 DEF Close
      <3>2. QED
        BY <2>1, <3>1
    <2>7. CASE UNCHANGED vars
      <3>1. UNCHANGED <<adapter, fed, usage, phase, outcome>>
        BY <2>7 DEF vars
      <3>2. QED
        BY <3>1 DEF ResponsesInv
    <2>8. QED
      BY <2>3, <2>4, <2>5, <2>6, <2>7 DEF Next
  <1>3. QED
    BY <1>1, <1>2, FedInduction, WrapperInduction, PTL DEF Spec

-----------------------------------------------------------------------------
(* The Responses API: the end of the stream.                               *)

\* v was told, or is what is to be told at the end.
Closing(a, v) ==
  \/ Pending(a) /\ a.deferred = v
  \/ a.completed /\ Count(a.sent, Completions) = 1 /\ Count(a.sent, CompletionsOf(v)) = 1

\* The pieces of text and of reasoning that were sent.
SameDeltas(s, t) ==
  /\ Count(t, ItemDeltas("text")) = Count(s, ItemDeltas("text"))
  /\ Count(t, ItemDeltas("reasoning")) = Count(s, ItemDeltas("reasoning"))

\* A completion that was put off is made up for.
LEMMA LateCompletion ==
  ASSUME NEW b \in ResponsesType, NEW v \in SUBSET AllTokens, NEW o \in Seq(OutputType), Closing(b, v)
  PROVE  LET d == IF b.completed THEN b ELSE Complete(b, o, b.deferred)
         IN  /\ d \in ResponsesType /\ (Numbered(b) => Numbered(d)) /\ SameDeltas(b.sent, d.sent)
             /\ Count(d.sent, Completions) = 1 /\ Count(d.sent, CompletionsOf(v)) = 1
  <1>1. CASE b.completed
    BY <1>1 DEF Closing, Pending, SameDeltas
  <1>2. CASE ~b.completed
    <2> DEFINE d == Complete(b, o, v)
    <2>1. b.deferred = v /\ Count(b.sent, Completions) = 0 /\ b.sent \in Seq(ResponseEvents)
      BY <1>2 DEF Closing, Pending, ResponsesType
    <2>2. d \in ResponsesType /\ d.item = b.item /\ d.next = b.next /\ \E e \in CompletionsOf(v) : More(b.sent, d.sent, e)
      BY CompleteEffect
    <2> HIDE DEF d
    <2>3. /\ Count(d.sent, ItemDeltas("text")) = Count(b.sent, ItemDeltas("text"))
          /\ Count(d.sent, ItemDeltas("reasoning")) = Count(b.sent, ItemDeltas("reasoning"))
          /\ Count(d.sent, Completions) = Count(b.sent, Completions) + 1
          /\ Count(d.sent, CompletionsOf(v)) = Count(b.sent, CompletionsOf(v)) + 1
      BY <2>1, <2>2, MoreCompletions
    <2>4. Count(b.sent, CompletionsOf(v)) = 0
      BY <2>1, NoCompletions
    <2>5. Numbered(b) => Numbered(d)
      BY <2>2 DEF Numbered, AddedItems
    <2>6. QED
      BY <1>2, <2>1, <2>2, <2>3, <2>4, <2>5 DEF d, SameDeltas
  <1>3. QED
    BY <1>1, <1>2

\* A finish that still waits is settled without usage.
LEMMA LateFinish ==
  ASSUME NEW o \in ResponsesType, NEW v \in SUBSET AllTokens, Parked(o), Numbered(o),
         IF o.buffered = <<>> THEN Closing(o, v) ELSE Pending(o) /\ v = {}
  PROVE  LET b == IF o.buffered = <<>> THEN o
                  ELSE FormatFinish(o, o.buffered[1].tools, o.buffered[1].usage, FALSE)
         IN  b \in ResponsesType /\ Numbered(b) /\ SameDeltas(o.sent, b.sent) /\ Closing(b, v)
  <1>1. CASE o.buffered = <<>>
    BY <1>1 DEF SameDeltas
  <1>2. CASE o.buffered # <<>>
    <2> DEFINE b == FormatFinish(o, <<>>, {}, FALSE)
    <2>1. o.buffered[1].tools = <<>> /\ o.buffered[1].usage = {}
      BY <1>2 DEF Parked
    <2>2. <<>> \in Seq(ToolType) /\ Fresh(o, <<>>) /\ {} \in SUBSET AllTokens
      BY EmptySeq DEF Fresh
    <2>3. Pending(o) /\ v = {} /\ o.sent \in Seq(ResponseEvents)
      BY <1>2 DEF ResponsesType
    <2>4. Settled(o, b, {})
      BY <2>2, <2>3, FormatFinishEffect DEF Pending
    <2> HIDE DEF b
    <2>5. b \in ResponsesType /\ Numbered(b)
      BY <2>4 DEF Settled
    <2>6. SameDeltas(o.sent, b.sent) /\ Closing(b, v)
      <3>1. CASE b.deferred = {} /\ ~b.completed /\ Same(o.sent, b.sent)
        BY <2>3, <3>1, SameCounts DEF Closing, Pending, SameDeltas
      <3>2. CASE b.completed /\ \E e \in CompletionsOf({}) : More(o.sent, b.sent, e)
        <4>1. Count(o.sent, CompletionsOf({})) = 0 /\ Count(o.sent, Completions) = 0
          BY <2>3, NoCompletions DEF Pending
        <4>2. /\ Count(b.sent, ItemDeltas("text")) = Count(o.sent, ItemDeltas("text"))
              /\ Count(b.sent, ItemDeltas("reasoning")) = Count(o.sent, ItemDeltas("reasoning"))
              /\ Count(b.sent, Completions) = Count(o.sent, Completions) + 1
              /\ Count(b.sent, CompletionsOf({})) = Count(o.sent, CompletionsOf({})) + 1
          BY <2>3, <3>2, MoreCompletions
        <4>3. QED
          BY <2>3, <3>2, <4>1, <4>2 DEF Closing, SameDeltas
      <3>3. QED
        BY <2>4, <3>1, <3>2 DEF Settled
    <2>7. QED
      BY <1>2, <2>1, <2>5, <2>6 DEF b
  <1>3. QED
    BY <1>1, <1>2

\* The events that bring nothing.
LEMMA QuietEvents ==
  ASSUME NEW type \in {"created", "end", "error"}
  PROVE  Event(type, "response", 0, 0) \in ResponseEvents \ Telltale
  <1> DEFINE e == Event(type, "response", 0, 0)
  <1>1. e \in ResponseEvents /\ e.type = type
    <2>1. "response" \in Items \cup {"response"} /\ 0 \in Nat
      OBVIOUS
    <2>2. QED
      BY <2>1, ResponseEvent
  <1> HIDE DEF e
  <1>2. e \in ResponseEvents \ Telltale
    BY <1>1 DEF Telltale
  <1>3. QED
    BY <1>2 DEF e

\* An error ends the stream with what was sent.
LEMMA ResponsesErrorEffect ==
  ASSUME NEW a \in ResponsesType, Numbered(a)
  PROVE  ResponsesError(a) \in ResponsesType /\ Numbered(ResponsesError(a))
  <1> DEFINE e == Event("error", "response", 0, 0)
             z == Event("end", "response", 0, 0)
             b == Emit(a, e)
  <1>1. e \in ResponseEvents \ Telltale /\ z \in ResponseEvents \ Telltale
    BY QuietEvents
  <1>2. ResponsesError(a) = Emit(b, z)
    BY DEF ResponsesError
  <1> HIDE DEF e, z
  <1>3. Calm(a, b)
    BY <1>1, EmitEffect
  <1>4. b \in ResponsesType /\ Numbered(b)
    BY <1>3 DEF Calm
  <1> HIDE DEF b
  <1>5. Calm(b, Emit(b, z))
    BY <1>1, <1>4, EmitEffect
  <1>6. QED
    BY <1>2, <1>4, <1>5 DEF Calm

\* The end makes up for what waits, and has told the usage once behind a finish.
LEMMA ResponsesEndEffect ==
  ASSUME NEW a, NEW f, NEW u \in SUBSET AllTokens, ResponsesLive(a, f, u)
  PROVE  LET r == ResponsesEnd(a)
         IN  /\ r \in ResponsesType /\ Numbered(r) /\ SameDeltas(a.sent, r.sent)
             /\ At(f, FinishChunks) # {} /\ Spent(a, u) =>
                  Count(r.sent, Completions) = 1 /\ Count(r.sent, CompletionsOf(u)) = 1
  <1> DEFINE o == Open(a)
             b == IF o.buffered = <<>> THEN o
                  ELSE FormatFinish(o, o.buffered[1].tools, o.buffered[1].usage, FALSE)
             n == b.item["reasoning"].size
             m == IF b.item["text"].state = "none" THEN 0 ELSE b.full
             w == OutputOf("reasoning", n) \o OutputOf("text", m) \o CallsOutput(b)
             d == IF b.completed THEN b ELSE Complete(b, w, b.deferred)
             z == Event("end", "response", 0, 0)
  <1>1. ResponsesEnd(a) = Emit(d, z)
    BY DEF ResponsesEnd
  <1>2. a \in ResponsesType /\ a.sent \in Seq(ResponseEvents) /\ Parked(a) /\ Numbered(a) /\ Completing(a, f, u)
    BY DEF ResponsesLive, ResponsesType
  <1>3. Steady(a, o) /\ Same(a.sent, o.sent)
    BY <1>2, OpenEffect
  <1> HIDE DEF o
  <1>4. /\ o \in ResponsesType /\ Parked(o) /\ Numbered(o) /\ o.buffered = a.buffered
        /\ o.deferred = a.deferred /\ o.completed = a.completed
    BY <1>2, <1>3 DEF Steady, Parked
  <1>5. SameDeltas(a.sent, o.sent) /\ Count(o.sent, Completions) = Count(a.sent, Completions)
        /\ \A x : Count(o.sent, CompletionsOf(x)) = Count(a.sent, CompletionsOf(x))
    BY <1>3, SameCounts DEF SameDeltas
  <1>6. PICK v \in SUBSET AllTokens :
          /\ IF o.buffered = <<>> THEN Closing(o, v) ELSE Pending(o) /\ v = {}
          /\ At(f, FinishChunks) # {} /\ Spent(a, u) => v = u
    <2>1. CASE At(f, FinishChunks) = {}
      <3>1. Pending(o) /\ o.deferred = {}
        BY <1>2, <1>4, <1>5, <2>1 DEF Completing, Pending
      <3>2. Closing(o, {}) /\ {} \in SUBSET AllTokens
        BY <3>1 DEF Closing
      <3>3. QED
        BY <2>1, <3>1, <3>2
    <2>2. CASE At(f, FinishChunks) # {} /\ a.buffered # <<>>
      <3>1. Pending(o)
        BY <1>2, <1>4, <1>5, <2>2 DEF Completing, Pending
      <3>2. Spent(a, u) => {} = u
        BY <2>2 DEF Spent
      <3>3. o.buffered # <<>> /\ {} \in SUBSET AllTokens
        BY <1>4, <2>2
      <3>4. QED
        BY <3>1, <3>2, <3>3
    <2>3. CASE At(f, FinishChunks) # {} /\ a.buffered = <<>>
      <3>1. Closing(o, u)
        BY <1>2, <1>4, <1>5, <2>3 DEF Completing, Pending, Answered, Closing
      <3>2. QED
        BY <1>4, <2>3, <3>1
    <2>4. QED
      BY <2>1, <2>2, <2>3
  <1>7. b \in ResponsesType /\ Numbered(b) /\ SameDeltas(o.sent, b.sent) /\ Closing(b, v)
    BY <1>4, <1>6, LateFinish
  <1> HIDE DEF b
  <1>8. w \in Seq(OutputType)
    <2>1. n \in Nat /\ m \in Nat
      BY <1>7, ItemKinds DEF ResponsesType, ItemType
    <2> HIDE DEF n, m
    <2> DEFINE w1 == OutputOf("reasoning", n)
               w2 == OutputOf("text", m)
               w3 == CallsOutput(b)
    <2>2. w1 \in Seq(OutputType) /\ w3 \in Seq(OutputType)
      BY <1>7, <2>1, OutputTypes
    <2>3. w2 \in Seq(OutputType)
      BY <1>7, <2>1, OutputTypes
    <2> HIDE DEF w1, w2, w3
    <2>4. w1 \o w2 \in Seq(OutputType)
      BY <2>2, <2>3, ConcatProperties
    <2>5. (w1 \o w2) \o w3 \in Seq(OutputType)
      BY <2>2, <2>4, ConcatProperties
    <2>6. QED
      BY <2>5 DEF w1, w2, w3
  <1> HIDE DEF w
  <1>9. /\ d \in ResponsesType /\ (Numbered(b) => Numbered(d)) /\ SameDeltas(b.sent, d.sent)
        /\ Count(d.sent, Completions) = 1 /\ Count(d.sent, CompletionsOf(v)) = 1
    BY <1>7, <1>8, LateCompletion
  <1> HIDE DEF d
  <1>10. z \in ResponseEvents \ Telltale
    BY QuietEvents
  <1> HIDE DEF z
  <1> DEFINE r == Emit(d, z)
  <1>11. Calm(d, r)
    BY <1>9, <1>10, EmitEffect
  <1> HIDE DEF r
  <1>12. r \in ResponsesType /\ Same(d.sent, r.sent) /\ Numbered(r)
    BY <1>7, <1>9, <1>11 DEF Calm
  <1>13. /\ SameDeltas(d.sent, r.sent) /\ Count(r.sent, Completions) = Count(d.sent, Completions)
         /\ \A x : Count(r.sent, CompletionsOf(x)) = Count(d.sent, CompletionsOf(x))
    BY <1>12, SameCounts DEF SameDeltas
  <1>14. SameDeltas(a.sent, r.sent)
    BY <1>5, <1>7, <1>9, <1>13 DEF SameDeltas
  <1>15. Count(r.sent, Completions) = 1 /\ Count(r.sent, CompletionsOf(v)) = 1
    BY <1>9, <1>13
  <1>16. ResponsesEnd(a) = r
    BY <1>1 DEF r
  <1>17. QED
    BY <1>6, <1>12, <1>14, <1>15, <1>16

-----------------------------------------------------------------------------
(* Types and bounds.                                                       *)

\* The adapter of the Responses API at any time: its items have their indexes.
LEMMA ResponsesTyped ==
  ASSUME ResponsesInv, usage \in SUBSET AllTokens, api = "responses"
  PROVE  adapter \in ResponsesType /\ Numbered(adapter)
  <1>1. CASE phase # "ended"
    BY <1>1 DEF ResponsesInv, ResponsesLive
  <1>2. CASE phase = "ended"
    <2>1. PICK a : /\ ResponsesLive(a, fed, usage)
                   /\ adapter = IF outcome = "failed" THEN ResponsesError(a) ELSE ResponsesEnd(a)
      BY <1>2 DEF ResponsesInv
    <2>2. a \in ResponsesType /\ Numbered(a)
      BY <2>1 DEF ResponsesLive
    <2>3. ResponsesError(a) \in ResponsesType /\ Numbered(ResponsesError(a))
      BY <2>2, ResponsesErrorEffect
    <2>4. ResponsesEnd(a) \in ResponsesType /\ Numbered(ResponsesEnd(a))
      BY <2>1, ResponsesEndEffect
    <2>5. QED
      BY <2>1, <2>3, <2>4
  <1>3. QED
    BY <1>1, <1>2

\* The adapter of the Messages API at any time: a block has an index of its own.
LEMMA MessagesIndexed ==
  ASSUME MessagesInv, FedInv, api = "messages"
  PROVE  adapter.index = 0 \/ adapter.index < Count(fed, Filled)
  <1>1. ASSUME NEW a, MessagesLive(a, fed, usage) PROVE a.index = 0 \/ a.index < Count(fed, Filled)
    BY <1>1 DEF MessagesLive, MessagesType
  <1>2. CASE phase # "ended"
    BY <1>1, <1>2 DEF MessagesInv
  <1>3. CASE phase = "ended"
    <2>1. PICK a : /\ MessagesLive(a, fed, usage)
                   /\ adapter = IF outcome = "failed" THEN MessagesError(a) ELSE MessagesEnd(a)
      BY <1>3 DEF MessagesInv
    <2>2. adapter.index = a.index
      BY <2>1, MessagesEnded
    <2>3. QED
      BY <1>1, <2>1, <2>2
  <1>4. QED
    BY <1>2, <1>3

\* The variables keep to their types, the stream to the number of its chunks, and the
\* counters of items and blocks to the items there are and the chunks there were.
THEOREM TypeCorrect == Spec => []TypeOK
  <1>1. FedInv /\ IInv /\ WrapperInv /\ MessagesInv /\ ResponsesInv => TypeOK
    <2> SUFFICES ASSUME FedInv, IInv, WrapperInv, MessagesInv, ResponsesInv PROVE TypeOK
      OBVIOUS
    <2> USE MaxContentAssumption
    <2>1. /\ api \in Apis /\ family \in Families /\ phase \in Phases /\ outcome \in Outcomes
          /\ usage \in SUBSET AllTokens /\ fed \in Seq(ChunkType)
      BY DEF FedInv, WrapperInv, IInv, BilledInv
    <2>2. \A i \in DOMAIN billed : billed[i] \subseteq AllTokens
      <3>1. billed = <<>> \/ billed = <<usage>>
        BY DEF IInv, BilledInv, Phases
      <3>2. QED
        BY <2>1, <3>1
    <2>3. Len(fed) <= MaxContent[family] + 3
      <3>1. /\ Count(fed, ContentChunk) \in Nat /\ Count(fed, EndChunk) \in Nat
            /\ Count(fed, QuietChunk) \in Nat /\ MaxContent[family] \in Nat
        BY <2>1, CountZero
      <3>2. QED
        BY <3>1 DEF FedInv
    <2>4. api = "responses" => adapter.next \in 0..Cardinality(Items)
      <3>1. SUFFICES ASSUME api = "responses" PROVE adapter.next \in 0..Cardinality(Items)
        OBVIOUS
      <3>2. adapter.next = Cardinality(AddedItems(adapter))
        BY <2>1, <3>1, ResponsesTyped DEF Numbered
      <3>3. /\ Cardinality(AddedItems(adapter)) \in Nat /\ Cardinality(Items) \in Nat
            /\ Cardinality(AddedItems(adapter)) <= Cardinality(Items)
        BY ItemsFinite
      <3>4. QED
        BY <3>2, <3>3
    <2>5. api = "messages" => adapter.index = 0 \/ adapter.index < Cardinality(FedWith(HasContent))
      <3>1. \A i \in DOMAIN fed : fed[i] \in ChunkType
        BY <2>1, ElementOfSeq, LenProperties
      <3>2. FedWith(HasContent) = At(fed, Filled)
        BY <3>1 DEF FedWith, At, Filled
      <3>3. QED
        BY <3>2, MessagesIndexed DEF Count
    <2>6. QED
      BY <2>1, <2>2, <2>3, <2>4, <2>5 DEF TypeOK
  <1>2. QED
    BY <1>1, FedInduction, Induction, WrapperInduction, MessagesInduction, ResponsesInduction, PTL

-----------------------------------------------------------------------------
(* Every piece is delivered.                                               *)

\* A stream that was served has ended without an error.
LEMMA ServedChat ==
  ASSUME ChatInv, api = "chat", Served
  PROVE  /\ adapter.sent \in Seq(ChatEventType) /\ ChatCounted(adapter.sent, fed)
         /\ ChatTold(adapter.sent, usage)
         /\ {i \in DOMAIN sent : sent[i].delta.text} = At(sent, ChatTexts)
         /\ {i \in DOMAIN sent : sent[i].delta.reasoning} = At(sent, ChatThoughts)
         /\ {i \in DOMAIN sent : sent[i].delta.usage # {}} = At(sent, ChatUsages)
  <1>1. /\ adapter.sent \in Seq(ChatEventType) /\ ChatCounted(adapter.sent, fed)
        /\ ChatTold(adapter.sent, usage)
    BY DEF ChatInv, ChatType, Served
  <1>2. \A i \in DOMAIN sent : sent[i] \in ChatEventType
    BY <1>1, ElementOfSeq, LenProperties DEF sent
  <1>3. QED
    BY <1>1, <1>2 DEF At, ChatTexts, ChatThoughts, ChatUsages

\* In the Messages API its last events tell the usage and stop the message.
LEMMA ServedMessages ==
  ASSUME FedInv, MessagesInv, api = "messages", Served
  PROVE  \E s \in Seq(EventType), e \in EventType, z \in EventType :
           /\ sent = Append(Append(s, e), z) /\ e = MessageDelta(usage)
           /\ z.type = "message_stop" /\ e.type = "message_delta" /\ Counted(s, fed)
           /\ adapter.sent \in Seq(EventType)
  <1>1. PICK a : MessagesLive(a, fed, usage) /\ adapter = MessagesEnd(a)
    BY DEF MessagesInv, Served
  <1>2. PICK s \in Seq(EventType), e \in EventType, z \in EventType :
          /\ sent = Append(Append(s, e), z) /\ z = Event("message_stop", "message", 0, 0)
          /\ e = MessageDelta(usage) /\ s = Late(a)
    <2>1. adapter = IF outcome = "failed" THEN MessagesError(a) ELSE MessagesEnd(a)
      BY <1>1 DEF Served
    <2>2. \E s \in Seq(EventType), e \in EventType, z \in EventType :
            /\ sent = Append(Append(s, e), z) /\ z = Event("message_stop", "message", 0, 0)
            /\ e = IF outcome = "failed" THEN Event("error", "message", 0, 0) ELSE MessageDelta(usage)
            /\ s = IF outcome = "failed" THEN a.sent ELSE Late(a)
            /\ adapter.index = a.index
            /\ fed # <<>> => Framed(s)
            /\ fed = <<>> => s = <<>>
      BY <1>1, <2>1, MessagesEnded
    <2>3. outcome # "failed"
      BY DEF Served
    <2>4. QED
      BY <2>2, <2>3
  <1>3. z.type = "message_stop" /\ e.type = "message_delta"
    BY <1>2, OtherFields DEF Event
  <1>4. Counted(s, fed)
    <2>1. a \in MessagesType /\ fed \in Seq(ChunkType) /\ Waiting(a, fed) /\ Counted(a.sent, fed)
      BY <1>1 DEF MessagesLive, FedInv
    <2>2. /\ Count(Late(a), Deltas("thinking")) = Count(a.sent, Deltas("thinking"))
          /\ Count(Late(a), Deltas("text")) = Count(a.sent, Deltas("text"))
      BY <2>1, LateKeeps
    <2>3. QED
      BY <1>2, <2>1, <2>2 DEF Counted
  <1>5. adapter.sent \in Seq(EventType)
    BY <1>2, AppendFacts DEF sent
  <1>6. QED
    BY <1>2, <1>3, <1>4, <1>5

\* In the Responses API one completion tells the usage, behind a finish.
LEMMA ServedResponses ==
  ASSUME ResponsesInv, usage \in SUBSET AllTokens, api = "responses", Served
  PROVE  /\ adapter.sent \in Seq(ResponseEvents) /\ Tallied(adapter.sent, fed)
         /\ At(fed, FinishChunks) # {} =>
              Count(adapter.sent, Completions) = 1 /\ Count(adapter.sent, CompletionsOf(usage)) = 1
         /\ \A i \in DOMAIN sent : sent[i] \in ResponseEvents
  <1>1. PICK a : ResponsesLive(a, fed, usage) /\ Spent(a, usage) /\ adapter = ResponsesEnd(a)
    BY DEF ResponsesInv, Served
  <1>2. LET r == ResponsesEnd(a)
        IN  /\ r \in ResponsesType /\ Numbered(r) /\ SameDeltas(a.sent, r.sent)
            /\ At(fed, FinishChunks) # {} /\ Spent(a, usage) =>
                 Count(r.sent, Completions) = 1 /\ Count(r.sent, CompletionsOf(usage)) = 1
    BY <1>1, ResponsesEndEffect
  <1>3. adapter.sent \in Seq(ResponseEvents)
    BY <1>1, <1>2 DEF ResponsesType
  <1>4. Tallied(adapter.sent, fed)
    BY <1>1, <1>2 DEF SameDeltas, Tallied, ResponsesLive
  <1>5. \A i \in DOMAIN sent : sent[i] \in ResponseEvents
    BY <1>3, ElementOfSeq, LenProperties DEF sent
  <1>6. QED
    BY <1>1, <1>2, <1>3, <1>4, <1>5

\* The chunks with a text are those before the finish and those with it.
LEMMA TextsSplit ==
  ASSUME FedInv
  PROVE  /\ FedWith(LAMBDA c : c.text /\ ~c.whole) = At(fed, Worded)
         /\ FedWith(LAMBDA c : c.reasoning) = At(fed, Reasoned)
         /\ Count(fed, EarlyTexts) =
              Count(fed, Worded) - Cardinality(FedWith(LAMBDA c : LastText(c) /\ ~c.whole))
         /\ Count(fed, Worded) \in Nat
  <1> DEFINE W == FedWith(LAMBDA c : c.text /\ ~c.whole)
             L == FedWith(LAMBDA c : LastText(c) /\ ~c.whole)
             E == At(fed, EarlyTexts)
  <1>1. fed \in Seq(ChunkType) /\ \A i \in DOMAIN fed : fed[i] \in ChunkType /\ (fed[i].whole => fed[i].finish)
    BY ElementOfSeq, LenProperties DEF FedInv
  <1>2. W = At(fed, Worded)
    BY <1>1 DEF FedWith, At, Worded
  <1>3. FedWith(LAMBDA c : c.reasoning) = At(fed, Reasoned)
    BY <1>1 DEF FedWith, At, Reasoned
  <1>4. W = E \cup L /\ E \cap L = {}
    BY <1>1 DEF FedWith, At, EarlyTexts, LastText
  <1>5. /\ IsFiniteSet(E) /\ Count(fed, Worded) \in Nat /\ IsFiniteSet(At(fed, Worded))
        /\ Count(fed, EarlyTexts) \in Nat
    BY <1>1, CountZero
  <1> HIDE DEF W, L, E
  <1>6. IsFiniteSet(L)
    BY <1>2, <1>4, <1>5, FS_Subset
  <1>7. Cardinality(W) = Cardinality(E) + Cardinality(L) - Cardinality({})
    BY <1>4, <1>5, <1>6, FS_Union
  <1>8. Cardinality({}) = 0 /\ Cardinality(L) \in Nat
    BY <1>6, FS_EmptySet, FS_CardinalityType
  <1>9. Count(fed, EarlyTexts) = Count(fed, Worded) - Cardinality(L)
    BY <1>2, <1>5, <1>7, <1>8 DEF Count, E
  <1>10. QED
    BY <1>2, <1>3, <1>5, <1>9 DEF W, L

\* Each piece of text and of reasoning comes to the client once, in every API, but
\* for the text that comes with a finish in the Responses API.
THEOREM PiecesDelivered == Spec => []Delivered
  <1>1. FedInv /\ WrapperInv /\ ChatInv /\ MessagesInv /\ ResponsesInv => Delivered
    <2> DEFINE last == Cardinality(FedWith(LAMBDA c : LastText(c) /\ ~c.whole))
               pieces == Cardinality(FedWith(LAMBDA c : c.text /\ ~c.whole))
               thoughts == Cardinality(FedWith(LAMBDA c : c.reasoning))
    <2> SUFFICES ASSUME FedInv, WrapperInv, ChatInv, MessagesInv, ResponsesInv, Served
                 PROVE  /\ Cardinality(TextSent) = pieces - (IF api = "responses" THEN last ELSE 0)
                        /\ Cardinality(ReasoningSent) = thoughts
      BY DEF Delivered
    <2>1. /\ pieces = Count(fed, Worded) /\ thoughts = Count(fed, Reasoned)
          /\ Count(fed, EarlyTexts) = Count(fed, Worded) - last /\ Count(fed, Worded) \in Nat
      BY TextsSplit DEF Count
    <2> HIDE DEF last, pieces, thoughts
    <2>2. CASE api = "chat"
      <3>1. /\ ChatCounted(adapter.sent, fed)
            /\ {i \in DOMAIN sent : sent[i].delta.text} = At(sent, ChatTexts)
            /\ {i \in DOMAIN sent : sent[i].delta.reasoning} = At(sent, ChatThoughts)
        BY <2>2, ServedChat
      <3>2. TextSent = At(sent, ChatTexts) /\ ReasoningSent = At(sent, ChatThoughts)
        BY <2>2, <3>1 DEF TextSent, ReasoningSent
      <3>3. Cardinality(TextSent) = Count(fed, Worded) /\ Cardinality(ReasoningSent) = Count(fed, Reasoned)
        BY <3>1, <3>2 DEF ChatCounted, Count, sent
      <3>4. QED
        BY <2>1, <2>2, <3>3
    <2>3. CASE api = "messages"
      <3>1. PICK s \in Seq(EventType), e \in EventType, z \in EventType :
              /\ sent = Append(Append(s, e), z) /\ z.type = "message_stop" /\ e.type = "message_delta"
              /\ Counted(s, fed) /\ adapter.sent \in Seq(EventType)
        BY <2>3, ServedMessages
      <3>2. ASSUME NEW k PROVE Count(sent, Deltas(k)) = Count(s, Deltas(k))
        <4>1. e \notin Deltas(k) /\ z \notin Deltas(k)
          BY <3>1 DEF Deltas
        <4>2. Append(s, e) \in Seq(EventType)
          BY AppendFacts
        <4>3. /\ Count(Append(s, e), Deltas(k)) = Count(s, Deltas(k)) + (IF e \in Deltas(k) THEN 1 ELSE 0)
              /\ Count(s, Deltas(k)) \in Nat
          BY CountAppend
        <4>4. /\ Count(Append(Append(s, e), z), Deltas(k)) =
                   Count(Append(s, e), Deltas(k)) + (IF z \in Deltas(k) THEN 1 ELSE 0)
              /\ Count(Append(s, e), Deltas(k)) \in Nat
          BY <4>2, CountAppend
        <4>5. QED
          BY <3>1, <4>1, <4>3, <4>4
      <3>3. SentOf("delta", "text") = At(sent, Deltas("text"))
            /\ SentOf("delta", "thinking") = At(sent, Deltas("thinking"))
        BY <3>1, SentPlaces
      <3>4. TextSent = At(sent, Deltas("text")) /\ ReasoningSent = At(sent, Deltas("thinking"))
        BY <2>3, <3>3 DEF TextSent, ReasoningSent
      <3>5. Cardinality(TextSent) = Count(fed, Worded) /\ Cardinality(ReasoningSent) = Count(fed, Reasoned)
        BY <3>1, <3>2, <3>4 DEF Counted, Count
      <3>6. QED
        BY <2>1, <2>3, <3>5
    <2>4. CASE api = "responses"
      <3>1. Tallied(adapter.sent, fed) /\ \A i \in DOMAIN sent : sent[i] \in ResponseEvents
        BY <2>4, ServedResponses DEF WrapperInv
      <3>2. SentOf("delta", "text") = At(sent, ItemDeltas("text"))
            /\ SentOf("delta", "reasoning") = At(sent, ItemDeltas("reasoning"))
        BY <3>1 DEF SentOf, Sent, At, ItemDeltas
      <3>3. TextSent = At(sent, ItemDeltas("text")) /\ ReasoningSent = At(sent, ItemDeltas("reasoning"))
        BY <2>4, <3>2 DEF TextSent, ReasoningSent
      <3>4. Cardinality(TextSent) = Count(fed, EarlyTexts) /\ Cardinality(ReasoningSent) = Count(fed, Reasoned)
        BY <3>1, <3>3 DEF Tallied, Count, sent
      <3>5. QED
        BY <2>1, <2>4, <3>4
    <2>5. QED
      BY <2>2, <2>3, <2>4 DEF WrapperInv, Apis
  <1>2. QED
    BY <1>1, FedInduction, WrapperInduction, ChatInduction, MessagesInduction, ResponsesInduction, PTL

-----------------------------------------------------------------------------
(* The usage is told.                                                      *)

\* The client is told the usage that is billed, once, in every API; in the Responses
\* API behind a finish.
THEOREM UsageTold == Spec => []Told
  <1>1. FedInv /\ IInv /\ WrapperInv /\ ChatInv /\ MessagesInv /\ ResponsesInv /\ Envelope => Told
    <2> DEFINE telling == CASE api = "chat" -> {i \in DOMAIN sent : sent[i].delta.usage # {}}
                            [] api = "messages" -> {i \in Sent("message_delta") : sent[i].usage # {}}
                            [] api = "responses" -> {i \in Sent("completed") : sent[i].usage # {}}
               told(i) == IF api = "chat" THEN sent[i].delta.usage ELSE sent[i].usage
    <2> SUFFICES ASSUME FedInv, IInv, WrapperInv, ChatInv, MessagesInv, ResponsesInv, Envelope, Served,
                        api = "responses" => FinishFed # {}
                 PROVE  Cardinality(telling) = Len(billed) /\ \A i \in telling : told(i) = billed[1]
      BY DEF Told
    <2>1. SUFFICES IF usage = {} THEN telling = {} ELSE \E n : telling = {n} /\ told(n) = usage
      <3>1. billed = IF usage = {} THEN <<>> ELSE <<usage>>
        BY DEF IInv, BilledInv, Served
      <3>2. CASE usage = {}
        BY <2>1, <3>1, <3>2, FS_EmptySet
      <3>3. CASE usage # {}
        <4>1. PICK n : telling = {n} /\ told(n) = usage
          BY <2>1, <3>3
        <4>2. Len(billed) = 1 /\ billed[1] = usage
          BY <3>1, <3>3
        <4>3. Cardinality({n}) = 1
          BY FS_Singleton
        <4> HIDE DEF telling, told
        <4>4. QED
          BY <4>1, <4>2, <4>3
      <3>4. QED
        BY <3>2, <3>3
    <2>2. CASE api = "chat"
      <3>1. /\ adapter.sent \in Seq(ChatEventType) /\ ChatTold(adapter.sent, usage)
            /\ {i \in DOMAIN sent : sent[i].delta.usage # {}} = At(sent, ChatUsages)
        BY <2>2, ServedChat
      <3>2. telling = At(sent, ChatUsages)
        BY <2>2, <3>1
      <3>3. CASE usage = {}
        BY <3>1, <3>2, <3>3, CountZero DEF ChatTold, sent
      <3>4. CASE usage # {}
        <4>1. Count(sent, ChatUsages) = 1 /\ IsFiniteSet(At(sent, ChatUsages))
          BY <3>1, <3>4, CountZero DEF ChatTold, sent
        <4>2. PICK n : At(sent, ChatUsages) = {n}
          BY <4>1, FS_Singleton DEF Count
        <4>3. sent[n].delta.usage = usage
          BY <3>1, <4>2 DEF ChatTold, sent
        <4>4. QED
          BY <2>2, <3>2, <3>4, <4>2, <4>3
      <3>5. QED
        BY <3>3, <3>4
    <2>3. CASE api = "messages"
      <3>1. PICK s \in Seq(EventType), e \in EventType, z \in EventType :
              sent = Append(Append(s, e), z) /\ e = MessageDelta(usage)
        BY <2>3, ServedMessages
      <3>2. Append(s, e) \in Seq(EventType) /\ Len(Append(s, e)) = Len(s) + 1 /\ Len(s) \in Nat
            /\ Append(s, e)[Len(s) + 1] = e
        BY AppendFacts
      <3>3. Len(sent) = Len(s) + 2 /\ sent[Len(s) + 1] = e
        BY <3>1, <3>2, AppendFacts
      <3>4. Sent("message_delta") = {Len(s) + 1}
        BY <2>3, <3>2, <3>3 DEF Envelope
      <3>5. e.usage = usage
        BY <3>1 DEF MessageDelta, Telling, Event
      <3>6. telling = {i \in {Len(s) + 1} : sent[i].usage # {}}
        BY <2>3, <3>4
      <3>7. told(Len(s) + 1) = usage
        BY <2>3, <3>3, <3>5
      <3> HIDE DEF told, telling
      <3>8. QED
        BY <3>3, <3>5, <3>6, <3>7
    <2>4. CASE api = "responses"
      <3>1. /\ adapter.sent \in Seq(ResponseEvents) /\ \A i \in DOMAIN sent : sent[i] \in ResponseEvents
            /\ At(fed, FinishChunks) # {} =>
                 Count(adapter.sent, Completions) = 1 /\ Count(adapter.sent, CompletionsOf(usage)) = 1
        BY <2>4, ServedResponses DEF WrapperInv
      <3>2. At(fed, FinishChunks) # {}
        <4>1. \A i \in DOMAIN fed : fed[i] \in ChunkType
          BY ElementOfSeq, LenProperties DEF FedInv
        <4>2. FinishFed = At(fed, FinishChunks)
          BY <4>1 DEF FinishFed, FedWith, At, FinishChunks
        <4>3. QED
          BY <2>4, <4>2
      <3>3. IsFiniteSet(At(sent, Completions)) /\ IsFiniteSet(At(sent, CompletionsOf(usage)))
        BY <3>1, CountZero DEF sent
      <3>4. PICK n : At(sent, Completions) = {n}
        BY <3>1, <3>2, <3>3, FS_Singleton DEF Count, sent
      <3>5. PICK m : At(sent, CompletionsOf(usage)) = {m}
        BY <3>1, <3>2, <3>3, FS_Singleton DEF Count, sent
      <3>6. At(sent, CompletionsOf(usage)) \subseteq At(sent, Completions)
        BY DEF At, Completions, CompletionsOf
      <3>7. m = n
        BY <3>4, <3>5, <3>6
      <3>8. Sent("completed") = At(sent, Completions)
        BY <3>1 DEF Sent, At, Completions
      <3>9. sent[n].usage = usage
        BY <3>5, <3>7 DEF At, CompletionsOf
      <3>10. telling = {i \in {n} : sent[i].usage # {}}
        BY <2>4, <3>4, <3>8
      <3>11. told(n) = usage
        BY <2>4, <3>9
      <3> HIDE DEF told, telling
      <3>12. QED
        BY <3>9, <3>10, <3>11
    <2>5. QED
      BY <2>2, <2>3, <2>4 DEF WrapperInv, Apis
  <1>2. QED
    BY <1>1, FedInduction, Induction, WrapperInduction, ChatInduction, MessagesInduction,
       ResponsesInduction, MessagesEnvelope, PTL
=============================================================================
