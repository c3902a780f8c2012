------------------------ MODULE ResponseStreamProofs ------------------------
(***************************************************************************)
(* Type correctness of a translated stream, how it ends, and what an       *)
(* encoder shows, for any number of blocks, pieces and calls, any upstream *)
(* and any buffer.  The lemmas follow the events: what the decoders pass   *)
(* on is typed (and is in the middle of a stream, but for five of them),   *)
(* the encoders and the client's view keep their types under each, and so  *)
(* does the turn that is kept.  Then, what is held back stays unseen, and  *)
(* a stream that ends without an error has told its client so.  The second *)
(* half is what StreamAnswerProofs builds on: induction over the blocks of *)
(* an answer, a reader of canonical events and the steps it takes, and of  *)
(* each encoder, that its client reads what that reader reads.             *)
(***************************************************************************)
EXTENDS ResponseStream, SequenceTheorems, TLAPS, WellFoundedInduction

(* The events that end no stream, and those that do not start one either.  *)
Middle == {e \in Event : e.type \notin {"response_stop", "error"}}
Inner == {e \in Middle : e.type # "response_start"}

LEMMA EventsTyped ==
  /\ ResponseStart \in Middle /\ StreamError \in Event
  /\ \A counts \in Counts : Usage(counts) \in Inner
  /\ \A reason \in Reasons : ResponseStop(reason) \in Event
  /\ \A i \in Indexes : ContentStop(i) \in Inner
  /\ \A i \in Indexes, kind \in Kinds, p \in Nat :
       ContentStart(i, kind, p) \in Inner /\ Delta(i, kind, p) \in Inner
<1>1. 0 \in Indexes /\ Empty \in Nat
  BY StreamBounds DEF Indexes, Empty
<1>2. ResponseStart \in Middle /\ StreamError \in Event
  BY <1>1 DEF ResponseStart, StreamError, Plain, Event, Types, Middle
<1>3. \A counts \in Counts : Usage(counts) \in Inner
  BY <1>1 DEF Usage, Plain, Event, Types, Middle, Inner
<1>4. \A reason \in Reasons : ResponseStop(reason) \in Event
  BY <1>1 DEF ResponseStop, Plain, Event, Types
<1>5. \A i \in Indexes : ContentStop(i) \in Inner
  BY <1>1 DEF ContentStop, Plain, Event, Types, Middle, Inner
<1>6. ASSUME NEW i \in Indexes, NEW kind \in Kinds, NEW p \in Nat
      PROVE  ContentStart(i, kind, p) \in Inner /\ Delta(i, kind, p) \in Inner
  <2>1. ContentStart(i, kind, p) \in Event /\ Delta(i, kind, p) \in Event
    BY DEF ContentStart, Delta, Plain, Event, Types, Kinds
  <2>2. /\ ContentStart(i, kind, p).type \in {"content_start", "tool_call_start"}
        /\ Delta(i, kind, p).type \in {"text_delta", "reasoning_delta", "tool_call_delta"}
    BY DEF ContentStart, Delta, Plain, Kinds
  <2> QED
    BY <2>1, <2>2 DEF Middle, Inner
<1> QED
  BY <1>2, <1>3, <1>4, <1>5, <1>6

LEMMA InnerMiddle == Inner \subseteq Middle /\ Middle \subseteq Event
BY DEF Inner, Middle

LEMMA EmitTyped ==
  ASSUME NEW events \in Seq(Event), Emit(events)
  PROVE  /\ queue' \in Seq(Event) /\ stage' \in {"read", "accept"}
         /\ stage' = "accept" => queue' # <<>>
BY DEF Emit

LEMMA SendsTyped ==
  ASSUME up \in Upstream, NEW u \in Upstream, Sends(u)
  PROVE  up' \in Upstream
<1>1. u.pieces \in Nat /\ up.reads + 1 \in Nat
  BY DEF Upstream
<1>2. [up EXCEPT !.reads = @ + 1, !.pieces = u.pieces] \in Upstream
  BY <1>1 DEF Upstream
<1> QED
  BY <1>2 DEF Sends

(* A sequence mapped element by element.                                   *)
LEMMA MappedSeq ==
  ASSUME NEW S, NEW T, NEW s \in Seq(S), NEW f \in [DOMAIN s -> T]
  PROVE  f \in Seq(T) /\ Len(f) = Len(s) /\ DOMAIN f = DOMAIN s
<1>1. Len(s) \in Nat /\ DOMAIN s = 1 .. Len(s)
  BY LenProperties
<1>2. f \in [1 .. Len(s) -> T]
  BY <1>1, Zenon
<1>3. f \in Seq(T)
  BY <1>1, <1>2
<1> QED
  BY <1>1, <1>2, <1>3, LenProperties

LEMMA AddingTyped ==
  ASSUME up \in Upstream, NEW at \in Nat, NEW kind \in Kinds, NEW p \in NextPiece
  PROVE  Adding(at, kind, p) \in Upstream
<1> DEFINE grown == [k \in DOMAIN up.sent |->
                       IF up.sent[k].at = at
                       THEN [up.sent[k] EXCEPT !.data = @ \o Pieces(p)] ELSE up.sent[k]]
<1>1. p \in Nat /\ up.sent \in Seq(Block) /\ Pieces(p) \in Seq(Nat)
  BY StreamBounds DEF NextPiece, Upstream, Empty, Pieces
<1>2. grown \in Seq(Block)
  <2>1. ASSUME NEW k \in DOMAIN up.sent
        PROVE  grown[k] \in Block
    <3>1. up.sent[k] \in Block
      BY <1>1
    <3>2. up.sent[k].data \o Pieces(p) \in Seq(Nat)
      BY <3>1, <1>1 DEF Block
    <3>3. [up.sent[k] EXCEPT !.data = @ \o Pieces(p)] \in Block
      BY <3>1, <3>2 DEF Block
    <3> QED
      BY <3>1, <3>3
  <2>2. grown \in [DOMAIN up.sent -> Block]
    BY <2>1
  <2> QED
    BY <2>2, <1>1, MappedSeq
<1>3. Append(up.sent, Opened(at, kind, Pieces(p))) \in Seq(Block)
  <2>1. Opened(at, kind, Pieces(p)) \in Block
    BY <1>1 DEF Opened, Block
  <2> QED
    BY <2>1, <1>1
<1> QED
  BY <1>1, <1>2, <1>3 DEF Adding, Upstream, Phases
-----------------------------------------------------------------------------

DecodersTyped ==
  /\ fromAnthropic \in AnthropicDecoder
  /\ fromOpenAI \in OpenAIDecoder
  /\ fromGemini \in GeminiDecoder
  /\ fromOpenAI.closing => fromOpenAI.pendingStop # "none"

Decoding ==
  /\ up \in Upstream
  /\ stage \in Stages
  /\ queue \in Seq(Event)
  /\ stage \in {"accept", "encode"} => queue # <<>>
  /\ DecodersTyped

LEMMA AfterEmit ==
  ASSUME NEW S, S \subseteq Event, NEW u \in Upstream, NEW events \in Seq(S), up \in Upstream,
         Sends(u), Emit(events), DecodersTyped'
  PROVE  Decoding' /\ queue' \in Seq(S)
<1>1. events \in Seq(Event)
  OBVIOUS
<1> QED
  BY <1>1, SendsTyped, EmitTyped DEF Decoding, Stages, Emit

LEMMA AfterFail ==
  ASSUME NEW S, NEW u \in Upstream, up \in Upstream, Sends(u), Fail, DecodersTyped'
  PROVE  Decoding' /\ queue' \in Seq(S)
<1>1. queue' = <<>> /\ stage' = "failed"
  BY DEF Fail
<1>2. queue' \in Seq(Event) /\ queue' \in Seq(S)
  BY <1>1
<1> QED
  BY <1>1, <1>2, SendsTyped DEF Decoding, Stages

LEMMA SaysTyped ==
  ASSUME up \in Upstream, NEW phase \in Phases
  PROVE  [up EXCEPT !.phase = phase] \in Upstream
BY DEF Upstream

LEMMA MessageStartTyped ==
  ASSUME Decoding, NEW counts \in Counts, MessageStart(counts)
  PROVE  Decoding' /\ queue' \in Seq(Middle)
<1>1. <<ResponseStart, Usage(counts)>> \in Seq(Middle)
  BY EventsTyped, InnerMiddle
<1>2. DecodersTyped'
  BY DEF MessageStart, DecodersTyped, Decoding, AnthropicDecoder
<1> QED
  BY <1>1, <1>2, AfterEmit, InnerMiddle, SaysTyped DEF MessageStart, Says, Decoding, Phases

LEMMA BlockStartTyped ==
  ASSUME up \in Upstream, NEW i \in Indexes, NEW kind \in Kinds, NEW p \in NextPiece
  PROVE  [Adding(i, kind, p) EXCEPT !.open = kind, !.next = @ + 1] \in Upstream
<1>1. i \in Nat
  BY StreamBounds DEF Indexes
<1> DEFINE u == Adding(i, kind, p)
<1>2. u \in Upstream
  BY <1>1, AddingTyped
<1> HIDE DEF u
<1>3. [u EXCEPT !.open = kind, !.next = @ + 1] \in Upstream
  <2>1. u.next + 1 \in Nat /\ kind \in Kinds \cup {"none"}
    BY <1>2 DEF Upstream
  <2> QED
    BY <1>2, <2>1 DEF Upstream
<1> QED
  BY <1>3 DEF u

LEMMA PiecesAreNumbers ==
  ASSUME up \in Upstream
  PROVE  NextPiece \subseteq Nat
BY StreamBounds DEF NextPiece, Upstream, Empty

LEMMA BlockStartsTyped ==
  ASSUME Decoding, NEW i \in Indexes, NEW p \in NextPiece,
         TextBlockStart(i, p) \/ ToolBlockStart(i, p) \/ ThinkingBlockStart(i, p)
  PROVE  Decoding' /\ queue' \in Seq(Inner)
<1>0. p \in Nat /\ Empty \in Nat /\ up \in Upstream
  BY PiecesAreNumbers DEF Decoding, Empty
<1>1. CASE TextBlockStart(i, p)
  <2>1. ContentStart(i, "text", p) \in Inner /\ Delta(i, "text", p) \in Inner
    BY <1>0, EventsTyped DEF Kinds
  <2>2. <<ContentStart(i, "text", p)>> \o
          (IF p = Empty THEN <<>> ELSE <<Delta(i, "text", p)>>) \in Seq(Inner)
    BY <2>1
  <2>3. DecodersTyped'
    BY <1>1 DEF TextBlockStart, DecodersTyped, Decoding, decoders
  <2> QED
    BY <1>0, <1>1, <2>2, <2>3, AfterEmit, InnerMiddle, BlockStartTyped DEF TextBlockStart, BlockStart, Kinds
<1>2. CASE ToolBlockStart(i, p)
  <2>1. <<ContentStart(i, "tool", p)>> \in Seq(Inner)
    BY <1>0, EventsTyped DEF Kinds
  <2>3. DecodersTyped'
    BY <1>2 DEF ToolBlockStart, DecodersTyped, Decoding, decoders
  <2> QED
    BY <1>0, <1>2, <2>1, <2>3, AfterEmit, InnerMiddle, BlockStartTyped DEF ToolBlockStart, BlockStart, Kinds
<1>3. CASE ThinkingBlockStart(i, p)
  <2>1. ContentStart(i, "reasoning", Empty) \in Inner /\ Delta(i, "reasoning", p) \in Inner
    BY <1>0, EventsTyped DEF Kinds
  <2>2. (IF p = Empty THEN <<>>
         ELSE <<ContentStart(i, "reasoning", Empty), Delta(i, "reasoning", p)>>) \in Seq(Inner)
    BY <2>1
  <2>3. DecodersTyped'
    BY <1>3 DEF ThinkingBlockStart, DecodersTyped, Decoding, AnthropicDecoder
  <2> QED
    BY <1>0, <1>3, <2>2, <2>3, AfterEmit, InnerMiddle, BlockStartTyped
       DEF ThinkingBlockStart, BlockStart, Kinds
<1> QED
  BY <1>1, <1>2, <1>3

LEMMA BlockDeltasTyped ==
  ASSUME Decoding, NEW i \in Indexes, NEW kind \in Kinds, NEW p \in NextPiece,
         TextOrInputDelta(i, kind, p) \/ ThinkingDelta(i, p)
  PROVE  Decoding' /\ queue' \in Seq(Inner)
<1>0. p \in Nat /\ Empty \in Nat /\ up \in Upstream /\ i \in Nat
  BY StreamBounds, PiecesAreNumbers DEF Decoding, Empty, Indexes
<1>1. CASE TextOrInputDelta(i, kind, p)
  <2>1. <<Delta(i, kind, p)>> \in Seq(Inner)
    BY <1>0, EventsTyped
  <2>2. DecodersTyped'
    BY <1>1 DEF TextOrInputDelta, DecodersTyped, Decoding, decoders
  <2> QED
    BY <1>0, <1>1, <2>1, <2>2, AfterEmit, InnerMiddle, AddingTyped DEF TextOrInputDelta, BlockDelta
<1>2. CASE ThinkingDelta(i, p)
  <2>1. ContentStart(i, "reasoning", Empty) \in Inner /\ Delta(i, "reasoning", p) \in Inner
    BY <1>0, EventsTyped DEF Kinds
  <2>2. (IF i \in fromAnthropic.thinkingStarted THEN <<>>
         ELSE <<ContentStart(i, "reasoning", Empty)>>) \o
        (IF p = Empty THEN <<>> ELSE <<Delta(i, "reasoning", p)>>) \in Seq(Inner)
    BY <2>1
  <2>3. DecodersTyped'
    BY <1>2 DEF ThinkingDelta, DecodersTyped, Decoding, AnthropicDecoder
  <2>4. Adding(i, "reasoning", p) \in Upstream /\ Sends(Adding(i, "reasoning", p))
    BY <1>0, <1>2, AddingTyped DEF ThinkingDelta, BlockDelta, Kinds
  <2>5. CASE i \in fromAnthropic.thinkingBlocks
    BY <1>0, <1>2, <2>2, <2>3, <2>4, <2>5, AfterEmit, InnerMiddle DEF ThinkingDelta
  <2>6. CASE i \notin fromAnthropic.thinkingBlocks
    BY <1>0, <1>2, <2>3, <2>4, <2>6, AfterFail DEF ThinkingDelta
  <2> QED
    BY <2>5, <2>6
<1> QED
  BY <1>1, <1>2

LEMMA BlockStopTyped ==
  ASSUME Decoding, NEW i \in Indexes, BlockStop(i)
  PROVE  Decoding' /\ queue' \in Seq(Inner)
<1>1. [up EXCEPT !.open = "none"] \in Upstream
  BY DEF Decoding, Upstream
<1>2. (IF i \in fromAnthropic.thinkingBlocks \ fromAnthropic.thinkingStarted
       THEN <<>> ELSE <<ContentStop(i)>>) \in Seq(Inner)
  BY EventsTyped
<1>3. DecodersTyped'
  BY DEF BlockStop, DecodersTyped, Decoding, AnthropicDecoder
<1> QED
  BY <1>1, <1>2, <1>3, AfterEmit, InnerMiddle DEF BlockStop, Decoding

LEMMA MessageDeltaTyped ==
  ASSUME Decoding, NEW reason \in Pending, NEW counts \in Counts, MessageDelta(reason, counts)
  PROVE  Decoding' /\ queue' \in Seq(Inner)
<1>1. <<Usage(counts)>> \in Seq(Inner)
  BY EventsTyped
<1>2. DecodersTyped'
  BY DEF MessageDelta, DecodersTyped, Decoding, AnthropicDecoder, Pending
<1> QED
  BY <1>1, <1>2, AfterEmit, InnerMiddle, SaysTyped DEF MessageDelta, Says, Decoding, Phases

LEMMA MessageEndsTyped ==
  ASSUME Decoding, MessageStop \/ MessageError
  PROVE  Decoding'
<1>0. "over" \in Phases
  BY DEF Phases
<1>1. CASE MessageStop /\ fromAnthropic.pendingStop = "none"
  <2>1. DecodersTyped'
    BY <1>1 DEF MessageStop, DecodersTyped, Decoding
  <2> QED
    BY <1>0, <1>1, <2>1, AfterFail, SaysTyped DEF MessageStop, Says, Decoding
<1>2. CASE MessageStop /\ fromAnthropic.pendingStop # "none"
  <2>1. fromAnthropic.pendingStop \in Reasons
    BY <1>2 DEF Decoding, DecodersTyped, AnthropicDecoder, Pending
  <2>2. <<ResponseStop(fromAnthropic.pendingStop)>> \in Seq(Event)
    BY <2>1, EventsTyped
  <2>3. DecodersTyped'
    BY <1>2 DEF MessageStop, DecodersTyped, Decoding, AnthropicDecoder
  <2> QED
    BY <1>0, <1>2, <2>2, <2>3, AfterEmit, SaysTyped DEF MessageStop, Says, Decoding
<1>3. CASE MessageError
  <2>1. [up EXCEPT !.phase = "over", !.reported = TRUE] \in Upstream
    BY <1>0 DEF Decoding, Upstream
  <2>2. <<StreamError>> \in Seq(Event)
    BY EventsTyped
  <2>3. DecodersTyped'
    BY <1>3 DEF MessageError, DecodersTyped, Decoding, AnthropicDecoder
  <2> QED
    BY <1>3, <2>1, <2>2, <2>3, AfterEmit DEF MessageError, Decoding
<1> QED
  BY <1>1, <1>2, <1>3

-----------------------------------------------------------------------------

LEMMA ChatStartsTyped ==
  /\ ChatStarts \in Seq(Middle) /\ GeminiStarts \in Seq(Middle)
  /\ ChatStarts \in Seq(Event) /\ GeminiStarts \in Seq(Event)
BY EventsTyped, InnerMiddle DEF ChatStarts, GeminiStarts

LEMMA ChatUsageTyped ==
  ASSUME Decoding, NEW counts \in Counts, ChatUsage(counts)
  PROVE  Decoding' /\ queue' \in Seq(Middle)
<1>1. ChatStarts \o <<Usage(counts)>> \in Seq(Middle)
  BY EventsTyped, ChatStartsTyped, InnerMiddle
<1>2. DecodersTyped'
  BY DEF ChatUsage, ReadingChunk, DecodersTyped, Decoding, OpenAIDecoder
<1> QED
  BY <1>1, <1>2, AfterEmit, InnerMiddle, SaysTyped DEF ChatUsage, Says, Decoding, Upstream

LEMMA ChatContentTyped ==
  ASSUME Decoding, NEW p \in NextPiece, ChatContent(p)
  PROVE  Decoding' /\ queue' \in Seq(Middle)
<1> DEFINE opens == fromOpenAI.textBlock = NoBlock
           block == IF opens THEN fromOpenAI.nextBlock ELSE fromOpenAI.textBlock
           events == ChatStarts \o
                     (IF opens THEN <<ContentStart(block, "text", Empty)>> ELSE <<>>) \o
                     (IF p = Empty THEN <<>> ELSE <<Delta(block, "text", p)>>)
<1>0. /\ p \in Nat /\ Empty \in Nat /\ up \in Upstream /\ ChatText \in Nat
      /\ "text" \in Kinds /\ block \in Indexes
  BY CallBound, PiecesAreNumbers DEF Decoding, Empty, ChatText, Kinds, ChatContent
<1>1. events \in Seq(Middle)
  BY <1>0, EventsTyped, ChatStartsTyped, InnerMiddle
<1>2. DecodersTyped'
  <2>1. fromOpenAI \in OpenAIDecoder
    BY DEF Decoding, DecodersTyped
  <2>2. opens => block = fromOpenAI.nextBlock /\ block + 1 \in 0 .. MaxBlocks
    BY <1>0, <2>1, StreamBounds DEF Indexes, OpenAIDecoder
  <2>3. fromOpenAI' \in OpenAIDecoder
    BY <1>0, <2>1, <2>2 DEF ChatContent, OpenAIDecoder
  <2> QED
    BY <2>3 DEF ChatContent, ReadingChunk, DecodersTyped, Decoding, OpenAIDecoder
<1>3. Emit(events) /\ Sends(Adding(ChatText, "text", p))
  BY DEF ChatContent
<1> HIDE DEF events
<1> QED
  BY <1>0, <1>1, <1>2, <1>3, AfterEmit, InnerMiddle, AddingTyped

LEMMA ChatToolCallTyped ==
  ASSUME Decoding, NEW call \in Calls, NEW p \in NextPiece, ChatToolCall(call, p)
  PROVE  Decoding' /\ queue' \in Seq(Middle)
<1> DEFINE opens == fromOpenAI.toolBlocks[call] = NoBlock
           block == IF opens THEN fromOpenAI.nextBlock ELSE fromOpenAI.toolBlocks[call]
           events == ChatStarts \o
                     (IF opens THEN <<ContentStart(block, "tool", Empty)>> ELSE <<>>) \o
                     (IF p = Empty THEN <<>> ELSE <<Delta(block, "tool", p)>>)
<1>0. /\ p \in Nat /\ Empty \in Nat /\ up \in Upstream /\ call \in Nat
      /\ "tool" \in Kinds /\ block \in Indexes
  BY PiecesAreNumbers DEF Decoding, Empty, Calls, Kinds, ChatToolCall
<1>1. events \in Seq(Middle)
  BY <1>0, EventsTyped, ChatStartsTyped, InnerMiddle
<1>2. DecodersTyped'
  <2>1. fromOpenAI \in OpenAIDecoder
    BY DEF Decoding, DecodersTyped
  <2>2. opens => block = fromOpenAI.nextBlock /\ block + 1 \in 0 .. MaxBlocks
    BY <1>0, <2>1, StreamBounds DEF Indexes, OpenAIDecoder
  <2>3. fromOpenAI' \in OpenAIDecoder
    BY <1>0, <2>1, <2>2 DEF ChatToolCall, OpenAIDecoder
  <2> QED
    BY <2>3 DEF ChatToolCall, ReadingChunk, DecodersTyped, Decoding, OpenAIDecoder
<1>3. Emit(events) /\ Sends(Adding(call, "tool", p))
  BY DEF ChatToolCall
<1> HIDE DEF events
<1> QED
  BY <1>0, <1>1, <1>2, <1>3, AfterEmit, InnerMiddle, AddingTyped

LEMMA ChatFinishTyped ==
  ASSUME Decoding, NEW reason \in ChatReasons, ChatFinish(reason)
  PROVE  Decoding' /\ queue' \in Seq(Middle)
<1>1. DecodersTyped'
  BY DEF ChatFinish, ReadingChunk, DecodersTyped, Decoding, OpenAIDecoder, Pending, ChatReasons
<1>2. up \in Upstream /\ "stopping" \in Phases
  BY DEF Decoding, Phases
<1> QED
  BY <1>1, <1>2, ChatStartsTyped, AfterEmit, InnerMiddle, SaysTyped DEF ChatFinish, Says

LEMMA ChatDoneTyped ==
  ASSUME Decoding, ChatDone
  PROVE  Decoding'
<1>0. fromOpenAI \in OpenAIDecoder /\ up \in Upstream /\ "over" \in Phases
  BY DEF Decoding, DecodersTyped, Phases
<1>1. DecodersTyped'
  <2>1. (fromOpenAI.pendingStop # "none") \in BOOLEAN
    OBVIOUS
  <2>2. fromOpenAI' \in OpenAIDecoder
    BY <1>0, <2>1, Zenon DEF ChatDone, OpenAIDecoder
  <2>3. fromOpenAI'.closing = (fromOpenAI.pendingStop # "none")
        /\ fromOpenAI'.pendingStop = fromOpenAI.pendingStop
    BY <1>0, Zenon DEF ChatDone, OpenAIDecoder
  <2> QED
    BY <2>2, <2>3 DEF ChatDone, DecodersTyped, Decoding
<1>2. CASE fromOpenAI.pendingStop = "none"
  BY <1>0, <1>1, <1>2, AfterFail, SaysTyped DEF ChatDone, Says
<1>3. CASE fromOpenAI.pendingStop # "none"
  <2>1. up' \in Upstream
    BY <1>0, SendsTyped, SaysTyped DEF ChatDone, Says
  <2>2. UNCHANGED <<stage, queue>>
    BY <1>3 DEF ChatDone
  <2> QED
    BY <1>1, <2>1, <2>2 DEF Decoding
<1> QED
  BY <1>2, <1>3

LEMMA CloseOpenBlockTyped ==
  ASSUME Decoding, CloseOpenBlock
  PROVE  Decoding' /\ queue' \in Seq(Inner)
<1>0. fromOpenAI \in OpenAIDecoder
  BY DEF Decoding, DecodersTyped
<1>1. PICK i \in fromOpenAI.openBlocks :
        /\ fromOpenAI' = [fromOpenAI EXCEPT !.openBlocks = @ \ {i}]
        /\ Emit(<<ContentStop(i)>>)
  BY DEF CloseOpenBlock
<1>2. <<ContentStop(i)>> \in Seq(Inner) /\ <<ContentStop(i)>> \in Seq(Event)
  BY <1>0, EventsTyped, InnerMiddle DEF OpenAIDecoder
<1>3. DecodersTyped'
  BY <1>0, <1>1 DEF CloseOpenBlock, DecodersTyped, Decoding, OpenAIDecoder
<1> QED
  BY <1>1, <1>2, <1>3, EmitTyped DEF CloseOpenBlock, Decoding, Stages, Emit

LEMMA ChatStopsTyped ==
  ASSUME Decoding, ChatStops
  PROVE  Decoding'
<1>0. fromOpenAI \in OpenAIDecoder
  BY DEF Decoding, DecodersTyped
<1>1. fromOpenAI.pendingStop \in Reasons
  BY <1>0 DEF ChatStops, Decoding, DecodersTyped, OpenAIDecoder, Pending
<1>2. <<ResponseStop(fromOpenAI.pendingStop)>> \in Seq(Event)
  BY <1>1, EventsTyped
<1>3. DecodersTyped'
  BY <1>0 DEF ChatStops, DecodersTyped, Decoding, OpenAIDecoder
<1> QED
  BY <1>2, <1>3, EmitTyped DEF ChatStops, Decoding, Stages

-----------------------------------------------------------------------------

LEMMA CloseActiveTyped ==
  ASSUME fromGemini \in GeminiDecoder
  PROVE  CloseActive \in Seq(Middle) /\ CloseActive \in Seq(Event)
<1>1. fromGemini.active # NoBlock => fromGemini.active \in Indexes
  BY DEF GeminiDecoder
<1> QED
  BY <1>1, EventsTyped, InnerMiddle DEF CloseActive

LEMMA ActivatedTyped ==
  ASSUME fromGemini \in GeminiDecoder, fromGemini.nextBlock \in Indexes, NEW kind \in Kinds
  PROVE  Activated(kind) \in GeminiDecoder
<1>1. fromGemini.nextBlock + 1 \in 0 .. MaxBlocks
  BY StreamBounds DEF Indexes
<1>2. (fromGemini.sawTool \/ kind = "tool") \in BOOLEAN
  OBVIOUS
<1> QED
  BY <1>1, <1>2 DEF Activated, GeminiDecoder

LEMMA EmptyChunkTyped ==
  ASSUME Decoding, NEW counts \in Counts, EmptyChunk(counts)
  PROVE  Decoding' /\ queue' \in Seq(Middle)
<1>1. GeminiStarts \o <<Usage(counts)>> \in Seq(Middle)
  BY EventsTyped, ChatStartsTyped, InnerMiddle
<1>2. DecodersTyped'
  BY DEF EmptyChunk, DecodersTyped, Decoding, GeminiDecoder
<1>3. (IF up.phase = "idle" THEN "message" ELSE up.phase) \in Phases
  BY DEF Decoding, Upstream, Phases
<1> QED
  BY <1>1, <1>2, <1>3, AfterEmit, InnerMiddle, SaysTyped DEF EmptyChunk, Says, Decoding

LEMMA GeminiTextTyped ==
  ASSUME Decoding, NEW kind \in {"text", "reasoning"}, NEW p \in NextPiece, GeminiText(kind, p)
  PROVE  Decoding' /\ queue' \in Seq(Middle)
<1> DEFINE opens == Activates(kind)
           block == IF opens THEN fromGemini.nextBlock ELSE fromGemini.active
           opening == IF opens THEN CloseActive \o <<ContentStart(block, kind, Empty)>> ELSE <<>>
           events == GeminiStarts \o opening \o
                     (IF p = Empty THEN <<>> ELSE <<Delta(block, kind, p)>>)
<1>0. /\ p \in Nat /\ Empty \in Nat /\ up \in Upstream /\ kind \in Kinds
      /\ block \in Indexes /\ block \in Nat /\ fromGemini \in GeminiDecoder
  BY StreamBounds, PiecesAreNumbers
     DEF Decoding, DecodersTyped, Empty, Kinds, Indexes, GeminiText
<1>1. events \in Seq(Middle)
  <2>1. ContentStart(block, kind, Empty) \in Inner /\ Delta(block, kind, p) \in Inner
    BY <1>0, EventsTyped
  <2>2. opening \in Seq(Middle)
    BY <1>0, <2>1, CloseActiveTyped, InnerMiddle
  <2> HIDE DEF opening
  <2> QED
    BY <2>1, <2>2, ChatStartsTyped, InnerMiddle
<1>2. DecodersTyped'
  BY <1>0, ActivatedTyped DEF GeminiText, DecodersTyped, Decoding
<1>3. Emit(events) /\ Sends(Adding(block, kind, p))
  BY DEF GeminiText
<1> HIDE DEF events
<1> QED
  BY <1>0, <1>1, <1>2, <1>3, AfterEmit, InnerMiddle, AddingTyped

LEMMA FunctionCallsTyped ==
  ASSUME Decoding,
         \/ \E p \in NextPiece : FunctionCall(p)
         \/ \E changed \in BOOLEAN : FunctionCallAgain(changed)
  PROVE  Decoding' /\ queue' \in Seq(Middle)
<1>0. up \in Upstream /\ fromGemini \in GeminiDecoder /\ "tool" \in Kinds
  BY DEF Decoding, DecodersTyped, Kinds
<1>1. ASSUME NEW p \in NextPiece, FunctionCall(p)
      PROVE  Decoding' /\ queue' \in Seq(Middle)
  <2> DEFINE block == fromGemini.nextBlock
             events == GeminiStarts \o CloseActive \o
                         <<ContentStart(block, "tool", Empty), Delta(block, "tool", p)>>
  <2>0. p \in Nat /\ Empty \in Nat /\ block \in Indexes /\ block \in Nat
    BY <1>0, <1>1, StreamBounds, PiecesAreNumbers DEF Empty, Indexes, FunctionCall
  <2>1. ContentStart(block, "tool", Empty) \in Inner /\ Delta(block, "tool", p) \in Inner
    BY <1>0, <2>0, EventsTyped
  <2>2. events \in Seq(Middle)
    BY <1>0, <2>1, CloseActiveTyped, ChatStartsTyped, InnerMiddle
  <2>3. DecodersTyped'
    BY <1>0, <1>1, <2>0, ActivatedTyped DEF FunctionCall, DecodersTyped, Decoding
  <2>4. Emit(events) /\ Sends(Adding(block, "tool", p))
    BY <1>1 DEF FunctionCall
  <2> HIDE DEF events
  <2> QED
    BY <1>0, <2>0, <2>2, <2>3, <2>4, AfterEmit, InnerMiddle, AddingTyped
<1>2. ASSUME NEW changed \in BOOLEAN, FunctionCallAgain(changed)
      PROVE  Decoding' /\ queue' \in Seq(Middle)
  <2>1. DecodersTyped'
    BY <1>2 DEF FunctionCallAgain, DecodersTyped, Decoding, decoders
  <2>2. up.phase \in Phases /\ <<>> \in Seq(Middle)
    BY <1>0 DEF Upstream
  <2>3. Emit(<<>>) \/ Fail
    BY <1>2 DEF FunctionCallAgain
  <2> QED
    BY <1>0, <1>2, <2>1, <2>2, <2>3, AfterEmit, InnerMiddle, AfterFail, SaysTyped DEF FunctionCallAgain, Says
<1> QED
  BY <1>1, <1>2

LEMMA GeminiFinishTyped ==
  ASSUME Decoding, NEW reason \in GeminiReasons, GeminiFinish(reason)
  PROVE  Decoding'
<1> DEFINE stop == IF fromGemini.sawTool /\ reason = "end_turn" THEN "tool_use" ELSE reason
<1>1. stop \in Reasons /\ fromGemini \in GeminiDecoder /\ "over" \in Phases /\ up \in Upstream
  BY DEF GeminiReasons, Reasons, Decoding, DecodersTyped, Phases
<1>2. ResponseStop(stop) \in Event
  BY <1>1, EventsTyped
<1>3. GeminiStarts \o CloseActive \o <<ResponseStop(stop)>> \in Seq(Event)
  BY <1>1, <1>2, CloseActiveTyped, ChatStartsTyped
<1>4. DecodersTyped'
  BY <1>1 DEF GeminiFinish, DecodersTyped, Decoding, GeminiDecoder
<1> HIDE DEF stop
<1>5. Emit(GeminiStarts \o CloseActive \o <<ResponseStop(stop)>>)
  BY DEF GeminiFinish, stop
<1> QED
  BY <1>1, <1>3, <1>4, <1>5, AfterEmit, SaysTyped DEF GeminiFinish, Says

LEMMA GarbageTyped ==
  ASSUME Decoding, Garbage
  PROVE  Decoding'
<1>1. DecodersTyped' /\ up.phase \in Phases
  BY DEF Garbage, DecodersTyped, Decoding, decoders, Upstream
<1> QED
  BY <1>1, AfterFail, SaysTyped DEF Garbage, Says, Decoding

LEMMA DecodeTyped ==
  ASSUME Decoding, Decode
  PROVE  Decoding'
<1>0. {"plain", "cache_write"} \subseteq Counts /\ {"plain", "reasoning_tokens"} \subseteq Counts
  BY DEF Counts
<1>1. CASE DecodeMessages
  BY <1>0, <1>1, MessageStartTyped, BlockStartsTyped, BlockDeltasTyped, BlockStopTyped,
     MessageDeltaTyped, MessageEndsTyped DEF DecodeMessages, MessagesReasons, Pending, Kinds
<1>2. CASE DecodeChat
  BY <1>0, <1>2, ChatUsageTyped, ChatContentTyped, ChatToolCallTyped, ChatFinishTyped,
     ChatDoneTyped, CloseOpenBlockTyped, ChatStopsTyped DEF DecodeChat
<1>3. CASE DecodeGenerateContent
  BY <1>0, <1>3, EmptyChunkTyped, GeminiTextTyped, FunctionCallsTyped, GeminiFinishTyped
     DEF DecodeGenerateContent
<1> QED
  BY <1>1, <1>2, <1>3, GarbageTyped DEF Decode

-----------------------------------------------------------------------------

LEMMA BlamesTyped == \A misplaced \in BOOLEAN : Blames(misplaced) \subseteq Faults
BY DEF Blames, Faults

LEMMA PiecesTyped == \A p \in Nat : Pieces(p) \in Seq(Nat)
BY DEF Pieces

LEMMA WriteBeginTyped ==
  ASSUME view \in View, WriteBegin
  PROVE  view' \in View
<1>1. view.begun + 1 \in Nat /\ Blames(view.begun > 0) \subseteq Faults
  BY DEF View, Blames, Faults
<1>2. view.faults \cup (Blames(view.begun > 0) \ {"early"}) \in SUBSET Faults
  <2>1. view.faults \subseteq Faults
    BY DEF View
  <2> QED
    BY <1>1, <2>1
<1> QED
  BY <1>1, <1>2 DEF WriteBegin, View

LEMMA WriteItemTyped ==
  ASSUME view \in View, NEW at \in Nat, NEW kind \in Kinds \cup {"refusal"},
         NEW data \in Seq(Nat), WriteItem(at, kind, data)
  PROVE  view' \in View
<1>1. Opened(at, kind, data) \in Block
  BY DEF Opened, Block
<1>2. Append(view.items, Opened(at, kind, data)) \in Seq(Block)
  BY <1>1 DEF View
<1>3. view.faults \cup Blames(IsOpen(at)) \in SUBSET Faults
  BY BlamesTyped DEF View, IsOpen
<1> QED
  BY <1>2, <1>3 DEF WriteItem, View

LEMMA WriteDeltaTyped ==
  ASSUME view \in View, NEW at \in Nat, NEW p \in Nat, WriteDelta(at, p)
  PROVE  view' \in View
<1>1. Grown(at, p) \in [DOMAIN view.items -> Block]
  <2>1. ASSUME NEW k \in DOMAIN view.items
        PROVE  Grown(at, p)[k] \in Block
    <3>1. view.items[k] \in Block
      BY DEF View
    <3>2. view.items[k].data \o Pieces(p) \in Seq(Nat)
      BY <3>1, PiecesTyped DEF Block
    <3>3. [view.items[k] EXCEPT !.data = @ \o Pieces(p)] \in Block
      BY <3>1, <3>2 DEF Block
    <3> QED
      BY <3>1, <3>3 DEF Grown
  <2> QED
    BY <2>1 DEF Grown
<1>2. Grown(at, p) \in Seq(Block)
  BY <1>1, MappedSeq DEF View
<1>3. view.faults \cup Blames(~IsOpen(at)) \in SUBSET Faults
  BY BlamesTyped DEF View, IsOpen
<1> QED
  BY <1>2, <1>3 DEF WriteDelta, View

LEMMA WriteDoneTyped ==
  ASSUME view \in View, NEW at \in Nat, NEW text \in Seq(Nat), WriteDone(at, text)
  PROVE  view' \in View
<1>1. Finished(at, text) \in [DOMAIN view.items -> Block]
  <2>1. ASSUME NEW k \in DOMAIN view.items
        PROVE  Finished(at, text)[k] \in Block
    <3>1. view.items[k] \in Block
      BY DEF View
    <3>2. [view.items[k] EXCEPT !.done = TRUE, !.whole = text] \in Block
      BY <3>1 DEF Block
    <3> QED
      BY <3>1, <3>2 DEF Finished
  <2> QED
    BY <2>1 DEF Finished
<1>2. Finished(at, text) \in Seq(Block)
  BY <1>1, MappedSeq DEF View
<1>3. view.faults \cup Blames(~IsOpen(at)) \in SUBSET Faults
  BY BlamesTyped DEF View, IsOpen
<1> QED
  BY <1>2, <1>3 DEF WriteDone, View

LEMMA WriteEndTyped ==
  ASSUME view \in View, NEW status \in Statuses, NEW reason \in Reasons \cup {"none"},
         NEW output \in Seq(Block), WriteEnd(status, reason, output)
  PROVE  view' \in View
<1> DEFINE Ends == [status : Statuses, reason : Reasons \cup {"none"}, output : Seq(Block)]
<1>1. Append(view.ends, [status |-> status, reason |-> reason, output |-> output]) \in Seq(Ends)
  <2>1. [status |-> status, reason |-> reason, output |-> output] \in Ends
    OBVIOUS
  <2>2. view.ends \in Seq(Ends)
    BY DEF View
  <2> HIDE DEF Ends
  <2> QED
    BY <2>1, <2>2
<1>2. view.faults \cup Blames(FALSE) \in SUBSET Faults
  <2>1. view.faults \subseteq Faults /\ Blames(FALSE) \subseteq Faults
    BY BlamesTyped DEF View
  <2> QED
    BY <2>1
<1> QED
  BY <1>1, <1>2 DEF WriteEnd, View

-----------------------------------------------------------------------------

EncodersTyped ==
  /\ toResponses \in ResponsesEncoder
  /\ toChat \in ChatEncoder
  /\ toGemini \in GeminiEncoder
  /\ view \in View

LEMMA EventFields ==
  ASSUME NEW e \in Event
  PROVE  /\ e.index \in Indexes /\ e.index \in Nat /\ e.piece \in Nat /\ Pieces(e.piece) \in Seq(Nat)
         /\ e.reason \in Reasons \cup {"none"}
         /\ e.type \in {"content_start", "tool_call_start"} => e.kind \in Kinds
BY StreamBounds, PiecesTyped DEF Event, Indexes

LEMMA StartContentTyped ==
  ASSUME EncodersTyped, NEW e \in Event, e.kind \in Kinds, StartContent(e)
  PROVE  toResponses' \in ResponsesEncoder /\ view' \in View
<1> DEFINE position == Len(toResponses.output) + 1
           kind == IF e.kind = "text" /\ toResponses.refusalMode THEN "refusal" ELSE e.kind
           text == IF kind = "tool" THEN <<>> ELSE Pieces(e.piece)
<1>1. /\ position \in Nat /\ kind \in Kinds \cup {"refusal"} /\ text \in Seq(Nat)
      /\ toResponses.output \in Seq(Block) /\ e.index \in Indexes
  BY EventFields DEF EncodersTyped, ResponsesEncoder
<1>2. Append(toResponses.output, Opened(position, kind, <<>>)) \in Seq(Block)
  <2>1. Opened(position, kind, <<>>) \in Block
    BY <1>1 DEF Opened, Block
  <2> QED
    BY <1>1, <2>1
<1>3. /\ toResponses' = [toResponses EXCEPT
            !.blocks[e.index] = position,
            !.text[e.index] = text,
            !.output = Append(@, Opened(position, kind, <<>>))]
      /\ WriteItem(position, kind, text)
  BY DEF StartContent
<1> HIDE DEF position, kind, text
<1>4. toResponses' \in ResponsesEncoder
  BY <1>1, <1>2, <1>3 DEF EncodersTyped, ResponsesEncoder
<1> QED
  BY <1>1, <1>3, <1>4, WriteItemTyped DEF EncodersTyped

LEMMA WriteContentDeltaTyped ==
  ASSUME EncodersTyped, NEW e \in Event, WriteContentDelta(e)
  PROVE  toResponses' \in ResponsesEncoder /\ view' \in View
<1>1. /\ e.index \in Indexes /\ e.piece \in Nat
      /\ BlockOf(e.index) \in Nat /\ toResponses.text[e.index] \o Pieces(e.piece) \in Seq(Nat)
  BY EventFields DEF EncodersTyped, ResponsesEncoder, BlockOf
<1>2. toResponses' \in ResponsesEncoder
  BY <1>1 DEF WriteContentDelta, EncodersTyped, ResponsesEncoder
<1> QED
  BY <1>1, <1>2, WriteDeltaTyped DEF WriteContentDelta, EncodersTyped

LEMMA StopContentTyped ==
  ASSUME EncodersTyped, NEW e \in Event, StopContent(e)
  PROVE  toResponses' \in ResponsesEncoder /\ view' \in View
<1> DEFINE text == toResponses.text[e.index]
           n == BlockOf(e.index)
           output == [toResponses.output EXCEPT ![n].done = TRUE, ![n].whole = text]
<1>1. /\ e.index \in Indexes /\ n \in Nat /\ text \in Seq(Nat)
      /\ toResponses.output \in Seq(Block)
  BY EventFields DEF EncodersTyped, ResponsesEncoder, BlockOf
<1>2. output \in Seq(Block)
  <2>1. ASSUME NEW k \in DOMAIN toResponses.output
        PROVE  output[k] \in Block
    <3>1. toResponses.output[k] \in Block
      BY <1>1
    <3>2. [toResponses.output[k] EXCEPT !.done = TRUE, !.whole = text] \in Block
      BY <1>1, <3>1 DEF Block
    <3> QED
      BY <3>1, <3>2
  <2>2. output \in [DOMAIN toResponses.output -> Block]
    BY <2>1
  <2> QED
    BY <1>1, <2>2, MappedSeq
<1>3. /\ toResponses' = [toResponses EXCEPT !.blocks[e.index] = 0, !.output = output]
      /\ WriteDone(n, text)
  BY DEF StopContent
<1> HIDE DEF output, text, n
<1>4. toResponses' \in ResponsesEncoder
  BY <1>1, <1>2, <1>3 DEF EncodersTyped, ResponsesEncoder
<1> QED
  BY <1>1, <1>3, <1>4, WriteDoneTyped DEF EncodersTyped

LEMMA EncodeResponsesTyped ==
  ASSUME EncodersTyped, NEW e \in Event, EncodeResponses(e)
  PROVE  EncodersTyped'
<1>0. toChat' = toChat /\ toGemini' = toGemini /\ toResponses.output \in Seq(Block)
  BY DEF EncodeResponses, EncodersTyped, ResponsesEncoder
<1>1. CASE StartResponse
  BY <1>0, <1>1, WriteBeginTyped DEF StartResponse, EncodersTyped, ResponsesEncoder
<1>2. CASE e.type \in {"content_start", "tool_call_start"} /\ StartContent(e)
  BY <1>0, <1>2, EventFields, StartContentTyped DEF EncodersTyped
<1>3. CASE WriteContentDelta(e)
  BY <1>0, <1>3, WriteContentDeltaTyped DEF EncodersTyped
<1>4. CASE StopContent(e)
  BY <1>0, <1>4, StopContentTyped DEF EncodersTyped
<1>5. CASE StopResponse(e)
  <2>1. (IF e.reason = "max_tokens" THEN "incomplete" ELSE "completed") \in Statuses
    BY DEF Statuses
  <2>2. view' \in View
    BY <1>0, <1>5, <2>1, EventFields, WriteEndTyped DEF StopResponse, EncodersTyped
  <2>3. toResponses' \in ResponsesEncoder
    BY <1>5 DEF StopResponse, EncodersTyped, ResponsesEncoder
  <2> QED
    BY <1>0, <2>2, <2>3 DEF EncodersTyped
<1>6. CASE FailResponse
  <2>2. view' \in View
    BY <1>0, <1>6, WriteEndTyped DEF FailResponse, EncodersTyped, Statuses
  <2>3. toResponses' \in ResponsesEncoder
    BY <1>6 DEF FailResponse, EncodersTyped, ResponsesEncoder
  <2> QED
    BY <1>0, <2>2, <2>3 DEF EncodersTyped
<1>7. CASE UNCHANGED <<toResponses, view>>
  BY <1>0, <1>7 DEF EncodersTyped
<1> QED
  BY <1>1, <1>2, <1>3, <1>4, <1>5, <1>6, <1>7 DEF EncodeResponses

LEMMA EncodeChatTyped ==
  ASSUME EncodersTyped, NEW e \in Event, EncodeChat(e)
  PROVE  EncodersTyped'
<1>0. /\ toResponses' = toResponses /\ toGemini' = toGemini /\ view \in View
      /\ toChat \in ChatEncoder /\ e.index \in Indexes /\ e.piece \in Nat
      /\ Pieces(e.piece) \in Seq(Nat) /\ NoBlock \in Nat /\ 0 \in Nat
  BY StreamBounds, EventFields DEF EncodeChat, EncodersTyped, NoBlock
<1>1. CASE WriteBegin /\ UNCHANGED toChat
  BY <1>0, <1>1, WriteBeginTyped DEF EncodersTyped
<1>2. CASE WriteChatText(e.piece) /\ UNCHANGED toChat
  BY <1>0, <1>2, WriteDeltaTyped, WriteItemTyped DEF WriteChatText, EncodersTyped, Kinds
<1>3. CASE StartChatTool(e)
  <2>1. CASE toChat.toolIndexes[e.index] = NoBlock
    <3>1. toChat.nextTool \in Nat /\ WriteItem(toChat.nextTool, "tool", <<>>)
      BY <1>0, <1>3, <2>1 DEF StartChatTool, ChatEncoder
    <3>2. view' \in View
      <4>1. <<>> \in Seq(Nat) /\ "tool" \in Kinds \cup {"refusal"}
        BY DEF Kinds
      <4> QED
        BY <1>0, <3>1, <4>1, WriteItemTyped
    <3>3. toChat' \in ChatEncoder
      <4>1. [toChat.toolIndexes EXCEPT ![e.index] = toChat.nextTool]
              \in [Indexes -> Nat \cup {NoBlock}]
        BY <1>0, <3>1 DEF ChatEncoder
      <4>2. toChat' = [toChat EXCEPT
              !.toolIndexes = [toChat.toolIndexes EXCEPT ![e.index] = toChat.nextTool],
              !.nextTool = @ + 1]
        BY <1>3, <2>1 DEF StartChatTool
      <4>3. \A f \in [Indexes -> Nat \cup {NoBlock}] :
              [toChat EXCEPT !.toolIndexes = f, !.nextTool = @ + 1] \in ChatEncoder
        <5>1. toChat.nextTool + 1 \in Nat /\ toChat \in ChatEncoder
          BY <1>0, <3>1
        <5> QED
          BY <5>1 DEF ChatEncoder
      <4> QED
        BY <4>1, <4>2, <4>3
    <3> QED
      BY <1>0, <3>2, <3>3 DEF EncodersTyped
  <2>2. CASE toChat.toolIndexes[e.index] # NoBlock
    BY <1>0, <1>3, <2>2 DEF StartChatTool, EncodersTyped
  <2> QED
    BY <2>1, <2>2
<1>4. CASE WriteDelta(toChat.toolIndexes[e.index], e.piece) /\ UNCHANGED toChat
  <2>1. toChat.toolIndexes[e.index] \in Nat
    BY <1>0 DEF ChatEncoder
  <2> QED
    BY <1>0, <1>4, <2>1, WriteDeltaTyped DEF EncodersTyped
<1>5. CASE WriteEnd("completed", e.reason, <<>>) /\ UNCHANGED toChat
  <2>1. <<>> \in Seq(Block) /\ "completed" \in Statuses /\ e.reason \in Reasons \cup {"none"}
    BY EventFields DEF Statuses
  <2> QED
    BY <1>0, <1>5, <2>1, WriteEndTyped DEF EncodersTyped
<1>6. CASE UNCHANGED <<toChat, view>>
  BY <1>0, <1>6 DEF EncodersTyped
<1> QED
  BY <1>1, <1>2, <1>3, <1>4, <1>5, <1>6 DEF EncodeChat

LEMMA EncodeMessagesTyped ==
  ASSUME EncodersTyped, NEW e \in Event, EncodeMessages(e)
  PROVE  EncodersTyped'
<1>0. /\ UNCHANGED <<toResponses, toChat, toGemini>> /\ view \in View
      /\ e.index \in Nat /\ e.piece \in Nat /\ e.reason \in Reasons \cup {"none"}
      /\ <<>> \in Seq(Block) /\ <<>> \in Seq(Nat)
      /\ e.type \in {"content_start", "tool_call_start"} => e.kind \in Kinds
      /\ "completed" \in Statuses /\ "failed" \in Statuses
  BY EventFields DEF EncodeMessages, EncodersTyped, Statuses
<1>1. CASE WriteBegin
  BY <1>0, <1>1, WriteBeginTyped DEF EncodersTyped
<1>2. CASE e.type \in {"content_start", "tool_call_start"} /\ WriteItem(e.index, e.kind, <<>>)
  BY <1>0, <1>2, WriteItemTyped DEF EncodersTyped
<1>3. CASE WriteDelta(e.index, e.piece)
  BY <1>0, <1>3, WriteDeltaTyped DEF EncodersTyped
<1>4. CASE WriteDone(e.index, <<>>)
  BY <1>0, <1>4, WriteDoneTyped DEF EncodersTyped
<1>5. CASE WriteEnd("completed", e.reason, <<>>) \/ WriteEnd("failed", "none", <<>>)
  BY <1>0, <1>5, WriteEndTyped DEF EncodersTyped
<1>6. CASE UNCHANGED view
  BY <1>0, <1>6 DEF EncodersTyped
<1> QED
  BY <1>1, <1>2, <1>3, <1>4, <1>5, <1>6 DEF EncodeMessages

LEMMA EncodeGeminiTyped ==
  ASSUME EncodersTyped, NEW e \in Event, EncodeGemini(e)
  PROVE  EncodersTyped'
<1>0. /\ toResponses' = toResponses /\ toChat' = toChat /\ view \in View
      /\ toGemini \in GeminiEncoder /\ e.index \in Indexes /\ e.piece \in Nat
      /\ Pieces(e.piece) \in Seq(Nat) /\ Parts \in Nat /\ Parts + 1 \in Nat
      /\ toGemini.arguments[e.index] \in Seq(Nat)
  BY EventFields DEF EncodeGemini, EncodersTyped, Parts, View, GeminiEncoder
<1>1. CASE /\ toGemini' = [toGemini EXCEPT !.started = TRUE]
           /\ WriteBegin
  BY <1>0, <1>1, WriteBeginTyped DEF EncodersTyped, GeminiEncoder
<1>2. CASE WriteGeminiText(e.piece) /\ UNCHANGED toGemini
  BY <1>0, <1>2, WriteDeltaTyped, WriteItemTyped DEF WriteGeminiText, EncodersTyped, Kinds
<1>3. CASE /\ toGemini' = [toGemini EXCEPT !.tools = @ \cup {e.index},
                                           !.arguments[e.index] = <<>>]
           /\ UNCHANGED view
  <2>1. [toGemini.arguments EXCEPT ![e.index] = <<>>] \in [Indexes -> Seq(Nat)]
    BY <1>0 DEF GeminiEncoder
  <2>2. toGemini' = [toGemini EXCEPT !.tools = @ \cup {e.index},
                       !.arguments = [toGemini.arguments EXCEPT ![e.index] = <<>>]]
    BY <1>3
  <2>3. toGemini' \in GeminiEncoder
    BY <1>0, <2>1, <2>2 DEF GeminiEncoder
  <2> QED
    BY <1>0, <1>3, <2>3 DEF EncodersTyped
<1>4. CASE /\ toGemini' = [toGemini EXCEPT !.arguments[e.index] = @ \o Pieces(e.piece)]
           /\ UNCHANGED view
  <2>1. toGemini.arguments[e.index] \o Pieces(e.piece) \in Seq(Nat)
    BY <1>0
  <2> QED
    BY <1>0, <1>4, <2>1 DEF EncodersTyped, GeminiEncoder
<1>5. CASE /\ toGemini' = [toGemini EXCEPT !.tools = @ \ {e.index}]
           /\ WriteItem(Parts + 1, "tool", toGemini.arguments[e.index])
  <2>1. view' \in View
    BY <1>0, <1>5, WriteItemTyped DEF Kinds
  <2> QED
    BY <1>0, <1>5, <2>1 DEF EncodersTyped, GeminiEncoder
<1>6. CASE WriteEnd("completed", e.reason, <<>>) /\ UNCHANGED toGemini
  <2>1. <<>> \in Seq(Block) /\ "completed" \in Statuses /\ e.reason \in Reasons \cup {"none"}
    BY EventFields DEF Statuses
  <2> QED
    BY <1>0, <1>6, <2>1, WriteEndTyped DEF EncodersTyped
<1>7. CASE UNCHANGED <<toGemini, view>>
  BY <1>0, <1>7 DEF EncodersTyped
<1> QED
  BY <1>1, <1>2, <1>3, <1>4, <1>5, <1>6, <1>7 DEF EncodeGemini

LEMMA EncodeEventTyped ==
  ASSUME EncodersTyped, NEW e \in Event, EncodeEvent(e)
  PROVE  EncodersTyped'
BY EncodeResponsesTyped, EncodeChatTyped, EncodeMessagesTyped, EncodeGeminiTyped DEF EncodeEvent

-----------------------------------------------------------------------------

LEMMA ObservedTyped ==
  ASSUME kept \in Accumulator, pipe \in Pipes, NEW e \in Event
  PROVE  Observed(e) \in Accumulator
<1>0. /\ e.index \in Indexes /\ Pieces(e.piece) \in Seq(Nat)
      /\ e.reason \in Reasons \cup {"none"} /\ pipe.named \in BOOLEAN
  BY EventFields, SomePipes DEF AllPipes
<1>1. [kept EXCEPT !.named = pipe.named] \in Accumulator
  BY <1>0 DEF Accumulator
<1>2. [kept EXCEPT !.texts = @ \cup {e.index}, !.text[e.index] = Pieces(e.piece)] \in Accumulator
  BY <1>0 DEF Accumulator
<1>3. [kept EXCEPT !.text[e.index] = @ \o Pieces(e.piece)] \in Accumulator
  <2>1. kept.text[e.index] \o Pieces(e.piece) \in Seq(Nat)
    BY <1>0 DEF Accumulator
  <2> QED
    BY <1>0, <2>1 DEF Accumulator
<1>4. [kept EXCEPT !.tools = @ \cup {e.index}, !.arguments[e.index] = <<>>,
                   !.initial[e.index] = Pieces(e.piece)] \in Accumulator
  <2>1. /\ [kept.arguments EXCEPT ![e.index] = <<>>] \in [Indexes -> Seq(Nat)]
        /\ [kept.initial EXCEPT ![e.index] = Pieces(e.piece)] \in [Indexes -> Seq(Nat)]
    BY <1>0 DEF Accumulator
  <2>2. [kept EXCEPT !.tools = @ \cup {e.index},
           !.arguments = [kept.arguments EXCEPT ![e.index] = <<>>],
           !.initial = [kept.initial EXCEPT ![e.index] = Pieces(e.piece)]] \in Accumulator
    BY <1>0, <2>1 DEF Accumulator
  <2> QED
    BY <2>2
<1>5. [kept EXCEPT !.arguments[e.index] = @ \o Pieces(e.piece)] \in Accumulator
  <2>1. kept.arguments[e.index] \o Pieces(e.piece) \in Seq(Nat)
    BY <1>0 DEF Accumulator
  <2> QED
    BY <1>0, <2>1 DEF Accumulator
<1>6. [kept EXCEPT !.stopReason = e.reason] \in Accumulator
  BY <1>0 DEF Accumulator
<1>7. [kept EXCEPT !.nonportable = TRUE] \in Accumulator
  BY DEF Accumulator
<1> QED
  BY <1>1, <1>2, <1>3, <1>4, <1>5, <1>6, <1>7 DEF Observed

-----------------------------------------------------------------------------

Typed ==
  /\ Decoding /\ EncodersTyped
  /\ pipe \in Pipes
  /\ kept \in Accumulator
  /\ buffer \in Buffer /\ Len(buffer.events) <= MaxBuffered
  /\ stored \in Turn \cup {Nothing}
  /\ listening \in BOOLEAN
  /\ stage = "persist" /\ ~pipe.held => queue # <<>>

LEMMA InitTyped ==
  ASSUME Init
  PROVE  Typed
<1>1. Decoding
  <2>1. /\ up \in Upstream /\ queue \in Seq(Event)
    BY DEF Init, Upstream, Phases
  <2>2. fromAnthropic \in AnthropicDecoder /\ fromGemini \in GeminiDecoder
    BY StreamBounds DEF Init, InitDecoders, AnthropicDecoder, GeminiDecoder, Pending
  <2>3. fromOpenAI \in OpenAIDecoder /\ ~fromOpenAI.closing
    BY StreamBounds DEF Init, InitDecoders, OpenAIDecoder, Pending
  <2> QED
    BY <2>1, <2>2, <2>3 DEF Init, Decoding, DecodersTyped, Stages
<1>2. EncodersTyped
  <2>1. [i \in Indexes |-> <<>>] \in [Indexes -> Seq(Nat)] /\ [i \in Indexes |-> 0] \in [Indexes -> Nat]
    OBVIOUS
  <2>2. toResponses \in ResponsesEncoder
    BY <2>1 DEF Init, InitEncoders, ResponsesEncoder
  <2>3. toChat \in ChatEncoder /\ toGemini \in GeminiEncoder
    BY <2>1 DEF Init, InitEncoders, ChatEncoder, GeminiEncoder
  <2>4. view \in View
    BY DEF Init, View
  <2> QED
    BY <2>2, <2>3, <2>4 DEF EncodersTyped
<1>3. kept \in Accumulator
  BY DEF Init, Accumulator
<1>4. buffer \in Buffer /\ Len(buffer.events) <= MaxBuffered
  BY BufferBound DEF Init, Buffer
<1> QED
  BY <1>1, <1>2, <1>3, <1>4 DEF Init, Typed

LEMMA ReadTyped ==
  ASSUME Typed, Read
  PROVE  Typed'
<1>1. Decoding'
  BY DecodeTyped DEF Typed, Read
<1>2. EncodersTyped' /\ pipe' = pipe /\ view' = view
  BY DEF Typed, Read, Decode, EncodersTyped, encoders
<1>3. stage' # "persist"
  <2>1. \A events : Emit(events) => stage' # "persist"
    BY DEF Emit
  <2>2. Fail \/ (\E events : Emit(events)) \/ (stage = "read" /\ UNCHANGED stage)
    BY DEF Read, Reading, ReadingChunk, Decode, DecodeMessages, DecodeChat, DecodeGenerateContent, Garbage,
       MessageStart, TextBlockStart, ToolBlockStart, ThinkingBlockStart, ThinkingDelta,
       TextOrInputDelta, BlockStop, MessageDelta, MessageStop, MessageError,
       ChatUsage, ChatContent, ChatToolCall, ChatFinish, ChatDone, CloseOpenBlock, ChatStops,
       EmptyChunk, GeminiText, FunctionCall, FunctionCallAgain, GeminiFinish
  <2> QED
    BY <2>1, <2>2 DEF Fail
<1> QED
  BY <1>1, <1>2, <1>3 DEF Typed, Read

LEMMA AcceptTyped ==
  ASSUME Typed, Accept
  PROVE  Typed'
<1> DEFINE e == Head(queue)
<1>0. /\ queue # <<>> /\ e \in Event /\ Tail(queue) \in Seq(Event)
  BY HeadTailProperties DEF Typed, Decoding, Accept
<1>1. kept' \in Accumulator
  BY <1>0, ObservedTyped DEF Typed, Accept
<1>2. /\ queue' \in Seq(Event) /\ stage' \in Stages
      /\ stage' \in {"accept", "encode"} => queue' # <<>>
      /\ stage' = "persist" => queue' # <<>>
      /\ buffer' \in Buffer /\ Len(buffer'.events) <= MaxBuffered
  <2>1. CASE Fail /\ UNCHANGED buffer
    BY <2>1 DEF Fail, Stages, Typed
  <2>2. CASE /\ stage' \in {"persist", "encode"}
             /\ UNCHANGED <<queue, buffer>>
    BY <1>0, <2>2 DEF Stages, Typed, Decoding
  <2>3. CASE /\ ~Full
             /\ buffer' = [buffer EXCEPT !.events = Append(@, e)]
             /\ Emit(Tail(queue))
    <3>1. /\ buffer.events \in Seq(Event) /\ Len(buffer.events) < MaxBuffered
          /\ Append(buffer.events, e) \in Seq(Event)
          /\ Len(Append(buffer.events, e)) = Len(buffer.events) + 1
      BY <1>0, <2>3, BufferBound DEF Typed, Buffer, Full
    <3>2. /\ buffer' \in Buffer /\ Len(buffer'.events) <= MaxBuffered
      BY <2>3, <3>1, BufferBound DEF Typed, Buffer
    <3> QED
      BY <1>0, <2>3, <3>2, EmitTyped DEF Stages
  <2> QED
    BY <2>1, <2>2, <2>3 DEF Accept
<1>3. UNCHANGED <<pipe, up, view, fromAnthropic, fromOpenAI, fromGemini,
                  toResponses, toChat, toGemini, stored, listening>>
  BY DEF Accept, decoders, encoders
<1> QED
  BY <1>1, <1>2, <1>3 DEF Typed, Decoding, DecodersTyped, EncodersTyped

LEMMA EncodeTyped ==
  ASSUME Typed, Encode
  PROVE  Typed'
<1> DEFINE e == Head(queue)
<1>0. /\ queue # <<>> /\ e \in Event /\ Tail(queue) \in Seq(Event)
  BY HeadTailProperties DEF Typed, Decoding, Encode
<1>1. EncodersTyped'
  BY <1>0, EncodeEventTyped DEF Typed, Encode
<1>2. /\ queue' \in Seq(Event) /\ stage' \in Stages /\ stage' # "persist"
      /\ stage' \in {"accept", "encode"} => queue' # <<>>
  BY <1>0 DEF Encode, Stages
<1> QED
  BY <1>1, <1>2 DEF Typed, Encode, Decoding, DecodersTyped, decoders

LEMMA ReleaseTyped ==
  ASSUME Typed, Release
  PROVE  Typed'
<1>1. toResponses' \in ResponsesEncoder
  <2>1. Refusal \in BOOLEAN
    BY DEF Refusal
  <2> QED
    BY <2>1 DEF Release, Typed, EncodersTyped, ResponsesEncoder
<1>2. /\ queue' = buffer.events /\ buffer.events \in Seq(Event)
      /\ buffer'.events = buffer.events /\ buffer' \in Buffer
  BY DEF Release, Typed, Buffer
<1>3. stage' \in Stages /\ stage' # "persist" /\ (stage' \in {"accept", "encode"} => queue' # <<>>)
  BY <1>2 DEF Release, Stages
<1> QED
  BY <1>1, <1>2, <1>3 DEF Typed, Release, Decoding, DecodersTyped, decoders, EncodersTyped

LEMMA OtherStepsTyped ==
  ASSUME Typed,
         \/ Persist \/ PersistFails \/ EncodeFails \/ UpstreamEnds \/ UpstreamBreaks
         \/ ClientLeaves \/ UNCHANGED vars
  PROVE  Typed'
<1>1. /\ UNCHANGED <<pipe, up, view, fromAnthropic, fromOpenAI, fromGemini,
                     toResponses, toChat, toGemini, kept, buffer>>
      /\ listening' \in BOOLEAN
  BY DEF Typed, Persist, PersistFails, EncodeFails, UpstreamEnds, UpstreamBreaks, ClientLeaves,
     vars, decoders, encoders
<1>2. /\ stored' \in Turn \cup {Nothing}
  <2>1. TurnStatus \in {"completed", "incomplete"}
    BY DEF TurnStatus
  <2> QED
    BY <2>1 DEF Typed, Turn, Persist, PersistFails, EncodeFails, UpstreamEnds, UpstreamBreaks,
       ClientLeaves, vars
<1>3. DecodersTyped' /\ up' \in Upstream
  BY <1>1 DEF Typed, Decoding, DecodersTyped
<1>4. /\ stage' \in Stages /\ queue' \in Seq(Event)
      /\ stage' \in {"accept", "encode"} => queue' # <<>>
      /\ stage' = "persist" /\ ~pipe.held => queue' # <<>>
  <2>0. /\ stage \in Stages /\ queue \in Seq(Event) /\ <<>> \in Seq(Event)
        /\ stage \in {"accept", "encode"} => queue # <<>>
        /\ stage = "persist" /\ ~pipe.held => queue # <<>>
    BY DEF Typed, Decoding
  <2>1. CASE Persist
    BY <2>0, <2>1 DEF Persist, Stages
  <2>2. CASE PersistFails \/ EncodeFails \/ UpstreamBreaks
    BY <2>0, <2>2 DEF PersistFails, EncodeFails, UpstreamBreaks, Fail, Stages
  <2>3. CASE UpstreamEnds
    <3>1. queue' = queue /\ (stage' = "persist" => pipe.held)
          /\ stage' \in {"failed", "ended", "persist", "release"}
      BY <2>3 DEF UpstreamEnds
    <3> QED
      BY <2>0, <3>1 DEF Stages
  <2>4. CASE ClientLeaves \/ UNCHANGED vars
    BY <2>0, <2>4 DEF ClientLeaves, vars
  <2> QED
    BY <2>1, <2>2, <2>3, <2>4
<1> QED
  BY <1>1, <1>2, <1>3, <1>4 DEF Typed, Decoding, EncodersTyped

LEMMA TypedKept ==
  ASSUME Typed, [Next]_vars
  PROVE  Typed'
BY ReadTyped, AcceptTyped, EncodeTyped, ReleaseTyped, OtherStepsTyped DEF Next, Closed

LEMMA TypedOK ==
  ASSUME Typed
  PROVE  TypeOK
BY DEF Typed, TypeOK, Decoding, DecodersTyped, EncodersTyped

(* Type correctness of the whole pipeline, whatever the upstream sends.    *)
THEOREM TypeCorrect == Spec => []TypeOK
<1>1. Init => Typed
  BY InitTyped
<1>2. Typed /\ [Next]_vars => Typed'
  BY TypedKept
<1>3. Typed => TypeOK
  BY TypedOK
<1> QED
  BY <1>1, <1>2, <1>3, PTL DEF Spec
-----------------------------------------------------------------------------
(* What is held back.                                                      *)

Holding == pipe.held /\ ~buffer.released => stage # "encode" /\ Untouched

LEMMA DecodeStage ==
  ASSUME Decode
  PROVE  /\ stage' \in {"read", "accept", "failed"} /\ stage = "read"
         /\ pipe' = pipe /\ view' = view
<1>1. \A events : Emit(events) => stage' \in {"read", "accept"}
  BY DEF Emit
<1>2. /\ Fail \/ (\E events : Emit(events)) \/ UNCHANGED stage
      /\ stage = "read"
  BY ZenonT(40) DEF Reading, ReadingChunk, Decode, DecodeMessages, DecodeChat, DecodeGenerateContent, Garbage,
     MessageStart, TextBlockStart, ToolBlockStart, ThinkingBlockStart, ThinkingDelta, BlockStart,
     BlockDelta, TextOrInputDelta, BlockStop, MessageDelta, MessageStop, MessageError,
     ChatUsage, ChatContent, ChatToolCall, ChatFinish, ChatDone, CloseOpenBlock, ChatStops,
     EmptyChunk, GeminiText, FunctionCall, FunctionCallAgain, GeminiFinish
<1> QED
  BY <1>1, <1>2 DEF Fail, Decode

LEMMA DecodeReads ==
  ASSUME Decode, queue = <<>>, stage' = "read"
  PROVE  queue' = <<>>
<1>1. \A events : Emit(events) => queue' = <<>>
  BY DEF Emit
<1>2. Fail \/ (\E events : Emit(events)) \/ UNCHANGED queue
  BY DEF Decode, DecodeMessages, DecodeChat, DecodeGenerateContent, Garbage,
     MessageStart, TextBlockStart, ToolBlockStart, ThinkingBlockStart, ThinkingDelta, TextOrInputDelta,
     BlockStop, MessageDelta, MessageStop, MessageError,
     ChatUsage, ChatContent, ChatToolCall, ChatFinish, ChatDone, CloseOpenBlock, ChatStops,
     EmptyChunk, GeminiText, FunctionCall, FunctionCallAgain, GeminiFinish
<1> QED
  BY <1>1, <1>2 DEF Fail

LEMMA HoldingKept ==
  ASSUME TypeOK, Holding, [Next]_vars
  PROVE  Holding'
<1>1. CASE Read
  BY <1>1, DecodeStage DEF Read, Holding, Untouched
<1>2. CASE Accept
  <2>1. view' = view /\ pipe' = pipe /\ (stage' = "encode" => ~pipe.held)
    BY <1>2 DEF Accept, Emit, Fail
  <2>2. buffer'.released = buffer.released
    BY <1>2 DEF Accept, TypeOK, Buffer
  <2> QED
    BY <2>1, <2>2 DEF Holding, Untouched
<1>3. CASE Persist \/ PersistFails \/ UpstreamEnds \/ UpstreamBreaks
  BY <1>3 DEF Persist, PersistFails, UpstreamEnds, UpstreamBreaks, Fail, Holding, Untouched
<1>4. CASE Encode \/ EncodeFails
  BY <1>4, Zenon DEF Encode, EncodeFails, Fail, Holding
<1>5. CASE Release
  BY <1>5 DEF Release, Holding, Untouched
<1>6. CASE ClientLeaves \/ Closed \/ UNCHANGED vars
  BY <1>6 DEF ClientLeaves, Closed, vars, Holding, Untouched
<1> QED
  BY <1>1, <1>2, <1>3, <1>4, <1>5, <1>6 DEF Next

(* buffer_refusals: nothing reaches the client before the buffer is let go,*)
(* however long the upstream sends, and not when it breaks off (the first  *)
(* half of RefusalExact).                                                  *)
THEOREM NothingShownEarly == Spec => []HeldBack
<1>1. Init => Holding
  BY DEF Init, Holding, Untouched
<1>2. TypeOK /\ Holding /\ [Next]_vars => Holding'
  BY HoldingKept
<1>3. Holding => HeldBack
  BY DEF Holding, HeldBack
<1> QED
  BY <1>1, <1>2, <1>3, TypeCorrect, PTL DEF Spec
-----------------------------------------------------------------------------
(* How the decoders start and stop.                                        *)

Started ==
  \/ pipe.from = "anthropic" /\ fromAnthropic.started
  \/ pipe.from = "openai" /\ fromOpenAI.started
  \/ pipe.from = "gemini" /\ fromGemini.started

Stopped ==
  \/ pipe.from = "anthropic" /\ fromAnthropic.stopped
  \/ pipe.from = "openai" /\ fromOpenAI.done /\ ~fromOpenAI.closing
  \/ pipe.from = "gemini" /\ fromGemini.stopped

(* What may be on its way before the decoder has started.                  *)
Early == {e \in Event : /\ pipe.from = "anthropic"
                        /\ IF pipe.lawful THEN e.type = "error" ELSE e.type # "response_start"}
NoError == {e \in Event : e.type # "error"}
NoStop == {e \in Event : e.type # "response_stop"}

OnItsWay(events) ==
  /\ ~Started => events \in Seq(Early)
  /\ pipe.lawful /\ ~up.reported => events \in Seq(NoError)
  /\ pipe.lawful /\ (up.reported \/ up.phase # "over") => events \in Seq(NoStop)

UpstreamFacts ==
  /\ pipe.lawful /\ pipe.from = "anthropic" /\ up.phase \in {"message", "stopping"} =>
       fromAnthropic.started
  /\ fromOpenAI.pendingStop # "none" => fromOpenAI.started
  /\ fromGemini.kind # "none" => fromGemini.started
  /\ fromOpenAI.closing => pipe.from = "openai" /\ (pipe.lawful => up.phase = "over")
  /\ up.reported => up.phase = "over" /\ pipe.from = "anthropic"

(* What every step of a decoder keeps, and what most of them keep.         *)
Told ==
  /\ UpstreamFacts' /\ OnItsWay(queue)'
  /\ Started => Started'
  /\ Stopped' => Stopped \/ stage' = "failed" \/ queue' \notin Seq(Middle)
  /\ up.reported => up'.reported
  /\ pipe.lawful /\ up.phase = "over" => up'.phase = "over" /\ up'.reported = up.reported

Plainly ==
  /\ UpstreamFacts'
  /\ Started => Started'
  /\ Stopped' => Stopped \/ stage' = "failed"
  /\ up'.reported = up.reported
  /\ pipe.lawful /\ up.phase = "over" => up'.phase = "over"

LEMMA Quiet ==
  /\ Middle \subseteq NoError /\ Middle \subseteq NoStop
  /\ pipe.from = "anthropic" /\ ~pipe.lawful => Inner \subseteq Early
BY DEF Middle, Inner, NoError, NoStop, Early

LEMMA SeqSubset ==
  ASSUME NEW S, NEW T, S \subseteq T
  PROVE  Seq(S) \subseteq Seq(T)
OBVIOUS

LEMMA PlainlyTold ==
  ASSUME Plainly, pipe' = pipe, queue' \in Seq(Middle),
         Started' \/ queue' = <<>>
           \/ (pipe.from = "anthropic" /\ ~pipe.lawful /\ queue' \in Seq(Inner))
  PROVE  Told
<1>1. queue' \in Seq(NoError) /\ queue' \in Seq(NoStop)
  BY Quiet, SeqSubset
<1>2. ~Started' => queue' \in Seq(Early)
  BY Quiet, SeqSubset
<1>3. Early' = Early /\ NoError' = NoError /\ NoStop' = NoStop
  BY DEF Early, NoError, NoStop
<1> QED
  BY <1>1, <1>2, <1>3 DEF Plainly, Told, OnItsWay

(* An upstream that keeps its format does what its record says.            *)
LEMMA Recorded ==
  ASSUME up \in Upstream, NEW u \in Upstream, Sends(u)
  PROVE  /\ pipe.lawful => up' = u
         /\ ~pipe.lawful => up'.phase = up.phase /\ up'.reported = up.reported
BY DEF Sends, Upstream

LEMMA AddingPhase ==
  ASSUME NEW at, NEW kind, NEW p, up \in Upstream
  PROVE  /\ Adding(at, kind, p).phase = "message"
         /\ Adding(at, kind, p).reported = up.reported
BY DEF Adding, Upstream

LEMMA MessageStartTold ==
  ASSUME Decoding, UpstreamFacts, pipe' = pipe, NEW counts \in Counts, MessageStart(counts)
  PROVE  Told
<1>0. up \in Upstream /\ fromAnthropic \in AnthropicDecoder /\ pipe.from = "anthropic"
  BY DEF Decoding, DecodersTyped, MessageStart, Reading
<1>1. [up EXCEPT !.phase = "message"] \in Upstream
  BY <1>0, SaysTyped DEF Phases
<1>2. /\ pipe.lawful => up.phase = "idle" /\ up' = [up EXCEPT !.phase = "message"]
      /\ ~pipe.lawful => up'.phase = up.phase /\ up'.reported = up.reported
  BY <1>0, <1>1, Recorded DEF MessageStart, Says, Lawful
<1>3. fromAnthropic'.started /\ fromAnthropic'.stopped = fromAnthropic.stopped
  BY <1>0 DEF MessageStart, AnthropicDecoder
<1>4. UNCHANGED <<fromOpenAI, fromGemini>>
  BY DEF MessageStart
<1>5. up'.reported = up.reported /\ (pipe.lawful => up'.phase = "message")
  BY <1>0, <1>2 DEF Upstream
<1>6. Plainly
  BY <1>0, <1>2, <1>3, <1>4, <1>5 DEF Plainly, UpstreamFacts, Started, Stopped
<1>7. Started'
  BY <1>0, <1>3 DEF Started
<1> QED
  BY <1>6, <1>7, MessageStartTyped, PlainlyTold

(* Blocks come within a message of an upstream that keeps its format.      *)
LEMMA WithinMessage ==
  ASSUME up \in Upstream, NEW u \in Upstream, Sends(u), Lawful({"message"}),
         u.phase \in {"message", "stopping"}, u.reported = up.reported,
         UpstreamFacts, pipe' = pipe, pipe.from = "anthropic",
         fromAnthropic'.started = fromAnthropic.started,
         fromAnthropic'.stopped = fromAnthropic.stopped,
         UNCHANGED <<fromOpenAI, fromGemini>>,
         queue' \in Seq(Inner)
  PROVE  Told
<1>1. /\ pipe.lawful => up.phase = "message" /\ up' = u
      /\ ~pipe.lawful => up'.phase = up.phase /\ up'.reported = up.reported
  BY Recorded DEF Lawful
<1>2. Plainly
  BY <1>1 DEF Plainly, UpstreamFacts, Started, Stopped
<1>3. pipe.lawful => Started'
  BY <1>1 DEF UpstreamFacts, Started
<1>4. queue' \in Seq(Middle)
  BY InnerMiddle, SeqSubset
<1> QED
  BY <1>2, <1>3, <1>4, PlainlyTold

LEMMA BlockStartsTold ==
  ASSUME Decoding, UpstreamFacts, pipe' = pipe, NEW i \in Indexes, NEW p \in NextPiece,
         TextBlockStart(i, p) \/ ToolBlockStart(i, p) \/ ThinkingBlockStart(i, p)
  PROVE  Told
<1>0. up \in Upstream /\ fromAnthropic \in AnthropicDecoder
  BY DEF Decoding, DecodersTyped
<1>1. PICK kind \in Kinds : BlockStart(i, kind, p)
  BY DEF TextBlockStart, ToolBlockStart, ThinkingBlockStart, Kinds
<1> DEFINE u == [Adding(i, kind, p) EXCEPT !.open = kind, !.next = @ + 1]
<1>2. i \in Nat
  BY StreamBounds DEF Indexes
<1>3. u \in Upstream /\ u.phase = "message" /\ u.reported = up.reported
  <2> DEFINE w == Adding(i, kind, p)
  <2>1. w \in Upstream /\ w.phase = "message" /\ w.reported = up.reported
    BY <1>0, <1>2, AddingTyped, AddingPhase
  <2> HIDE DEF w
  <2>2. /\ [w EXCEPT !.open = kind, !.next = @ + 1].phase = "message"
        /\ [w EXCEPT !.open = kind, !.next = @ + 1].reported = up.reported
    BY <2>1 DEF Upstream
  <2> QED
    BY <1>0, <2>2, BlockStartTyped DEF w
<1>4. Sends(u) /\ Lawful({"message"}) /\ pipe.from = "anthropic"
  BY <1>1 DEF BlockStart, Reading
<1> HIDE DEF u
<1>5. /\ fromAnthropic'.started = fromAnthropic.started
      /\ fromAnthropic'.stopped = fromAnthropic.stopped
      /\ UNCHANGED <<fromOpenAI, fromGemini>>
  BY <1>0 DEF TextBlockStart, ToolBlockStart, ThinkingBlockStart, AnthropicDecoder, decoders
<1> QED
  BY <1>0, <1>3, <1>4, <1>5, BlockStartsTyped, WithinMessage

LEMMA BlockDeltasTold ==
  ASSUME Decoding, UpstreamFacts, pipe' = pipe,
         NEW i \in Indexes, NEW kind \in Kinds, NEW p \in NextPiece,
         TextOrInputDelta(i, kind, p) \/ ThinkingDelta(i, p)
  PROVE  Told
<1>0. up \in Upstream /\ fromAnthropic \in AnthropicDecoder /\ "reasoning" \in Kinds
  BY DEF Decoding, DecodersTyped, Kinds
<1>1. PICK k \in Kinds : BlockDelta(i, k, p)
  BY <1>0 DEF TextOrInputDelta, ThinkingDelta
<1>2. i \in Nat
  BY StreamBounds DEF Indexes
<1>3. /\ Adding(i, k, p) \in Upstream /\ Adding(i, k, p).phase = "message"
      /\ Adding(i, k, p).reported = up.reported
  BY <1>0, <1>2, AddingTyped, AddingPhase
<1>4. Sends(Adding(i, k, p)) /\ Lawful({"message"}) /\ pipe.from = "anthropic"
  BY <1>1 DEF BlockDelta, Reading
<1>5. /\ fromAnthropic'.started = fromAnthropic.started
      /\ fromAnthropic'.stopped = fromAnthropic.stopped
      /\ UNCHANGED <<fromOpenAI, fromGemini>>
  BY <1>0 DEF TextOrInputDelta, ThinkingDelta, AnthropicDecoder, decoders
<1> QED
  BY <1>0, <1>3, <1>4, <1>5, BlockDeltasTyped, WithinMessage

LEMMA BlockStopTold ==
  ASSUME Decoding, UpstreamFacts, pipe' = pipe, NEW i \in Indexes, BlockStop(i)
  PROVE  Told
<1> DEFINE u == [up EXCEPT !.open = "none"]
<1>0. up \in Upstream /\ fromAnthropic \in AnthropicDecoder
  BY DEF Decoding, DecodersTyped
<1>1. u \in Upstream /\ u.phase = up.phase /\ u.reported = up.reported
  BY <1>0 DEF Upstream
<1>2. Sends(u) /\ Lawful({"message"}) /\ pipe.from = "anthropic"
  BY DEF BlockStop, Reading
<1>3. /\ fromAnthropic'.started = fromAnthropic.started
      /\ fromAnthropic'.stopped = fromAnthropic.stopped
      /\ UNCHANGED <<fromOpenAI, fromGemini>>
  BY <1>0 DEF BlockStop, AnthropicDecoder
<1>4. queue' \in Seq(Inner)
  BY BlockStopTyped
<1> HIDE DEF u
<1>5. /\ pipe.lawful => up.phase = "message" /\ up' = u
      /\ ~pipe.lawful => up'.phase = up.phase /\ up'.reported = up.reported
  BY <1>0, <1>1, <1>2, Recorded DEF Lawful
<1>6. Plainly
  BY <1>1, <1>2, <1>3, <1>5 DEF Plainly, UpstreamFacts, Started, Stopped
<1>7. pipe.lawful => Started'
  BY <1>1, <1>2, <1>3, <1>5 DEF UpstreamFacts, Started
<1>8. queue' \in Seq(Middle)
  BY <1>4, InnerMiddle, SeqSubset
<1> QED
  BY <1>2, <1>4, <1>6, <1>7, <1>8, PlainlyTold

LEMMA MessageDeltaTold ==
  ASSUME Decoding, UpstreamFacts, pipe' = pipe, NEW reason \in Pending, NEW counts \in Counts,
         MessageDelta(reason, counts)
  PROVE  Told
<1> DEFINE u == [up EXCEPT !.phase = "stopping"]
<1>0. up \in Upstream /\ fromAnthropic \in AnthropicDecoder
  BY DEF Decoding, DecodersTyped
<1>1. u \in Upstream /\ u.phase = "stopping" /\ u.reported = up.reported
  BY <1>0 DEF Upstream, Phases
<1>2. Sends(u) /\ Lawful({"message"}) /\ pipe.from = "anthropic"
  BY DEF MessageDelta, Says, Reading
<1>3. /\ fromAnthropic'.started = fromAnthropic.started
      /\ fromAnthropic'.stopped = fromAnthropic.stopped
      /\ UNCHANGED <<fromOpenAI, fromGemini>>
  BY <1>0 DEF MessageDelta, AnthropicDecoder
<1> HIDE DEF u
<1> QED
  BY <1>0, <1>1, <1>2, <1>3, MessageDeltaTyped, WithinMessage

LEMMA MessageStopTold ==
  ASSUME Decoding, UpstreamFacts, pipe' = pipe, MessageStop
  PROVE  Told
<1> DEFINE u == [up EXCEPT !.phase = "over"]
           e == ResponseStop(fromAnthropic.pendingStop)
<1>0. up \in Upstream /\ fromAnthropic \in AnthropicDecoder
  BY DEF Decoding, DecodersTyped
<1>1. u \in Upstream /\ u.phase = "over" /\ u.reported = up.reported
  BY <1>0 DEF Upstream, Phases
<1>2. Sends(u) /\ Lawful({"stopping"}) /\ pipe.from = "anthropic"
  BY DEF MessageStop, Says, Reading
<1>3. UNCHANGED <<fromOpenAI, fromGemini>> /\ fromAnthropic'.started = fromAnthropic.started
  BY <1>0 DEF MessageStop, AnthropicDecoder
<1> HIDE DEF u
<1>4. /\ pipe.lawful => up.phase = "stopping" /\ up' = u
      /\ ~pipe.lawful => up'.phase = up.phase /\ up'.reported = up.reported
  BY <1>0, <1>1, <1>2, Recorded DEF Lawful
<1>5. CASE fromAnthropic.pendingStop = "none"
  <2>1. Fail /\ UNCHANGED fromAnthropic
    BY <1>5 DEF MessageStop
  <2>2. queue' = <<>> /\ queue' \in Seq(Middle)
    BY <2>1 DEF Fail
  <2>3. Plainly
    BY <1>1, <1>2, <1>3, <1>4, <2>1 DEF Plainly, UpstreamFacts, Started, Stopped
  <2> QED
    BY <2>2, <2>3, PlainlyTold
<1>6. CASE fromAnthropic.pendingStop # "none"
  <2>1. fromAnthropic.pendingStop \in Reasons
    BY <1>0, <1>6 DEF AnthropicDecoder, Pending
  <2>2. e \in Event /\ e.type = "response_stop" /\ queue' = <<e>>
    BY <1>6, <2>1, EventsTyped DEF MessageStop, Emit, ResponseStop, Plain
  <2> HIDE DEF e
  <2>3. e \notin Middle /\ e \in NoError /\ (pipe.from = "anthropic" /\ ~pipe.lawful => e \in Early)
    BY <2>2 DEF Middle, NoError, Early
  <2>4. /\ queue' \notin Seq(Middle) /\ queue' \in Seq(NoError)
        /\ pipe.from = "anthropic" /\ ~pipe.lawful => queue' \in Seq(Early)
    BY <2>2, <2>3
  <2>5. UpstreamFacts'
    BY <1>1, <1>2, <1>3, <1>4 DEF UpstreamFacts
  <2>6. Early' = Early /\ NoError' = NoError /\ NoStop' = NoStop
    BY DEF Early, NoError, NoStop
  <2>7. OnItsWay(queue)'
    <3>1. ~Started' => ~pipe.lawful
      BY <1>2, <1>3, <1>4 DEF Started, UpstreamFacts
    <3>2. pipe.lawful => up'.phase = "over" /\ ~up'.reported
      BY <1>1, <1>4 DEF UpstreamFacts
    <3> QED
      BY <1>2, <2>4, <2>6, <3>1, <3>2 DEF OnItsWay
  <2>8. Started => Started'
    BY <1>3 DEF Started
  <2>9. /\ up'.reported = up.reported /\ (pipe.lawful => up.phase # "over")
    BY <1>1, <1>4
  <2> QED
    BY <2>4, <2>5, <2>7, <2>8, <2>9 DEF Told
<1> QED
  BY <1>5, <1>6

LEMMA MessageErrorTold ==
  ASSUME Decoding, UpstreamFacts, pipe' = pipe, MessageError
  PROVE  Told
<1> DEFINE u == [up EXCEPT !.phase = "over", !.reported = TRUE]
<1>0. up \in Upstream /\ fromAnthropic \in AnthropicDecoder
  BY DEF Decoding, DecodersTyped
<1>1. u \in Upstream /\ u.phase = "over" /\ u.reported
  BY <1>0 DEF Upstream, Phases
<1>2. Sends(u) /\ Lawful(Phases \ {"over"}) /\ pipe.from = "anthropic"
  BY DEF MessageError, Reading
<1>3. UNCHANGED <<fromOpenAI, fromGemini>> /\ fromAnthropic'.started = fromAnthropic.started
  BY <1>0 DEF MessageError, AnthropicDecoder
<1> HIDE DEF u
<1>4. /\ pipe.lawful => up.phase # "over" /\ up' = u
      /\ ~pipe.lawful => up'.phase = up.phase /\ up'.reported = up.reported
  BY <1>0, <1>1, <1>2, Recorded DEF Lawful
<1>5. StreamError \in Event /\ StreamError.type = "error" /\ queue' = <<StreamError>>
  BY EventsTyped DEF MessageError, Emit, StreamError, Plain
<1>6. StreamError \notin Middle /\ StreamError \in NoStop /\ StreamError \in Early
  BY <1>2, <1>5 DEF Middle, NoStop, Early
<1>7. queue' \notin Seq(Middle) /\ queue' \in Seq(NoStop) /\ queue' \in Seq(Early)
  BY <1>5, <1>6
<1>8. UpstreamFacts'
  BY <1>1, <1>2, <1>3, <1>4 DEF UpstreamFacts
<1>9. Early' = Early /\ NoError' = NoError /\ NoStop' = NoStop
  BY DEF Early, NoError, NoStop
<1>10. OnItsWay(queue)'
  BY <1>1, <1>4, <1>7, <1>9 DEF OnItsWay
<1>11. Started => Started'
  BY <1>3 DEF Started
<1> QED
  BY <1>1, <1>4, <1>7, <1>8, <1>10, <1>11 DEF Told

-----------------------------------------------------------------------------

(* A chunk, of an upstream that keeps its format before it is over, that   *)
(* starts the decoder and stops nothing.                                   *)
LEMMA ChunkTold ==
  ASSUME up \in Upstream, NEW u \in Upstream, Sends(u), pipe' = pipe, UpstreamFacts,
         pipe.from \in {"openai", "gemini"},
         u.reported = up.reported, pipe.lawful /\ up.phase = "over" => u.phase = "over",
         Started', Stopped' => Stopped \/ stage' = "failed", UNCHANGED fromAnthropic,
         fromOpenAI'.closing => fromOpenAI.closing,
         fromOpenAI'.pendingStop # "none" => fromOpenAI'.started,
         fromGemini'.kind # "none" => fromGemini'.started,
         queue' \in Seq(Middle)
  PROVE  Told
<1>1. /\ pipe.lawful => up' = u
      /\ ~pipe.lawful => up'.phase = up.phase /\ up'.reported = up.reported
  BY Recorded
<1>2. up'.reported = up.reported /\ (pipe.lawful /\ up.phase = "over" => up'.phase = "over")
  BY <1>1
<1>3. UpstreamFacts'
  BY <1>1, <1>2 DEF UpstreamFacts
<1>4. Plainly
  BY <1>2, <1>3 DEF Plainly
<1> QED
  BY <1>4, PlainlyTold

LEMMA ChatUsageTold ==
  ASSUME Decoding, UpstreamFacts, pipe' = pipe, NEW counts \in Counts, ChatUsage(counts)
  PROVE  Told
<1>0. up \in Upstream /\ fromOpenAI \in OpenAIDecoder /\ pipe.from = "openai" /\ ~fromOpenAI.closing
  BY DEF Decoding, DecodersTyped, ChatUsage, ReadingChunk, Reading
<1>1. [up EXCEPT !.phase = up.phase] = up
  BY <1>0 DEF Upstream
<1>2. Sends(up)
  BY <1>1 DEF ChatUsage, Says
<1>3. /\ fromOpenAI'.started /\ fromOpenAI'.done = fromOpenAI.done /\ ~fromOpenAI'.closing
      /\ UNCHANGED <<fromAnthropic, fromGemini>>
  BY <1>0 DEF ChatUsage, OpenAIDecoder
<1>4. Started' /\ (Stopped' => Stopped) /\ (fromGemini'.kind # "none" => fromGemini'.started)
  BY <1>0, <1>3 DEF Started, Stopped, UpstreamFacts
<1> QED
  BY <1>0, <1>2, <1>3, <1>4, ChatUsageTyped, ChunkTold

LEMMA ChatContentTold ==
  ASSUME Decoding, UpstreamFacts, pipe' = pipe, NEW p \in NextPiece,
         \/ ChatContent(p)
         \/ \E call \in Calls : ChatToolCall(call, p)
  PROVE  Told
<1>0. up \in Upstream /\ fromOpenAI \in OpenAIDecoder /\ pipe.from = "openai" /\ ~fromOpenAI.closing
  BY DEF Decoding, DecodersTyped, ChatContent, ChatToolCall, ReadingChunk, Reading
<1>1. PICK at \in Nat, kind \in Kinds : Sends(Adding(at, kind, p))
  <2>1. ChatText \in Nat /\ Calls \subseteq Nat /\ {"text", "tool"} \subseteq Kinds
    BY CallBound DEF ChatText, Calls, Kinds
  <2>2. CASE ChatContent(p)
    BY <2>1, <2>2 DEF ChatContent
  <2>3. ASSUME NEW call \in Calls, ChatToolCall(call, p)
        PROVE  Sends(Adding(call, "tool", p))
    BY <2>3 DEF ChatToolCall
  <2> QED
    BY <2>1, <2>2, <2>3
<1>2. /\ Adding(at, kind, p) \in Upstream /\ Adding(at, kind, p).phase = "message"
      /\ Adding(at, kind, p).reported = up.reported
  BY <1>0, AddingTyped, AddingPhase
<1>3. pipe.lawful => up.phase # "over"
  BY DEF ChatContent, ChatToolCall, ReadingChunk, Lawful
<1>4. /\ fromOpenAI'.started /\ fromOpenAI'.done = fromOpenAI.done /\ ~fromOpenAI'.closing
      /\ UNCHANGED <<fromAnthropic, fromGemini>>
  BY <1>0 DEF ChatContent, ChatToolCall, OpenAIDecoder
<1>5. Started' /\ (Stopped' => Stopped) /\ (fromGemini'.kind # "none" => fromGemini'.started)
  BY <1>0, <1>4 DEF Started, Stopped, UpstreamFacts
<1>6. queue' \in Seq(Middle)
  BY ChatContentTyped, ChatToolCallTyped
<1> QED
  BY <1>0, <1>1, <1>2, <1>3, <1>4, <1>5, <1>6, ChunkTold

LEMMA ChatFinishTold ==
  ASSUME Decoding, UpstreamFacts, pipe' = pipe, NEW reason \in ChatReasons, ChatFinish(reason)
  PROVE  Told
<1>0. up \in Upstream /\ fromOpenAI \in OpenAIDecoder /\ pipe.from = "openai" /\ ~fromOpenAI.closing
  BY DEF Decoding, DecodersTyped, ChatFinish, ReadingChunk, Reading
<1> DEFINE u == [up EXCEPT !.phase = "stopping"]
<1>1. u \in Upstream /\ u.reported = up.reported
  BY <1>0 DEF Upstream, Phases
<1>2. Sends(u) /\ (pipe.lawful => up.phase # "over")
  BY DEF ChatFinish, Says, ReadingChunk, Lawful
<1>3. /\ fromOpenAI'.started /\ fromOpenAI'.done = fromOpenAI.done /\ ~fromOpenAI'.closing
      /\ UNCHANGED <<fromAnthropic, fromGemini>>
  BY <1>0 DEF ChatFinish, OpenAIDecoder
<1>4. Started' /\ (Stopped' => Stopped) /\ (fromGemini'.kind # "none" => fromGemini'.started)
  BY <1>0, <1>3 DEF Started, Stopped, UpstreamFacts
<1> HIDE DEF u
<1> QED
  BY <1>0, <1>1, <1>2, <1>3, <1>4, ChatFinishTyped, ChunkTold

(* [DONE] after a finish reason closes the blocks, one by one.             *)
LEMMA ChatDoneTold ==
  ASSUME Decoding, UpstreamFacts, pipe' = pipe, ChatDone, queue = <<>>
  PROVE  Told
<1>0. up \in Upstream /\ fromOpenAI \in OpenAIDecoder /\ pipe.from = "openai" /\ ~fromOpenAI.closing
  BY DEF Decoding, DecodersTyped, ChatDone, ReadingChunk, Reading
<1> DEFINE u == [up EXCEPT !.phase = "over"]
<1>1. u \in Upstream /\ u.reported = up.reported /\ u.phase = "over"
  BY <1>0 DEF Upstream, Phases
<1>2. Sends(u)
  BY DEF ChatDone, Says
<1>3. /\ fromOpenAI'.started = fromOpenAI.started
      /\ fromOpenAI'.closing <=> fromOpenAI.pendingStop # "none"
      /\ fromOpenAI'.pendingStop = fromOpenAI.pendingStop
      /\ UNCHANGED <<fromAnthropic, fromGemini>>
  BY <1>0, Zenon DEF ChatDone, OpenAIDecoder
<1> HIDE DEF u
<1>4. /\ pipe.lawful => up' = u
      /\ ~pipe.lawful => up'.phase = up.phase /\ up'.reported = up.reported
  BY <1>0, <1>1, <1>2, Recorded
<1>5. queue' = <<>> /\ (stage' = "failed" \/ fromOpenAI.pendingStop # "none")
  BY DEF ChatDone, Fail
<1>6. UpstreamFacts'
  BY <1>0, <1>1, <1>3, <1>4 DEF UpstreamFacts
<1>7. Plainly
  BY <1>0, <1>1, <1>3, <1>4, <1>5, <1>6 DEF Plainly, Started, Stopped
<1>8. queue' \in Seq(Middle)
  BY <1>5
<1> QED
  BY <1>5, <1>7, <1>8, PlainlyTold

LEMMA CloseOpenBlockTold ==
  ASSUME Decoding, UpstreamFacts, pipe' = pipe, CloseOpenBlock
  PROVE  Told
<1>0. /\ fromOpenAI \in OpenAIDecoder /\ fromOpenAI.closing
      /\ fromOpenAI.pendingStop # "none" /\ up' = up
  BY DEF Decoding, DecodersTyped, CloseOpenBlock
<1>1. pipe.from = "openai" /\ fromOpenAI.started
  BY <1>0 DEF UpstreamFacts
<1>2. /\ fromOpenAI'.started /\ fromOpenAI'.closing
      /\ fromOpenAI'.pendingStop = fromOpenAI.pendingStop
      /\ UNCHANGED <<fromAnthropic, fromGemini>>
  BY <1>0, <1>1 DEF CloseOpenBlock, OpenAIDecoder
<1>3. UpstreamFacts' /\ Started' /\ ~Stopped'
  BY <1>0, <1>1, <1>2 DEF UpstreamFacts, Started, Stopped
<1>4. queue' \in Seq(Middle)
  BY CloseOpenBlockTyped, InnerMiddle, SeqSubset
<1>5. Plainly
  BY <1>0, <1>3 DEF Plainly
<1> QED
  BY <1>3, <1>4, <1>5, PlainlyTold

LEMMA ChatStopsTold ==
  ASSUME Decoding, UpstreamFacts, pipe' = pipe, ChatStops
  PROVE  Told
<1> DEFINE e == ResponseStop(fromOpenAI.pendingStop)
<1>0. /\ fromOpenAI \in OpenAIDecoder /\ fromOpenAI.closing
      /\ fromOpenAI.pendingStop \in Reasons /\ up' = up
  BY DEF Decoding, DecodersTyped, ChatStops, OpenAIDecoder, Pending
<1>1. /\ pipe.from = "openai" /\ fromOpenAI.started /\ ~up.reported
      /\ pipe.lawful => up.phase = "over"
  BY <1>0 DEF UpstreamFacts, Reasons
<1>2. /\ fromOpenAI'.started /\ ~fromOpenAI'.closing
      /\ fromOpenAI'.pendingStop = fromOpenAI.pendingStop
      /\ UNCHANGED <<fromAnthropic, fromGemini>>
  BY <1>0, <1>1 DEF ChatStops, OpenAIDecoder
<1>3. UpstreamFacts' /\ Started'
  BY <1>0, <1>1, <1>2 DEF UpstreamFacts, Started
<1>4. e \in Event /\ e.type = "response_stop" /\ queue' = <<e>>
  BY <1>0, EventsTyped DEF ChatStops, Emit, ResponseStop, Plain
<1> HIDE DEF e
<1>5. e \notin Middle /\ e \in NoError
  BY <1>4 DEF Middle, NoError
<1>6. queue' \notin Seq(Middle) /\ queue' \in Seq(NoError)
  BY <1>4, <1>5
<1>7. NoError' = NoError
  BY DEF NoError
<1>8. OnItsWay(queue)'
  BY <1>0, <1>1, <1>3, <1>6, <1>7 DEF OnItsWay
<1> QED
  BY <1>0, <1>1, <1>3, <1>6, <1>8 DEF Told

-----------------------------------------------------------------------------

LEMMA GeminiContentTold ==
  ASSUME Decoding, UpstreamFacts, pipe' = pipe,
         \/ \E counts \in Counts : EmptyChunk(counts)
         \/ \E p \in NextPiece, kind \in {"text", "reasoning"} : GeminiText(kind, p)
         \/ \E p \in NextPiece : FunctionCall(p)
  PROVE  Told
<1>0. /\ up \in Upstream /\ fromGemini \in GeminiDecoder /\ pipe.from = "gemini"
      /\ fromOpenAI \in OpenAIDecoder
  BY DEF Decoding, DecodersTyped, EmptyChunk, GeminiText, FunctionCall, Reading
<1> DEFINE Sent == \E u \in Upstream :
                     /\ Sends(u) /\ u.reported = up.reported
                     /\ pipe.lawful /\ up.phase = "over" => u.phase = "over"
<1>1. Sent
  <2>1. ASSUME NEW counts \in Counts, EmptyChunk(counts)
        PROVE  Sent
    <3> DEFINE phase == IF up.phase = "idle" THEN "message" ELSE up.phase
               u == [up EXCEPT !.phase = phase]
    <3>1. phase \in Phases /\ (up.phase = "over" => phase = "over")
      BY <1>0 DEF Upstream, Phases
    <3>2. Sends(u)
      BY <2>1 DEF EmptyChunk, Says
    <3> HIDE DEF phase
    <3>3. u \in Upstream /\ u.reported = up.reported /\ u.phase = phase
      BY <1>0, <3>1 DEF Upstream
    <3> HIDE DEF u
    <3> QED
      BY <3>1, <3>2, <3>3
  <2>2. ASSUME NEW p \in NextPiece,
               \/ \E kind \in {"text", "reasoning"} : GeminiText(kind, p)
               \/ FunctionCall(p)
        PROVE  Sent
    <3>1. PICK at \in Nat, k \in Kinds : Sends(Adding(at, k, p))
      BY <2>2, <1>0 DEF GeminiText, FunctionCall, Kinds, Indexes
    <3>2. /\ Adding(at, k, p) \in Upstream /\ Adding(at, k, p).phase = "message"
          /\ Adding(at, k, p).reported = up.reported
      BY <1>0, AddingTyped, AddingPhase
    <3>3. pipe.lawful => up.phase # "over"
      BY <2>2 DEF GeminiText, FunctionCall, Lawful
    <3> QED
      BY <3>1, <3>2, <3>3
  <2> HIDE DEF Sent
  <2> QED
    BY <2>1, <2>2
<1>2. /\ fromGemini'.started /\ fromGemini'.stopped = fromGemini.stopped
      /\ UNCHANGED <<fromAnthropic, fromOpenAI>>
  BY <1>0 DEF EmptyChunk, GeminiText, FunctionCall, Activated, Activates, GeminiDecoder, UpstreamFacts
<1>3. Started' /\ (Stopped' => Stopped) /\ (fromOpenAI.pendingStop # "none" => fromOpenAI.started)
  BY <1>0, <1>2 DEF Started, Stopped, UpstreamFacts
<1>4. queue' \in Seq(Middle)
  BY EmptyChunkTyped, GeminiTextTyped, FunctionCallsTyped
<1> QED
  BY <1>0, <1>1, <1>2, <1>3, <1>4, ChunkTold

LEMMA FunctionCallAgainTold ==
  ASSUME Decoding, UpstreamFacts, pipe' = pipe, NEW changed \in BOOLEAN, FunctionCallAgain(changed)
  PROVE  Told
<1>0. /\ up \in Upstream /\ [up EXCEPT !.phase = up.phase] = up
      /\ UNCHANGED <<fromAnthropic, fromOpenAI, fromGemini>> /\ Sends(up)
  BY DEF Decoding, FunctionCallAgain, Says, Upstream, decoders
<1>1. queue' = <<>>
  BY DEF FunctionCallAgain, Fail, Emit
<1>2. up'.phase = up.phase /\ up'.reported = up.reported
  BY <1>0, Recorded
<1>3. Plainly
  BY <1>0, <1>2 DEF Plainly, UpstreamFacts, Started, Stopped
<1>4. queue' \in Seq(Middle)
  BY <1>1
<1> QED
  BY <1>1, <1>3, <1>4, PlainlyTold

LEMMA GarbageTold ==
  ASSUME Decoding, UpstreamFacts, pipe' = pipe, Garbage
  PROVE  Told
<1>0. /\ up \in Upstream /\ [up EXCEPT !.phase = up.phase] = up
      /\ UNCHANGED <<fromAnthropic, fromOpenAI, fromGemini>> /\ Sends(up)
  BY DEF Decoding, Garbage, Says, Upstream, decoders
<1>1. queue' = <<>>
  BY DEF Garbage, Fail
<1>2. up'.phase = up.phase /\ up'.reported = up.reported
  BY <1>0, Recorded
<1>3. Plainly
  BY <1>0, <1>2 DEF Plainly, UpstreamFacts, Started, Stopped
<1>4. queue' \in Seq(Middle)
  BY <1>1
<1> QED
  BY <1>1, <1>3, <1>4, PlainlyTold

LEMMA GeminiFinishTold ==
  ASSUME Decoding, UpstreamFacts, pipe' = pipe, NEW reason \in GeminiReasons, GeminiFinish(reason)
  PROVE  Told
<1> DEFINE stop == IF fromGemini.sawTool /\ reason = "end_turn" THEN "tool_use" ELSE reason
           e == ResponseStop(stop)
           before == GeminiStarts \o CloseActive
           u == [up EXCEPT !.phase = "over"]
<1>0. /\ up \in Upstream /\ fromGemini \in GeminiDecoder /\ pipe.from = "gemini"
      /\ pipe.lawful => up.phase # "over"
  BY DEF Decoding, DecodersTyped, GeminiFinish, Reading, Lawful
<1>1. u \in Upstream /\ u.phase = "over" /\ u.reported = up.reported /\ Sends(u)
  BY <1>0 DEF Upstream, Phases, GeminiFinish, Says
<1>2. stop \in Reasons
  BY DEF GeminiReasons, Reasons
<1>3. e \in Event /\ e.type = "response_stop"
  BY <1>2, EventsTyped DEF ResponseStop, Plain
<1>4. before \in Seq(Middle)
  BY <1>0, CloseActiveTyped, ChatStartsTyped
<1>5. queue' = before \o <<e>>
  <2>1. queue' = GeminiStarts \o CloseActive \o <<e>>
    BY DEF GeminiFinish, Emit
  <2> QED
    BY <2>1
<1> HIDE DEF stop, e, before, u
<1>6. queue' \notin Seq(Middle) /\ queue' \in Seq(NoError)
  <2>1. e \notin Middle /\ e \in NoError /\ before \in Seq(NoError)
    BY <1>3, <1>4, Quiet, SeqSubset DEF Middle, NoError
  <2>2. queue'[Len(before) + 1] = e /\ Len(before) + 1 \in 1 .. Len(queue')
    BY <1>4, <1>5
  <2>3. queue' \in Seq(NoError)
    BY <1>5, <2>1
  <2> QED
    BY <2>1, <2>2, <2>3
<1>7. /\ fromGemini'.started /\ fromGemini'.kind = "none"
      /\ UNCHANGED <<fromAnthropic, fromOpenAI>>
  BY <1>0 DEF GeminiFinish, GeminiDecoder
<1>8. /\ pipe.lawful => up' = u
      /\ ~pipe.lawful => up'.phase = up.phase /\ up'.reported = up.reported
  BY <1>0, <1>1, Recorded
<1>9. UpstreamFacts' /\ Started' /\ ~up.reported /\ ~up'.reported
  BY <1>0, <1>1, <1>7, <1>8 DEF UpstreamFacts, Started
<1>10. NoError' = NoError
  BY DEF NoError
<1>11. OnItsWay(queue)'
  BY <1>1, <1>6, <1>8, <1>9, <1>10 DEF OnItsWay
<1> QED
  BY <1>0, <1>6, <1>9, <1>11 DEF Told

LEMMA DecodeTold ==
  ASSUME Decoding, UpstreamFacts, stage = "read" => queue = <<>>, Decode
  PROVE  Told
<1>0. /\ {"plain", "cache_write"} \subseteq Counts /\ {"plain", "reasoning_tokens"} \subseteq Counts
      /\ pipe' = pipe /\ queue = <<>>
  BY DecodeStage DEF Counts
<1>1. CASE DecodeMessages
  BY <1>0, <1>1, MessageStartTold, BlockStartsTold, BlockDeltasTold, BlockStopTold,
     MessageDeltaTold, MessageStopTold, MessageErrorTold
     DEF DecodeMessages, MessagesReasons, Pending, Kinds
<1>2. CASE DecodeChat
  BY <1>0, <1>2, ChatUsageTold, ChatContentTold, ChatFinishTold, ChatDoneTold, CloseOpenBlockTold,
     ChatStopsTold DEF DecodeChat
<1>3. CASE DecodeGenerateContent
  BY <1>0, <1>3, GeminiContentTold, FunctionCallAgainTold, GeminiFinishTold
     DEF DecodeGenerateContent
<1> QED
  BY <1>0, <1>1, <1>2, <1>3, GarbageTold DEF Decode

-----------------------------------------------------------------------------
(* What the encoders make of an event.                                     *)

Ends(e) ==
  /\ e \in Middle => view'.ends = view.ends
  /\ e \notin Middle =>
       \E status \in Statuses : \E reason, output :
         /\ view'.ends = Append(view.ends, [status |-> status, reason |-> reason, output |-> output])
         /\ status = "failed" <=> e.type = "error"

LEMMA WritesEnd ==
  ASSUME view \in View
  PROVE  /\ WriteBegin => view'.ends = view.ends
         /\ \A at, kind, data : WriteItem(at, kind, data) => view'.ends = view.ends
         /\ \A at, p : WriteDelta(at, p) => view'.ends = view.ends
         /\ \A at, whole : WriteDone(at, whole) => view'.ends = view.ends
         /\ \A status, reason, output : WriteEnd(status, reason, output) =>
              view'.ends = Append(view.ends, [status |-> status, reason |-> reason, output |-> output])
BY DEF View, WriteBegin, WriteItem, WriteDelta, WriteDone, WriteEnd

LEMMA ResponsesEnds ==
  ASSUME view \in View, NEW e \in Event, EncodeResponses(e)
  PROVE  Ends(e)
<1>1. CASE e.type \notin {"response_stop", "error"}
  <2>1. e \in Middle
    BY <1>1 DEF Middle
  <2>2. view'.ends = view.ends
    BY <1>1, WritesEnd DEF EncodeResponses, StartResponse, StartContent, WriteContentDelta, StopContent
  <2> QED
    BY <2>1, <2>2 DEF Ends
<1>2. CASE e.type = "response_stop"
  <2>1. e \notin Middle /\ StopResponse(e)
    BY <1>2 DEF Middle, EncodeResponses
  <2>2. PICK status \in Statuses \ {"failed"} : WriteEnd(status, e.reason, toResponses.output)
    BY <2>1 DEF StopResponse, Statuses
  <2> QED
    BY <1>2, <2>1, <2>2, WritesEnd DEF Ends
<1>3. CASE e.type = "error"
  <2>1. e \notin Middle /\ WriteEnd("failed", "none", toResponses.output)
    BY <1>3 DEF Middle, EncodeResponses, FailResponse
  <2> QED
    BY <1>3, <2>1, WritesEnd DEF Ends, Statuses
<1> QED
  BY <1>1, <1>2, <1>3

LEMMA OtherEnds ==
  ASSUME view \in View, NEW e \in Event,
         EncodeChat(e) \/ EncodeMessages(e) \/ EncodeGemini(e)
  PROVE  Ends(e)
<1>1. CASE e.type \notin {"response_stop", "error"}
  <2>1. e \in Middle
    BY <1>1 DEF Middle
  <2>2. view'.ends = view.ends
    <3>1. CASE EncodeChat(e)
      BY <1>1, <3>1, WritesEnd DEF EncodeChat, WriteChatText, StartChatTool
    <3>2. CASE EncodeMessages(e)
      BY <1>1, <3>2, WritesEnd DEF EncodeMessages
    <3>3. CASE EncodeGemini(e)
      BY <1>1, <3>3, WritesEnd DEF EncodeGemini, WriteGeminiText
    <3> QED
      BY <3>1, <3>2, <3>3
  <2> QED
    BY <2>1, <2>2 DEF Ends
<1>2. CASE e.type = "response_stop"
  <2>1. e \notin Middle /\ WriteEnd("completed", e.reason, <<>>)
    BY <1>2 DEF Middle, EncodeChat, EncodeMessages, EncodeGemini
  <2> QED
    BY <1>2, <2>1, WritesEnd DEF Ends, Statuses
<1>3. CASE e.type = "error"
  <2>1. e \notin Middle /\ WriteEnd("failed", "none", <<>>)
    BY <1>3 DEF Middle, EncodeChat, ChatRefuses, EncodeMessages, EncodeGemini, GeminiRefuses
  <2> QED
    BY <1>3, <2>1, WritesEnd DEF Ends, Statuses
<1> QED
  BY <1>1, <1>2, <1>3

LEMMA EventEnds ==
  ASSUME view \in View, NEW e \in Event, EncodeEvent(e)
  PROVE  Ends(e)
BY ResponsesEnds, OtherEnds DEF EncodeEvent

Shown ==
  /\ (pipe.lawful \/ pipe.from # "anthropic") /\ ~Started => Untouched
  /\ pipe.to = "responses" /\ toResponses.started => Started
  /\ pipe.to = "responses" /\ ~toResponses.started =>
       Untouched /\ \A i \in Indexes : toResponses.blocks[i] = 0
  /\ pipe.lawful /\ view.ends # <<>> =>
       /\ up.phase = "over"
       /\ \A k \in DOMAIN view.ends : view.ends[k].status = "failed" <=> up.reported

(* Nothing is written, of an upstream of which it matters, before the      *)
(* decoder has started.                                                    *)
LEMMA UnstartedUnwritten ==
  ASSUME Shown, pipe \in Pipes, NEW e \in Event, EncodeEvent(e), ~Started, e \in Early,
         pipe.lawful \/ pipe.from # "anthropic"
  PROVE  FALSE
<1>1. pipe.from = "anthropic" /\ e.type = "error"
  BY DEF Early
<1>2. pipe \in AllPipes /\ pipe.to # "messages"
  BY <1>1, SomePipes DEF AllPipes, Routes
<1>3. CASE pipe.to = "responses"
  BY <1>1, <1>3 DEF EncodeEvent, EncodeResponses, ResponsesRefuses, Active, Shown
<1>4. CASE pipe.to # "responses"
  BY <1>1, <1>2, <1>4 DEF EncodeEvent, EncodeChat, ChatRefuses, EncodeGemini, GeminiRefuses
<1> QED
  BY <1>3, <1>4

LEMMA StaysStarted ==
  ASSUME toResponses \in ResponsesEncoder, NEW e \in Event, EncodeEvent(e), toResponses.started,
         pipe.to = "responses"
  PROVE  toResponses'.started
<1>1. EncodeResponses(e)
  BY DEF EncodeEvent
<1> QED
  BY <1>1 DEF EncodeResponses, StartResponse, StartContent, WriteContentDelta, StopContent,
     StopResponse, FailResponse, ResponsesEncoder

LEMMA ResponsesBegin ==
  ASSUME Shown, toResponses \in ResponsesEncoder, NEW e \in Event, EncodeEvent(e),
         pipe.to = "responses", ~toResponses.started
  PROVE  \/ e.type = "response_start" /\ toResponses'.started
         \/ UNCHANGED <<toResponses, view>>
<1>1. EncodeResponses(e) /\ ~ResponsesRefuses(e) /\ e.index \in Indexes
  BY Zenon DEF EncodeEvent, EncodeResponses, Event
<1>2. toResponses.blocks[e.index] = 0 /\ ~Active
  BY <1>1 DEF Shown, Active
<1>3. e.type \in {"response_start", "usage"}
  BY <1>1, <1>2 DEF ResponsesRefuses, BlockOf, OpenWithKind, Event, Types
<1> QED
  BY <1>1, <1>3 DEF EncodeResponses, StartResponse, ResponsesEncoder

-----------------------------------------------------------------------------
(* The invariant.                                                          *)

Flow ==
  /\ UpstreamFacts /\ OnItsWay(queue) /\ OnItsWay(buffer.events)
  /\ stage \in {"read", "release", "ended"} => queue = <<>>
  /\ stage = "persist" /\ pipe.held => queue = <<>>
  /\ ~pipe.held => buffer.events = <<>>
  /\ buffer.released => pipe.held /\ stage \in {"encode", "ended", "failed"}
  /\ pipe.held /\ ~buffer.released => stage \notin {"encode", "ended"}
  /\ stage = "release" => pipe.held

(* The end that the decoder has seen is on its way until it is written.    *)
EndKnown ==
  /\ Stopped /\ stage # "failed" /\ view.ends = <<>> =>
       queue \notin Seq(Middle) \/ (~buffer.released /\ buffer.events \notin Seq(Middle))
  /\ stage \in {"release", "ended"} \/ (pipe.held /\ stage \in {"persist", "encode"}) =>
       ~Started \/ Stopped

EndInv == Flow /\ EndKnown /\ Shown

LEMMA TailSeq ==
  ASSUME NEW S, NEW s \in Seq(Event), s # <<>>
  PROVE  s \in Seq(S) <=> Head(s) \in S /\ Tail(s) \in Seq(S)
<1>1. s \in Seq(S) => Head(s) \in S /\ Tail(s) \in Seq(S)
  BY HeadTailProperties
<1>2. ASSUME Head(s) \in S, Tail(s) \in Seq(S)
      PROVE  s \in Seq(S)
  <2>1. s = <<Head(s)>> \o Tail(s)
    BY HeadTailProperties
  <2>2. <<Head(s)>> \in Seq(S)
    BY <1>2
  <2> QED
    BY <1>2, <2>1, <2>2, ConcatProperties
<1> QED
  BY <1>1, <1>2

LEMMA AppendIn ==
  ASSUME NEW S, NEW s \in Seq(Event), NEW e \in Event, Append(s, e) \in Seq(S)
  PROVE  e \in S /\ s \in Seq(S)
<1>1. Append(s, e)[Len(s) + 1] = e /\ Len(s) + 1 \in 1 .. Len(Append(s, e))
  OBVIOUS
<1>2. \A k \in 1 .. Len(s) : s[k] = Append(s, e)[k] /\ k \in 1 .. Len(Append(s, e))
  OBVIOUS
<1>3. \A k \in 1 .. Len(s) : s[k] \in S
  BY <1>2
<1>4. s \in [1 .. Len(s) -> S]
  BY <1>3
<1> QED
  BY <1>1, <1>4

LEMMA OnItsWayTail ==
  ASSUME queue \in Seq(Event), queue # <<>>, OnItsWay(queue)
  PROVE  OnItsWay(Tail(queue))
BY TailSeq DEF OnItsWay

LEMMA OnItsWayAppend ==
  ASSUME queue \in Seq(Event), queue # <<>>, OnItsWay(queue),
         NEW s \in Seq(Event), OnItsWay(s)
  PROVE  OnItsWay(Append(s, Head(queue)))
<1>1. \A S : s \in Seq(S) /\ Head(queue) \in S => Append(s, Head(queue)) \in Seq(S)
  OBVIOUS
<1>2. \A S : queue \in Seq(S) => Head(queue) \in S
  BY TailSeq
<1> QED
  BY <1>1, <1>2 DEF OnItsWay

(* The step leaves the upstream, the decoder and the translation alone.    *)
LEMMA SameFacts ==
  ASSUME UNCHANGED <<pipe, up, fromAnthropic, fromOpenAI, fromGemini>>
  PROVE  /\ UpstreamFacts => UpstreamFacts'
         /\ Started' = Started /\ Stopped' = Stopped
         /\ Early' = Early /\ NoError' = NoError /\ NoStop' = NoStop
BY DEF UpstreamFacts, Started, Stopped, Early, NoError, NoStop

LEMMA StillOnItsWay ==
  ASSUME UNCHANGED <<pipe, up, fromAnthropic, fromOpenAI, fromGemini>>
  PROVE  /\ OnItsWay(queue') => OnItsWay(queue)'
         /\ OnItsWay(buffer'.events) => OnItsWay(buffer.events)'
BY SameFacts DEF OnItsWay

LEMMA EndInit ==
  ASSUME Init
  PROVE  EndInv
<1>1. OnItsWay(queue) /\ OnItsWay(buffer.events)
  BY DEF Init, OnItsWay
<1>2. UpstreamFacts
  BY DEF Init, InitDecoders, UpstreamFacts
<1>3. ~Stopped /\ ~Started
  BY DEF Init, InitDecoders, Stopped, Started
<1>4. Shown
  BY <1>3 DEF Init, InitEncoders, Shown, Untouched
<1> QED
  BY <1>1, <1>2, <1>3, <1>4 DEF Init, EndInv, Flow, EndKnown

LEMMA ReadEnds ==
  ASSUME Typed, EndInv, Read
  PROVE  EndInv'
<1>1. Told
  BY DecodeTold DEF Typed, EndInv, Flow, Read
<1>2. /\ stage = "read" /\ stage' \in {"read", "accept", "failed"}
      /\ UNCHANGED <<pipe, view, buffer, toResponses>>
  BY DecodeStage DEF Read, encoders
<1>3. queue = <<>> /\ ~buffer.released
  BY <1>2 DEF EndInv, Flow
<1>4. OnItsWay(buffer.events)'
  <2>1. /\ ~Started' => ~Started
        /\ pipe.lawful /\ ~up'.reported => ~up.reported
        /\ pipe.lawful /\ (up'.reported \/ up'.phase # "over") =>
             up.reported \/ up.phase # "over"
    BY <1>1 DEF Told
  <2>2. OnItsWay(buffer.events)
    BY DEF EndInv, Flow
  <2>3. Early' = Early /\ NoError' = NoError /\ NoStop' = NoStop
    BY <1>2 DEF Early, NoError, NoStop
  <2> QED
    BY <1>2, <2>1, <2>2, <2>3 DEF OnItsWay
<1>5. stage' = "read" => queue' = <<>>
  BY <1>2, <1>3, DecodeReads DEF Read
<1>6. Flow'
  BY <1>1, <1>2, <1>4, <1>5 DEF Told, EndInv, Flow
<1>7. EndKnown'
  <2>1. <<>> \in Seq(Middle)
    OBVIOUS
  <2>2. buffer.events' = buffer.events /\ Middle' = Middle
    BY <1>2 DEF Middle
  <2>3. /\ Stopped' => Stopped \/ stage' = "failed" \/ queue' \notin Seq(Middle)
        /\ Stopped /\ view.ends = <<>> => buffer.events \notin Seq(Middle)
    BY <1>1, <1>2, <1>3, <2>1 DEF Told, EndInv, EndKnown
  <2> QED
    BY <1>2, <1>3, <2>3 DEF EndKnown
<1>8. Shown'
  BY <1>1, <1>2 DEF EndInv, Shown, Told, Untouched
<1> QED
  BY <1>6, <1>7, <1>8 DEF EndInv

LEMMA ShownKept ==
  ASSUME Shown, UNCHANGED <<pipe, up, fromAnthropic, fromOpenAI, fromGemini, view>>,
         toResponses'.started = toResponses.started, toResponses'.blocks = toResponses.blocks
  PROVE  Shown'
BY SameFacts DEF Shown, Untouched

LEMMA AcceptEnds ==
  ASSUME Typed, EndInv, Accept
  PROVE  EndInv'
<1> DEFINE e == Head(queue)
<1>1. /\ UNCHANGED <<pipe, up, fromAnthropic, fromOpenAI, fromGemini, view, toResponses>>
      /\ stage = "accept" /\ queue \in Seq(Event) /\ queue # <<>> /\ buffer.events \in Seq(Event)
  BY DEF Accept, decoders, encoders, Typed, Decoding, Buffer
<1>2. buffer.released = FALSE
  BY <1>1 DEF EndInv, Flow, Typed, Buffer
<1>3. UpstreamFacts' /\ Started' = Started /\ Stopped' = Stopped /\ Shown'
  BY <1>1, SameFacts, ShownKept DEF EndInv, Flow
<1>4. OnItsWay(queue) /\ OnItsWay(buffer.events)
  BY DEF EndInv, Flow
<1>5. CASE Fail /\ UNCHANGED buffer
  <2>1. queue' = <<>> /\ OnItsWay(<<>>) /\ stage' = "failed"
    BY <1>5 DEF Fail, OnItsWay
  <2>2. OnItsWay(queue)' /\ OnItsWay(buffer.events)'
    BY <1>1, <1>4, <1>5, <2>1, StillOnItsWay
  <2> QED
    BY <1>1, <1>2, <1>3, <1>5, <2>1, <2>2 DEF EndInv, Flow, EndKnown
<1>6. CASE ~pipe.held /\ stage' \in {"persist", "encode"} /\ UNCHANGED <<queue, buffer>>
  <2>1. OnItsWay(queue)' /\ OnItsWay(buffer.events)'
    BY <1>1, <1>4, <1>6, StillOnItsWay
  <2>2. view' = view
    BY <1>1
  <2> QED
    BY <1>1, <1>2, <1>3, <1>6, <2>1, <2>2 DEF EndInv, Flow, EndKnown
<1>7. CASE /\ pipe.held
           /\ buffer' = [buffer EXCEPT !.events = Append(@, e)]
           /\ Emit(Tail(queue))
  <2>1. /\ buffer'.events = Append(buffer.events, e) /\ buffer'.released = buffer.released
        /\ queue' = Tail(queue) /\ stage' \in {"read", "accept"} /\ (stage' = "read" => queue' = <<>>)
    BY <1>7 DEF Emit, Typed, Buffer
  <2>2. OnItsWay(queue)' /\ OnItsWay(buffer.events)'
    BY <1>1, <1>4, <2>1, OnItsWayTail, OnItsWayAppend, StillOnItsWay
  <2>3. Flow'
    BY <1>1, <1>2, <1>3, <1>7, <2>1, <2>2 DEF EndInv, Flow
  <2>4. queue \notin Seq(Middle) \/ buffer.events \notin Seq(Middle) =>
          Tail(queue) \notin Seq(Middle) \/ Append(buffer.events, e) \notin Seq(Middle)
    <3>1. ASSUME Tail(queue) \in Seq(Middle), Append(buffer.events, e) \in Seq(Middle)
          PROVE  queue \in Seq(Middle) /\ buffer.events \in Seq(Middle)
      <4>1. e \in Middle /\ buffer.events \in Seq(Middle)
        BY <1>1, <3>1, AppendIn
      <4> QED
        BY <1>1, <3>1, <4>1, TailSeq
    <3> QED
      BY <3>1
  <2>5. EndKnown'
    BY <1>1, <1>2, <1>3, <2>1, <2>4 DEF EndInv, EndKnown
  <2> QED
    BY <1>3, <2>3, <2>5 DEF EndInv
<1>8. \/ Fail /\ UNCHANGED buffer
      \/ ~pipe.held /\ stage' \in {"persist", "encode"} /\ UNCHANGED <<queue, buffer>>
      \/ /\ pipe.held
         /\ buffer' = [buffer EXCEPT !.events = Append(@, e)]
         /\ Emit(Tail(queue))
  BY DEF Accept
<1> QED
  BY <1>5, <1>6, <1>7, <1>8

LEMMA EncodeEnds ==
  ASSUME Typed, Typed', EndInv, Encode
  PROVE  EndInv'
<1> DEFINE e == Head(queue)
<1>1. /\ UNCHANGED <<pipe, up, fromAnthropic, fromOpenAI, fromGemini, buffer>>
      /\ stage = "encode" /\ queue \in Seq(Event) /\ queue # <<>> /\ e \in Event
      /\ queue' = Tail(queue) /\ EncodeEvent(e)
  BY HeadTailProperties DEF Encode, decoders, Typed, Decoding
<1>2. stage' = IF Tail(queue) = <<>> THEN IF pipe.held THEN "ended" ELSE "read"
                                     ELSE IF pipe.held THEN "encode" ELSE "accept"
  BY DEF Encode
<1>3. UpstreamFacts' /\ Started' = Started /\ Stopped' = Stopped
  BY <1>1, SameFacts DEF EndInv, Flow
<1>4. Ends(e) /\ view \in View /\ view' \in View
  BY <1>1, EventEnds DEF Typed, EncodersTyped
<1>5. buffer.released <=> pipe.held
  BY <1>1 DEF EndInv, Flow, Typed, Buffer
<1>6. OnItsWay(queue)' /\ OnItsWay(buffer.events)'
  BY <1>1, OnItsWayTail, StillOnItsWay DEF EndInv, Flow
<1>7. Flow'
  BY <1>1, <1>2, <1>3, <1>5, <1>6 DEF EndInv, Flow
<1>8. EndKnown'
  <2>1. CASE e \in Middle
    <3>1. view'.ends = view.ends
      BY <1>4, <2>1 DEF Ends
    <3>2. queue \notin Seq(Middle) => Tail(queue) \notin Seq(Middle)
      BY <1>1, <2>1, TailSeq
    <3>3. ~buffer.released => buffer.events \in Seq(Middle)
      <4>1. ~buffer.released => buffer.events = <<>>
        BY <1>5 DEF EndInv, Flow
      <4>2. <<>> \in Seq(Middle)
        OBVIOUS
      <4> QED
        BY <4>1, <4>2
    <3>4. /\ buffer'.released = buffer.released
          /\ Stopped /\ view.ends = <<>> => queue' \notin Seq(Middle)
      BY <1>1, <3>2, <3>3 DEF EndInv, EndKnown
    <3> QED
      BY <1>1, <1>2, <1>3, <3>1, <3>4 DEF EndInv, EndKnown
  <2>2. CASE e \notin Middle
    <3>1. view'.ends # <<>>
      <4>1. PICK r : view'.ends = Append(view.ends, r)
        BY <1>4, <2>2 DEF Ends
      <4> QED
        BY <1>4, <4>1 DEF View
    <3>2. ~pipe.held \/ ~Started \/ Stopped
      BY <1>1 DEF EndInv, EndKnown
    <3> QED
      BY <1>1, <1>2, <1>3, <3>1, <3>2 DEF EndInv, EndKnown
  <2> QED
    BY <2>1, <2>2
<1>9. Shown'
  <2>1. (pipe.lawful \/ pipe.from # "anthropic") => Started
    <3>1. ~Started => e \in Early
      BY <1>1, TailSeq DEF EndInv, Flow, OnItsWay
    <3> QED
      BY <1>1, <3>1, UnstartedUnwritten DEF EndInv, Typed
  <2>2. pipe.to = "responses" =>
          \/ toResponses.started /\ toResponses'.started
          \/ e.type = "response_start" /\ toResponses'.started
          \/ ~toResponses.started /\ UNCHANGED <<toResponses, view>>
    <3>1. pipe.to = "responses" /\ toResponses.started => toResponses'.started
      BY <1>1, StaysStarted DEF Typed, EncodersTyped
    <3>2. toResponses \in ResponsesEncoder /\ Shown
      BY DEF EndInv, Typed, EncodersTyped
    <3>3. pipe.to = "responses" /\ ~toResponses.started =>
            \/ e.type = "response_start" /\ toResponses'.started
            \/ UNCHANGED <<toResponses, view>>
      BY <1>1, <3>2, ResponsesBegin
    <3> QED
      BY <3>1, <3>3
  <2>3. e.type = "response_start" => Started
    BY <1>1, <2>1, TailSeq DEF EndInv, Flow, OnItsWay, Early
  <2>4. pipe.lawful /\ view'.ends # <<>> =>
          /\ up'.phase = "over"
          /\ \A k \in DOMAIN view'.ends : view'.ends[k].status = "failed" <=> up'.reported
    <3> SUFFICES ASSUME pipe.lawful, view'.ends # <<>>
                 PROVE  /\ up.phase = "over"
                        /\ \A k \in DOMAIN view'.ends : view'.ends[k].status = "failed" <=> up.reported
      BY <1>1
    <3>1. CASE e \in Middle
      BY <1>4, <3>1 DEF Ends, EndInv, Shown
    <3>2. CASE e \notin Middle
      <4>1. /\ e.type = "error" => up.reported
            /\ e.type # "error" => e.type = "response_stop" /\ ~up.reported /\ up.phase = "over"
        BY <1>1, <3>2, TailSeq DEF EndInv, Flow, OnItsWay, NoError, NoStop, Middle
      <4>2. up.phase = "over" /\ (e.type = "error" <=> up.reported)
        BY <4>1 DEF EndInv, Flow, UpstreamFacts
      <4>3. PICK r : view'.ends = Append(view.ends, r) /\ (r.status = "failed" <=> e.type = "error")
        <5>1. \E status \in Statuses : \E reason, output :
                /\ view'.ends = Append(view.ends, [status |-> status, reason |-> reason, output |-> output])
                /\ status = "failed" <=> e.type = "error"
          BY <1>4, <3>2 DEF Ends
        <5> QED
          BY <5>1
      <4>4. \A k \in DOMAIN view.ends : view.ends[k].status = "failed" <=> up.reported
        BY DEF EndInv, Shown
      <4>5. \A k \in DOMAIN view'.ends :
              \/ k \in DOMAIN view.ends /\ view'.ends[k] = view.ends[k]
              \/ view'.ends[k] = r
        BY SMTT(15), <1>4, <4>3 DEF View
      <4> QED
        BY <4>2, <4>3, <4>4, <4>5
    <3> QED
      BY <3>1, <3>2
  <2>5. pipe' = pipe
    BY <1>1
  <2>6. pipe.to = "responses" =>
          /\ toResponses'.started => Started
          /\ ~toResponses'.started => ~toResponses.started /\ UNCHANGED <<toResponses, view>>
    BY <2>2, <2>3 DEF EndInv, Shown
  <2> QED
    BY <1>3, <2>1, <2>4, <2>5, <2>6 DEF EndInv, Shown, Untouched
<1> QED
  BY <1>7, <1>8, <1>9 DEF EndInv

LEMMA ReleaseEnds ==
  ASSUME Typed, EndInv, Release
  PROVE  EndInv'
<1>1. /\ UNCHANGED <<pipe, up, fromAnthropic, fromOpenAI, fromGemini, view>>
      /\ queue' = buffer.events /\ buffer'.events = buffer.events /\ buffer'.released
      /\ toResponses'.started = toResponses.started /\ toResponses'.blocks = toResponses.blocks
      /\ stage = "release"
  BY DEF Release, decoders, Typed, Buffer, EncodersTyped, ResponsesEncoder
<1>2. UpstreamFacts' /\ Started' = Started /\ Stopped' = Stopped /\ Shown'
  BY <1>1, SameFacts, ShownKept DEF EndInv, Flow
<1>3. OnItsWay(queue)' /\ OnItsWay(buffer.events)'
  BY <1>1, StillOnItsWay DEF EndInv, Flow
<1>4. pipe.held /\ ~buffer.released /\ queue = <<>> /\ (~Started \/ Stopped)
  BY <1>1 DEF EndInv, Flow, EndKnown
<1>5. stage' = IF buffer.events = <<>> THEN "ended" ELSE "encode"
  BY DEF Release
<1>6. <<>> \in Seq(Middle)
  OBVIOUS
<1>7. Flow'
  BY <1>1, <1>2, <1>3, <1>4, <1>5 DEF EndInv, Flow
<1>8. EndKnown'
  BY <1>1, <1>2, <1>4, <1>5, <1>6 DEF EndInv, EndKnown
<1> QED
  BY <1>2, <1>7, <1>8 DEF EndInv

LEMMA QuietStepEnds ==
  ASSUME Typed, EndInv,
         \/ Persist \/ PersistFails \/ EncodeFails \/ UpstreamEnds \/ UpstreamBreaks
         \/ ClientLeaves \/ UNCHANGED vars
  PROVE  EndInv'
<1>1. UNCHANGED <<pipe, up, fromAnthropic, fromOpenAI, fromGemini, view, buffer, toResponses>>
  BY DEF Persist, PersistFails, EncodeFails, UpstreamEnds, UpstreamBreaks, ClientLeaves, Fail,
     vars, decoders, encoders
<1>2. UpstreamFacts' /\ Started' = Started /\ Stopped' = Stopped /\ Shown'
  BY <1>1, SameFacts, ShownKept DEF EndInv, Flow
<1>3. OnItsWay(queue) /\ OnItsWay(buffer.events) /\ OnItsWay(<<>>)
  BY DEF EndInv, Flow, OnItsWay
<1>4. CASE PersistFails \/ EncodeFails \/ UpstreamBreaks
  <2>1. stage' = "failed" /\ queue' = <<>> /\ stage \in {"persist", "encode", "read"}
    BY <1>4 DEF PersistFails, EncodeFails, UpstreamBreaks, Fail
  <2>2. OnItsWay(queue)' /\ OnItsWay(buffer.events)'
    BY <1>1, <1>3, <2>1, StillOnItsWay
  <2>3. Flow'
    BY <1>1, <1>2, <2>1, <2>2 DEF EndInv, Flow
  <2> QED
    BY <1>1, <1>2, <2>1, <2>3 DEF EndInv, EndKnown
<1>5. CASE UNCHANGED <<stage, queue>>
  <2>1. OnItsWay(queue)' /\ OnItsWay(buffer.events)'
    BY <1>1, <1>3, <1>5, StillOnItsWay
  <2>2. Flow'
    BY <1>1, <1>2, <1>5, <2>1 DEF EndInv, Flow
  <2> QED
    BY <1>1, <1>2, <1>5, <2>2 DEF EndInv, EndKnown
<1>6. CASE Persist
  <2>1. queue' = queue /\ stage = "persist" /\ stage' = IF pipe.held THEN "release" ELSE "encode"
    BY <1>6 DEF Persist
  <2>2. OnItsWay(queue)' /\ OnItsWay(buffer.events)'
    BY <1>1, <1>3, <2>1, StillOnItsWay
  <2>3. (pipe.held => queue = <<>>) /\ ~buffer.released
    BY <2>1 DEF EndInv, Flow
  <2>4. Flow'
    BY <1>1, <1>2, <2>1, <2>2, <2>3 DEF EndInv, Flow
  <2> QED
    BY <1>1, <1>2, <2>1, <2>4 DEF EndInv, EndKnown
<1>7. CASE UpstreamEnds
  <2>1. /\ queue' = queue /\ stage = "read" /\ ~fromOpenAI.closing
        /\ stage' = IF ~DecodedWhole THEN "failed"
                    ELSE IF ~pipe.held THEN "ended"
                    ELSE IF pipe.stores THEN "persist" ELSE "release"
    BY <1>7 DEF UpstreamEnds
  <2>2. OnItsWay(queue)' /\ OnItsWay(buffer.events)'
    BY <1>1, <1>3, <2>1, StillOnItsWay
  <2>3. queue = <<>> /\ ~buffer.released
    BY <2>1 DEF EndInv, Flow
  <2>4. Flow'
    BY <1>1, <1>2, <2>1, <2>2, <2>3 DEF EndInv, Flow
  <2>5. DecodedWhole => ~Started \/ Stopped
    <3>1. pipe.from \in {"anthropic", "openai", "gemini"}
      BY SomePipes DEF Typed, AllPipes
    <3> QED
      BY <2>1, <3>1 DEF DecodedWhole, Started, Stopped
  <2>6. EndKnown'
    BY <1>1, <1>2, <2>1, <2>5 DEF EndInv, EndKnown
  <2> QED
    BY <1>2, <2>4, <2>6 DEF EndInv
<1> QED
  BY <1>4, <1>5, <1>6, <1>7 DEF ClientLeaves, vars

LEMMA EndInvKept ==
  ASSUME Typed, EndInv, [Next]_vars
  PROVE  EndInv'
BY TypedKept, ReadEnds, AcceptEnds, EncodeEnds, ReleaseEnds, QuietStepEnds DEF Next, Closed

(* A stream that ends without an error was never begun, or its client has  *)
(* read its end: the failure that the upstream reported, or the stop that  *)
(* the upstream sent (NoSilentEnd, for streams of any length through any   *)
(* decoder, the buffer and any encoder).                                   *)
THEOREM EndsAreTold == Spec => []NoSilentEnd
<1>1. Init => Typed /\ EndInv
  BY InitTyped, EndInit
<1>2. Typed /\ EndInv /\ [Next]_vars => (Typed /\ EndInv)'
  BY TypedKept, EndInvKept
<1>3. Typed /\ EndInv => NoSilentEnd
  <2> SUFFICES ASSUME Typed, EndInv, stage = "ended",
                      pipe.lawful \/ pipe.from # "anthropic" \/ pipe.to = "responses", ~Untouched
               PROVE  /\ view.ends # <<>>
                      /\ pipe.lawful => (up.reported <=> view.ends[1].status = "failed")
    BY DEF NoSilentEnd
  <2>1. Started
    BY DEF EndInv, Shown
  <2>2. Stopped /\ queue = <<>>
    BY <2>1 DEF EndInv, EndKnown, Flow
  <2>3. buffer.released \/ buffer.events = <<>>
    BY DEF EndInv, Flow
  <2>4. <<>> \in Seq(Middle)
    OBVIOUS
  <2>5. view.ends # <<>>
    BY <2>2, <2>3, <2>4 DEF EndInv, EndKnown
  <2>6. 1 \in DOMAIN view.ends
    BY <2>5 DEF Typed, EncodersTyped, View
  <2> QED
    BY <2>5, <2>6 DEF EndInv, Shown
<1> QED
  BY <1>1, <1>2, <1>3, PTL DEF Spec

-----------------------------------------------------------------------------

(***************************************************************************)
(* Induction, for the values that are computed block by block.             *)
(***************************************************************************)

LEMMA Least ==
  ASSUME NEW T \in SUBSET Nat, T # {}
  PROVE  \E n \in T : \A m \in T : n <= m
<1>1. IsWellFoundedOn(OpToRel(<, Nat), Nat)
  BY NatLessThanWellFounded
<1>2. PICK n \in T : \A m \in T : ~(<<m, n>> \in OpToRel(<, Nat))
  BY <1>1, WFMin, Zenon
<1>3. ASSUME NEW m \in T
      PROVE  n <= m
  <2>1. m \in Nat /\ n \in Nat
    BY <1>2
  <2>2. ~(m < n)
    BY <1>2, <2>1 DEF OpToRel
  <2> QED
    BY <2>1, <2>2
<1> QED
  BY <1>2, <1>3

LEMMA Induction ==
  ASSUME NEW M \in Nat, NEW T, 0 \in T,
         \A n \in 1 .. M : n - 1 \in T => n \in T
  PROVE  \A n \in 0 .. M : n \in T
<1> DEFINE U == {n \in 0 .. M : n \notin T}
<1> SUFFICES ASSUME U # {} PROVE FALSE
  OBVIOUS
<1>0. U \in SUBSET Nat
  OBVIOUS
<1>1. PICK n \in U : \A m \in U : n <= m
  <2> HIDE DEF U
  <2> QED
    BY <1>0, Least
<1>2. n \in 1 .. M /\ n - 1 \in 0 .. M /\ ~(n <= n - 1)
  BY <1>1
<1>3. n - 1 \in T
  BY <1>1, <1>2
<1> QED
  BY <1>1, <1>2, <1>3

(* A value computed in steps exists, and so does the function of its steps.*)
LEMMA StepsExist ==
  ASSUME NEW S, NEW a \in S, NEW M \in Nat, NEW op \in [1 .. M -> [S -> S]]
  PROVE  \E f \in [0 .. M -> S] : f[0] = a /\ \A n \in 1 .. M : f[n] = op[n][f[n - 1]]
<1> DEFINE Computes(f, n) == f[0] = a /\ \A m \in 1 .. n : f[m] = op[m][f[m - 1]]
           T == {n \in 0 .. M : \E f \in [0 .. M -> S] : Computes(f, n)}
<1>1. 0 \in T
  <2> DEFINE g == [n \in 0 .. M |-> a]
  <2>1. g \in [0 .. M -> S]
    OBVIOUS
  <2>2. Computes(g, 0)
    OBVIOUS
  <2> HIDE DEF Computes, g
  <2> QED
    BY <2>1, <2>2
<1>2. ASSUME NEW n \in 1 .. M, n - 1 \in T
      PROVE  n \in T
  <2>1. PICK f \in [0 .. M -> S] : Computes(f, n - 1)
    BY <1>2
  <2> DEFINE g == [f EXCEPT ![n] = op[n][f[n - 1]]]
  <2>2. f[n - 1] \in S /\ op[n] \in [S -> S]
    BY <1>2
  <2>3. g \in [0 .. M -> S]
    BY <2>2
  <2>4. g[0] = a
    BY <1>2, <2>1
  <2>5. \A m \in 1 .. n : g[m] = op[m][g[m - 1]]
    <3> TAKE m \in 1 .. n
    <3>1. m - 1 \in 0 .. M /\ m \in 0 .. M /\ m - 1 # n
      BY <1>2
    <3>2. g[m - 1] = f[m - 1]
      BY <3>1
    <3>3. CASE m = n
      BY <3>1, <3>2, <3>3
    <3>4. CASE m # n
      <4>1. m \in 1 .. n - 1
        BY <1>2, <3>4
      <4> QED
        BY <2>1, <3>1, <3>2, <3>4, <4>1
    <3> QED
      BY <3>3, <3>4
  <2> HIDE DEF g
  <2> QED
    BY <1>2, <2>3, <2>4, <2>5
<1>3. M \in T
  <2> HIDE DEF T
  <2>1. \A n \in 0 .. M : n \in T
    BY <1>1, <1>2, Induction
  <2> QED
    BY <2>1
<1> QED
  BY <1>3

-----------------------------------------------------------------------------
(* The data of the blocks, one block after the other.                      *)

DataSteps(f, blocks, kinds) ==
  /\ f \in [0 .. Len(blocks) -> Seq(Seq(Nat))]
  /\ f[0] = <<>>
  /\ \A n \in 1 .. Len(blocks) :
       f[n] = IF blocks[n].kind \in kinds THEN Append(f[n - 1], blocks[n].data) ELSE f[n - 1]

JoinedSteps(f, blocks, kinds) ==
  /\ f \in [0 .. Len(blocks) -> Seq(Nat)]
  /\ f[0] = <<>>
  /\ \A n \in 1 .. Len(blocks) :
       f[n] = IF blocks[n].kind \in kinds THEN f[n - 1] \o blocks[n].data ELSE f[n - 1]

LEMMA BlockParts ==
  ASSUME NEW b \in Seq(Block), NEW n \in 1 .. Len(b)
  PROVE  b[n] \in Block /\ b[n].data \in Seq(Nat)
<1>1. b[n] \in Block
  BY ElementOfSeq
<1> QED
  BY <1>1 DEF Block

LEMMA DataComputed ==
  ASSUME NEW b \in Seq(Block), NEW kinds
  PROVE  DataSteps(DataUpTo(b, kinds), b, kinds)
<1> DEFINE S == Seq(Seq(Nat))
           op == [n \in 1 .. Len(b) |->
                    [x \in S |-> IF b[n].kind \in kinds THEN Append(x, b[n].data) ELSE x]]
<1>1. op \in [1 .. Len(b) -> [S -> S]]
  <2> SUFFICES ASSUME NEW n \in 1 .. Len(b), NEW x \in S
               PROVE  (IF b[n].kind \in kinds THEN Append(x, b[n].data) ELSE x) \in S
    OBVIOUS
  <2> QED
    BY BlockParts
<1>2. <<>> \in S /\ Len(b) \in Nat
  OBVIOUS
<1>3. PICK f \in [0 .. Len(b) -> S] :
        f[0] = <<>> /\ \A n \in 1 .. Len(b) : f[n] = op[n][f[n - 1]]
  <2> DEFINE a == <<>>
             M == Len(b)
  <2>1. op \in [1 .. M -> [S -> S]] /\ a \in S /\ M \in Nat
    BY <1>1, <1>2
  <2> HIDE DEF op, S, a, M
  <2>2. \E f \in [0 .. M -> S] : f[0] = a /\ \A n \in 1 .. M : f[n] = op[n][f[n - 1]]
    BY <2>1, StepsExist
  <2> QED
    BY <2>2 DEF a, M
<1>4. \A n \in 1 .. Len(b) :
        f[n] = IF b[n].kind \in kinds THEN Append(f[n - 1], b[n].data) ELSE f[n - 1]
  <2> TAKE n \in 1 .. Len(b)
  <2>1. f[n - 1] \in S
    BY SMTT(15), <1>2, <1>3
  <2> QED
    BY <1>3, <2>1
<1>5. f = [n \in 0 .. Len(b) |->
             IF n = 0 THEN <<>>
             ELSE IF b[n].kind \in kinds THEN Append(f[n - 1], b[n].data) ELSE f[n - 1]]
  <2>1. \A n \in 0 .. Len(b) : n # 0 => n \in 1 .. Len(b)
    BY <1>2
  <2>2. \A n \in 0 .. Len(b) :
          f[n] = IF n = 0 THEN <<>>
                 ELSE IF b[n].kind \in kinds THEN Append(f[n - 1], b[n].data) ELSE f[n - 1]
    BY <1>3, <1>4, <2>1
  <2> HIDE DEF op, S
  <2> QED
    BY <1>3, <2>2
<1> DEFINE g == DataUpTo(b, kinds)
<1>6. g = [n \in 0 .. Len(b) |->
             IF n = 0 THEN <<>>
             ELSE IF b[n].kind \in kinds THEN Append(g[n - 1], b[n].data) ELSE g[n - 1]]
  BY <1>5 DEF DataUpTo
<1>7. f = g
  <2> HIDE DEF op, S, g
  <2> DEFINE T == {n \in 0 .. Len(b) : g[n] = f[n]}
  <2>1. 0 \in T
    BY <1>2, <1>3, <1>6
  <2>2. ASSUME NEW n \in 1 .. Len(b), n - 1 \in T
        PROVE  n \in T
    <3>1. n \in 0 .. Len(b) /\ n # 0 /\ g[n - 1] = f[n - 1]
      BY <1>2, <2>2
    <3>2. g[n] = IF b[n].kind \in kinds THEN Append(g[n - 1], b[n].data) ELSE g[n - 1]
      BY <1>6, <3>1
    <3> QED
      BY <1>4, <3>1, <3>2
  <2> HIDE DEF T
  <2>3. \A n \in 0 .. Len(b) : n \in T
    BY <1>2, <2>1, <2>2, Induction
  <2>4. \A n \in 0 .. Len(b) : g[n] = f[n]
    BY <2>3 DEF T
  <2>5. DOMAIN g = 0 .. Len(b) /\ g = [n \in DOMAIN g |-> g[n]]
    BY <1>6
  <2> QED
    BY <1>3, <2>4, <2>5
<1>8. f \in [0 .. Len(b) -> Seq(Seq(Nat))] /\ f[0] = <<>>
  BY <1>3
<1> HIDE DEF op, S, g
<1>9. DataSteps(g, b, kinds)
  BY <1>4, <1>7, <1>8 DEF DataSteps
<1> QED
  BY <1>9 DEF g
LEMMA JoinedComputed ==
  ASSUME NEW b \in Seq(Block), NEW kinds
  PROVE  JoinedSteps(JoinedUpTo(b, kinds), b, kinds)
<1> DEFINE S == Seq(Nat)
           op == [n \in 1 .. Len(b) |->
                    [x \in S |-> IF b[n].kind \in kinds THEN x \o b[n].data ELSE x]]
<1>1. op \in [1 .. Len(b) -> [S -> S]]
  <2> SUFFICES ASSUME NEW n \in 1 .. Len(b), NEW x \in S
               PROVE  (IF b[n].kind \in kinds THEN x \o b[n].data ELSE x) \in S
    OBVIOUS
  <2> QED
    BY BlockParts
<1>2. <<>> \in S /\ Len(b) \in Nat
  OBVIOUS
<1>3. PICK f \in [0 .. Len(b) -> S] :
        f[0] = <<>> /\ \A n \in 1 .. Len(b) : f[n] = op[n][f[n - 1]]
  <2> DEFINE a == <<>>
             M == Len(b)
  <2>1. op \in [1 .. M -> [S -> S]] /\ a \in S /\ M \in Nat
    BY <1>1, <1>2
  <2> HIDE DEF op, S, a, M
  <2>2. \E f \in [0 .. M -> S] : f[0] = a /\ \A n \in 1 .. M : f[n] = op[n][f[n - 1]]
    BY <2>1, StepsExist
  <2> QED
    BY <2>2 DEF a, M
<1>4. \A n \in 1 .. Len(b) :
        f[n] = IF b[n].kind \in kinds THEN f[n - 1] \o b[n].data ELSE f[n - 1]
  <2> TAKE n \in 1 .. Len(b)
  <2>1. f[n - 1] \in S
    BY <1>2, <1>3
  <2> QED
    BY <1>3, <2>1
<1>5. f = [n \in 0 .. Len(b) |->
             IF n = 0 THEN <<>>
             ELSE IF b[n].kind \in kinds THEN f[n - 1] \o b[n].data ELSE f[n - 1]]
  <2>1. \A n \in 0 .. Len(b) : n # 0 => n \in 1 .. Len(b)
    BY <1>2
  <2>2. \A n \in 0 .. Len(b) :
          f[n] = IF n = 0 THEN <<>>
                 ELSE IF b[n].kind \in kinds THEN f[n - 1] \o b[n].data ELSE f[n - 1]
    BY <1>3, <1>4, <2>1
  <2> HIDE DEF op, S
  <2> QED
    BY <1>3, <2>2
<1> DEFINE g == JoinedUpTo(b, kinds)
<1>6. g = [n \in 0 .. Len(b) |->
             IF n = 0 THEN <<>>
             ELSE IF b[n].kind \in kinds THEN g[n - 1] \o b[n].data ELSE g[n - 1]]
  BY <1>5 DEF JoinedUpTo
<1>7. f = g
  <2> HIDE DEF op, S, g
  <2> DEFINE T == {n \in 0 .. Len(b) : g[n] = f[n]}
  <2>1. 0 \in T
    BY <1>2, <1>3, <1>6
  <2>2. ASSUME NEW n \in 1 .. Len(b), n - 1 \in T
        PROVE  n \in T
    <3>1. n \in 0 .. Len(b) /\ n # 0 /\ g[n - 1] = f[n - 1]
      BY <1>2, <2>2
    <3>2. g[n] = IF b[n].kind \in kinds THEN g[n - 1] \o b[n].data ELSE g[n - 1]
      BY <1>6, <3>1
    <3> QED
      BY <1>4, <3>1, <3>2
  <2> HIDE DEF T
  <2>3. \A n \in 0 .. Len(b) : n \in T
    BY <1>2, <2>1, <2>2, Induction
  <2>4. \A n \in 0 .. Len(b) : g[n] = f[n]
    BY <2>3 DEF T
  <2>5. DOMAIN g = 0 .. Len(b) /\ g = [n \in DOMAIN g |-> g[n]]
    BY <1>6
  <2> QED
    BY <1>3, <2>4, <2>5
<1>8. f \in [0 .. Len(b) -> Seq(Nat)] /\ f[0] = <<>>
  BY <1>3
<1> HIDE DEF op, S, g
<1>9. JoinedSteps(g, b, kinds)
  BY <1>4, <1>7, <1>8 DEF JoinedSteps
<1> QED
  BY <1>9 DEF g

(* Blocks that agree on what is chosen and on its data.                    *)
Same(b, c, m, kinds) ==
  /\ m \in Nat /\ m <= Len(b) /\ m <= Len(c)
  /\ \A n \in 1 .. m :
       /\ b[n].kind \in kinds <=> c[n].kind \in kinds
       /\ b[n].kind \in kinds => b[n].data = c[n].data

LEMMA DataAgrees ==
  ASSUME NEW b \in Seq(Block), NEW c \in Seq(Block), NEW kinds, NEW m, Same(b, c, m, kinds)
  PROVE  \A n \in 0 .. m : DataUpTo(b, kinds)[n] = DataUpTo(c, kinds)[n]
<1> DEFINE f == DataUpTo(b, kinds)
           g == DataUpTo(c, kinds)
           T == {n \in 0 .. m : f[n] = g[n]}
<1>1. DataSteps(f, b, kinds) /\ DataSteps(g, c, kinds)
  BY DataComputed
<1> HIDE DEF f, g
<1>2. m \in Nat /\ m <= Len(b) /\ m <= Len(c)
  BY DEF Same
<1>3. 0 \in T
  BY <1>1, <1>2 DEF DataSteps
<1>4. ASSUME NEW n \in 1 .. m, n - 1 \in T
      PROVE  n \in T
  <2>1. n \in 1 .. Len(b) /\ n \in 1 .. Len(c) /\ f[n - 1] = g[n - 1]
    BY <1>2, <1>4
  <2> QED
    BY SMTT(15), <1>1, <2>1 DEF DataSteps, Same
<1> HIDE DEF T
<1>5. \A n \in 0 .. m : n \in T
  BY <1>2, <1>3, <1>4, Induction
<1> QED
  BY <1>5 DEF T, f, g

LEMMA JoinedAgrees ==
  ASSUME NEW b \in Seq(Block), NEW c \in Seq(Block), NEW kinds, NEW m, Same(b, c, m, kinds)
  PROVE  \A n \in 0 .. m : JoinedUpTo(b, kinds)[n] = JoinedUpTo(c, kinds)[n]
<1> DEFINE f == JoinedUpTo(b, kinds)
           g == JoinedUpTo(c, kinds)
           T == {n \in 0 .. m : f[n] = g[n]}
<1>1. JoinedSteps(f, b, kinds) /\ JoinedSteps(g, c, kinds)
  BY JoinedComputed
<1> HIDE DEF f, g
<1>2. m \in Nat /\ m <= Len(b) /\ m <= Len(c)
  BY DEF Same
<1>3. 0 \in T
  BY <1>1, <1>2 DEF JoinedSteps
<1>4. ASSUME NEW n \in 1 .. m, n - 1 \in T
      PROVE  n \in T
  <2>1. n \in 1 .. Len(b) /\ n \in 1 .. Len(c) /\ f[n - 1] = g[n - 1]
    BY <1>2, <1>4
  <2> QED
    BY SMTT(15), <1>1, <2>1 DEF JoinedSteps, Same
<1> HIDE DEF T
<1>5. \A n \in 0 .. m : n \in T
  BY <1>2, <1>3, <1>4, Induction
<1> QED
  BY <1>5 DEF T, f, g

(* Blocks of other kinds add nothing.                                      *)
LEMMA DataSkips ==
  ASSUME NEW b \in Seq(Block), NEW kinds, NEW k \in 0 .. Len(b),
         \A n \in k + 1 .. Len(b) : b[n].kind \notin kinds
  PROVE  DataUpTo(b, kinds)[Len(b)] = DataUpTo(b, kinds)[k]
<1> DEFINE f == DataUpTo(b, kinds)
           T == {n \in 0 .. Len(b) : n >= k => f[n] = f[k]}
<1>1. DataSteps(f, b, kinds)
  BY DataComputed
<1> HIDE DEF f
<1>2. Len(b) \in Nat /\ k \in Nat
  OBVIOUS
<1>3. 0 \in T
  BY <1>2
<1>4. ASSUME NEW n \in 1 .. Len(b), n - 1 \in T
      PROVE  n \in T
  <2>1. CASE n <= k
    BY <1>2, <2>1
  <2>2. CASE n > k
    <3>1. n - 1 >= k /\ n \in k + 1 .. Len(b)
      BY <1>2, <2>2
    <3>2. f[n - 1] = f[k] /\ b[n].kind \notin kinds
      BY <1>4, <3>1
    <3> QED
      BY <1>1, <3>2 DEF DataSteps
  <2> QED
    BY <1>2, <2>1, <2>2
<1> HIDE DEF T
<1>5. \A n \in 0 .. Len(b) : n \in T
  BY <1>2, <1>3, <1>4, Induction
<1>6. Len(b) \in T /\ Len(b) >= k
  BY <1>2, <1>5
<1> QED
  BY <1>6 DEF T, f

LEMMA JoinedSkips ==
  ASSUME NEW b \in Seq(Block), NEW kinds, NEW k \in 0 .. Len(b),
         \A n \in k + 1 .. Len(b) : b[n].kind \notin kinds
  PROVE  JoinedUpTo(b, kinds)[Len(b)] = JoinedUpTo(b, kinds)[k]
<1> DEFINE f == JoinedUpTo(b, kinds)
           T == {n \in 0 .. Len(b) : n >= k => f[n] = f[k]}
<1>1. JoinedSteps(f, b, kinds)
  BY JoinedComputed
<1> HIDE DEF f
<1>2. Len(b) \in Nat /\ k \in Nat
  OBVIOUS
<1>3. 0 \in T
  BY <1>2
<1>4. ASSUME NEW n \in 1 .. Len(b), n - 1 \in T
      PROVE  n \in T
  <2>1. CASE n <= k
    BY <1>2, <2>1
  <2>2. CASE n > k
    <3>1. n - 1 >= k /\ n \in k + 1 .. Len(b)
      BY <1>2, <2>2
    <3>2. f[n - 1] = f[k] /\ b[n].kind \notin kinds
      BY <1>4, <3>1
    <3> QED
      BY <1>1, <3>2 DEF JoinedSteps
  <2> QED
    BY <1>2, <2>1, <2>2
<1> HIDE DEF T
<1>5. \A n \in 0 .. Len(b) : n \in T
  BY <1>2, <1>3, <1>4, Induction
<1>6. Len(b) \in T /\ Len(b) >= k
  BY <1>2, <1>5
<1> QED
  BY <1>6 DEF T, f

-----------------------------------------------------------------------------

-----------------------------------------------------------------------------
(* Where a block stands among those of its kind.                           *)

LEMMA DataTyped ==
  ASSUME NEW b \in Seq(Block), NEW kinds, NEW n \in 0 .. Len(b)
  PROVE  /\ DataUpTo(b, kinds)[n] \in Seq(Seq(Nat))
         /\ Len(DataUpTo(b, kinds)[n]) \in Nat
<1>1. DataUpTo(b, kinds)[n] \in Seq(Seq(Nat))
  BY DataComputed DEF DataSteps
<1> QED
  BY <1>1, LenProperties

LEMMA JoinedTyped ==
  ASSUME NEW b \in Seq(Block), NEW kinds, NEW n \in 0 .. Len(b)
  PROVE  JoinedUpTo(b, kinds)[n] \in Seq(Nat)
BY JoinedComputed DEF JoinedSteps

LEMMA AnswersTyped ==
  ASSUME NEW b \in Seq(Block)
  PROVE  /\ \A kinds : Joined(b, kinds) \in Seq(Nat)
         /\ \A kinds : DataOf(b, kinds) \in Seq(Seq(Nat))
<1>1. Len(b) \in 0 .. Len(b)
  BY LenProperties
<1> QED
  BY <1>1, DataTyped, JoinedTyped DEF Joined, DataOf

(* The blocks before the k-th of a kind decide its place.                  *)
LEMMA PlacesAgree ==
  ASSUME NEW b \in Seq(Block), NEW c \in Seq(Block), NEW kinds,
         NEW m \in Nat, m <= Len(b), m <= Len(c),
         \A n \in 1 .. m : b[n].kind \in kinds <=> c[n].kind \in kinds
  PROVE  \A n \in 0 .. m : Len(DataUpTo(b, kinds)[n]) = Len(DataUpTo(c, kinds)[n])
<1> DEFINE f == DataUpTo(b, kinds)
           g == DataUpTo(c, kinds)
           T == {n \in 0 .. m : Len(f[n]) = Len(g[n])}
<1>1. DataSteps(f, b, kinds) /\ DataSteps(g, c, kinds)
  BY DataComputed
<1> HIDE DEF f, g
<1>2. 0 \in T
  BY <1>1 DEF DataSteps
<1>3. ASSUME NEW n \in 1 .. m, n - 1 \in T
      PROVE  n \in T
  <2>0. Len(b) \in Nat /\ Len(c) \in Nat
    BY LenProperties
  <2>1. /\ n \in 1 .. Len(b) /\ n \in 1 .. Len(c) /\ Len(f[n - 1]) = Len(g[n - 1])
        /\ n - 1 \in 0 .. Len(b) /\ n - 1 \in 0 .. Len(c)
    BY <1>3, <2>0
  <2>2. f[n - 1] \in Seq(Seq(Nat)) /\ g[n - 1] \in Seq(Seq(Nat))
    BY <1>1, <2>1 DEF DataSteps
  <2>3. b[n].data \in Seq(Nat) /\ c[n].data \in Seq(Nat)
    BY <2>1, BlockParts
  <2>4. /\ Len(Append(f[n - 1], b[n].data)) = Len(f[n - 1]) + 1
        /\ Len(Append(g[n - 1], c[n].data)) = Len(g[n - 1]) + 1
    BY <2>2, <2>3, AppendProperties
  <2>5. /\ f[n] = IF b[n].kind \in kinds THEN Append(f[n - 1], b[n].data) ELSE f[n - 1]
        /\ g[n] = IF b[n].kind \in kinds THEN Append(g[n - 1], c[n].data) ELSE g[n - 1]
    BY <1>1, <2>1 DEF DataSteps
  <2>6. Len(f[n]) = Len(g[n])
    BY <2>1, <2>4, <2>5
  <2> QED
    BY <2>6
<1> HIDE DEF T
<1>4. \A n \in 0 .. m : n \in T
  BY <1>2, <1>3, Induction
<1> QED
  BY <1>4 DEF T, f, g

LEMMA PlaceOf ==
  ASSUME NEW b \in Seq(Block), NEW kinds, NEW k \in 1 .. Len(b), b[k].kind \in kinds
  PROVE  \A n \in k .. Len(b) : Len(DataUpTo(b, kinds)[k]) \in 1 .. Len(DataUpTo(b, kinds)[n])
<1> DEFINE f == DataUpTo(b, kinds)
           T == {n \in 0 .. Len(b) : n >= k => Len(f[k]) \in 1 .. Len(f[n])}
<1>1. DataSteps(f, b, kinds) /\ Len(b) \in Nat
  BY DataComputed, LenProperties
<1>2. \A n \in 0 .. Len(b) : f[n] \in Seq(Seq(Nat)) /\ Len(f[n]) \in Nat
  BY DataTyped
<1> HIDE DEF f
<1>3. 0 \in T
  BY <1>1
<1>4. ASSUME NEW n \in 1 .. Len(b), n - 1 \in T
      PROVE  n \in T
  <2>1. /\ n - 1 \in 0 .. Len(b) /\ n \in 0 .. Len(b)
        /\ f[n] = IF b[n].kind \in kinds THEN Append(f[n - 1], b[n].data) ELSE f[n - 1]
    BY <1>1 DEF DataSteps
  <2>2. b[n].data \in Seq(Nat) /\ f[n - 1] \in Seq(Seq(Nat))
    BY <1>2, <2>1, BlockParts
  <2>3. Len(Append(f[n - 1], b[n].data)) = Len(f[n - 1]) + 1
    BY <2>2, AppendProperties
  <2>4. CASE n = k
    BY <1>2, <2>1, <2>3, <2>4
  <2>5. CASE n > k
    <3>1. Len(f[k]) \in 1 .. Len(f[n - 1])
      BY <1>1, <1>4, <2>5
    <3>2. Len(f[n - 1]) \in Nat /\ (Len(f[n]) = Len(f[n - 1]) + 1 \/ Len(f[n]) = Len(f[n - 1]))
      BY <1>2, <2>1, <2>3
    <3>3. Len(f[k]) \in 1 .. Len(f[n])
      BY <3>1, <3>2
    <3> QED
      BY <3>3
  <2> QED
    BY <1>1, <2>4, <2>5
<1> HIDE DEF T
<1>5. \A n \in 0 .. Len(b) : n \in T
  BY <1>1, <1>3, <1>4, Induction
<1> QED
  BY <1>1, <1>5 DEF T, f

(* A block that grows.                                                     *)
Grows(b, c, k, more) ==
  /\ Len(c) = Len(b) /\ k \in 1 .. Len(b)
  /\ \A n \in 1 .. Len(b) :
       /\ c[n].kind = b[n].kind
       /\ c[n].data = IF n = k THEN b[n].data \o more ELSE b[n].data

LEMMA ChangedIn ==
  ASSUME NEW S, NEW s \in Seq(S), NEW r \in 1 .. Len(s), NEW x \in S, NEW d \in S
  PROVE  Append([s EXCEPT ![r] = x], d) = [Append(s, d) EXCEPT ![r] = x]
<1> DEFINE p == [s EXCEPT ![r] = x]
           a == Append(s, d)
           q == [a EXCEPT ![r] = x]
<1>1. Len(s) \in Nat
  BY LenProperties
<1>2. /\ a \in Seq(S) /\ Len(a) = Len(s) + 1
      /\ \A i \in 1 .. Len(s) : a[i] = s[i]
      /\ a[Len(s) + 1] = d
  BY AppendProperties
<1>3. /\ p \in Seq(S) /\ Len(p) = Len(s)
      /\ \A i \in 1 .. Len(s) : p[i] = IF i = r THEN x ELSE s[i]
  BY ExceptSeq
<1> HIDE DEF a, p
<1>4. r \in 1 .. Len(a)
  BY <1>1, <1>2
<1>5. /\ q \in Seq(S) /\ Len(q) = Len(a)
      /\ \A i \in 1 .. Len(a) : q[i] = IF i = r THEN x ELSE a[i]
  BY <1>2, <1>4, ExceptSeq
<1> HIDE DEF q
<1> DEFINE t == Append(p, d)
<1>6. /\ t \in Seq(S) /\ Len(t) = Len(p) + 1
      /\ \A i \in 1 .. Len(p) : t[i] = p[i]
      /\ t[Len(p) + 1] = d
  BY <1>3, AppendProperties
<1> HIDE DEF t
<1>7. \A i \in 1 .. Len(t) : t[i] = q[i]
  <2> TAKE i \in 1 .. Len(t)
  <2>1. i = Len(s) + 1 \/ i \in 1 .. Len(s)
    BY <1>1, <1>3, <1>6
  <2> QED
    BY <1>1, <1>2, <1>3, <1>5, <1>6, <2>1
<1>8. t = q
  BY <1>2, <1>3, <1>5, <1>6, <1>7, SeqEqual
<1> QED
  BY <1>8 DEF p, q, a, t

(* The place of block k among those of its kinds, and what is changed there*)
Place(blocks, kinds, k) == Len(DataUpTo(blocks, kinds)[k])
Changed(data, place, more) == [data EXCEPT ![place] = @ \o more]

LEMMA DataGrows ==
  ASSUME NEW b \in Seq(Block), NEW c \in Seq(Block), NEW kinds, NEW k, NEW more \in Seq(Nat),
         Grows(b, c, k, more), b[k].kind \in kinds
  PROVE  DataOf(c, kinds) = Changed(DataOf(b, kinds), Place(b, kinds, k), more)
<1> DEFINE f == DataUpTo(b, kinds)
           g == DataUpTo(c, kinds)
           r == Len(f[k])
           T == {n \in 0 .. Len(b) : n >= k => g[n] = [f[n] EXCEPT ![r] = @ \o more]}
<1>1. DataSteps(f, b, kinds) /\ DataSteps(g, c, kinds) /\ Len(b) \in Nat
  BY DataComputed, LenProperties
<1>2. \A n \in 0 .. Len(b) : f[n] \in Seq(Seq(Nat)) /\ Len(f[n]) \in Nat
  BY DataTyped
<1>3. k \in 1 .. Len(b) /\ Len(c) = Len(b)
  BY DEF Grows
<1>4. \A n \in k .. Len(b) : r \in 1 .. Len(f[n])
  BY <1>3, PlaceOf
<1>5. Same(b, c, k - 1, kinds)
  BY <1>1, <1>3 DEF Same, Grows
<1>6. f[k - 1] = g[k - 1]
  BY <1>3, <1>5, DataAgrees
<1> HIDE DEF f, g
<1>7. 0 \in T
  BY <1>1, <1>3
<1>8. ASSUME NEW n \in 1 .. Len(b), n - 1 \in T
      PROVE  n \in T
  <2>1. /\ n - 1 \in 0 .. Len(b) /\ n \in 0 .. Len(b)
        /\ f[n] = IF b[n].kind \in kinds THEN Append(f[n - 1], b[n].data) ELSE f[n - 1]
        /\ g[n] = IF b[n].kind \in kinds THEN Append(g[n - 1], c[n].data) ELSE g[n - 1]
        /\ c[n].data = IF n = k THEN b[n].data \o more ELSE b[n].data
    <3>1. n - 1 \in 0 .. Len(b) /\ n \in 0 .. Len(b)
      BY <1>1
    <3>2. f[n] = IF b[n].kind \in kinds THEN Append(f[n - 1], b[n].data) ELSE f[n - 1]
      BY <1>1 DEF DataSteps
    <3>3. g[n] = IF c[n].kind \in kinds THEN Append(g[n - 1], c[n].data) ELSE g[n - 1]
      BY <1>1, <1>3 DEF DataSteps
    <3>4. c[n].kind = b[n].kind /\ c[n].data = IF n = k THEN b[n].data \o more ELSE b[n].data
      BY DEF Grows
    <3> QED
      BY <3>1, <3>2, <3>3, <3>4
  <2>2. b[n].data \in Seq(Nat) /\ f[n - 1] \in Seq(Seq(Nat)) /\ b[n].data \o more \in Seq(Nat)
    BY <1>2, <2>1, BlockParts, ConcatProperties
  <2>3. CASE n = k
    <3> DEFINE s == f[n - 1]
               d == b[n].data
    <3>1. f[n] = Append(s, d) /\ g[n] = Append(s, d \o more)
      BY <1>6, <2>1, <2>3
    <3>2. s \in Seq(Seq(Nat)) /\ d \in Seq(Nat) /\ d \o more \in Seq(Nat)
      BY <2>2
    <3> HIDE DEF s, d
    <3>3. /\ Len(Append(s, d)) = Len(s) + 1 /\ Append(s, d) \in Seq(Seq(Nat))
          /\ \A i \in 1 .. Len(s) : Append(s, d)[i] = s[i]
          /\ Append(s, d)[Len(s) + 1] = d
      BY <3>2, AppendProperties
    <3>4. /\ Len(Append(s, d \o more)) = Len(s) + 1 /\ Append(s, d \o more) \in Seq(Seq(Nat))
          /\ \A i \in 1 .. Len(s) : Append(s, d \o more)[i] = s[i]
          /\ Append(s, d \o more)[Len(s) + 1] = d \o more
      BY <3>2, AppendProperties
    <3>5. r = Len(s) + 1 /\ Len(s) \in Nat
      BY <2>3, <3>1, <3>2, <3>3, LenProperties
    <3> DEFINE a == Append(s, d)
               y == d \o more
               q == [a EXCEPT ![r] = y]
    <3>6. a \in Seq(Seq(Nat)) /\ y \in Seq(Nat) /\ r \in 1 .. Len(a) /\ Len(a) = Len(s) + 1
      BY <3>2, <3>3, <3>5
    <3> HIDE DEF a, y
    <3>7. /\ q \in Seq(Seq(Nat)) /\ Len(q) = Len(a)
          /\ \A i \in 1 .. Len(a) : q[i] = IF i = r THEN y ELSE a[i]
      BY <3>6, ExceptSeq
    <3> HIDE DEF q
    <3> DEFINE t == Append(s, y)
    <3>8. /\ t \in Seq(Seq(Nat)) /\ Len(t) = Len(s) + 1
          /\ \A i \in 1 .. Len(s) : t[i] = s[i]
          /\ t[Len(s) + 1] = y
      BY <3>4 DEF y
    <3>9. /\ \A i \in 1 .. Len(s) : a[i] = s[i]
          /\ a[r] = d
      BY <3>3, <3>5 DEF a
    <3> HIDE DEF t
    <3>10. \A i \in 1 .. Len(t) : t[i] = q[i]
      <4> TAKE i \in 1 .. Len(t)
      <4>1. i = Len(s) + 1 \/ i \in 1 .. Len(s)
        BY <3>5, <3>8
      <4> QED
        BY <3>5, <3>6, <3>7, <3>8, <3>9, <4>1
    <3>11. t = q
      BY SMTT(15), <3>6, <3>7, <3>8, <3>10, SeqEqual
    <3>12. g[n] = t /\ f[n] = a
      BY <3>1 DEF t, a, y
    <3>13. g[n] = [f[n] EXCEPT ![r] = @ \o more]
      BY <3>9, <3>11, <3>12 DEF q, y
    <3> QED
      BY <3>13
  <2>4. CASE n > k
    <3>1. g[n - 1] = [f[n - 1] EXCEPT ![r] = @ \o more] /\ r \in 1 .. Len(f[n - 1])
      BY <1>3, <1>4, <1>8, <2>4
    <3> DEFINE s == f[n - 1]
               d == b[n].data
    <3>2. s \in Seq(Seq(Nat)) /\ d \in Seq(Nat) /\ r \in 1 .. Len(s)
      BY <2>2, <3>1
    <3> DEFINE S == Seq(Nat)
               x == s[r] \o more
    <3>3. Append([s EXCEPT ![r] = x], d) = [Append(s, d) EXCEPT ![r] = x]
      <4>1. s[r] \in S
        BY <3>2, ElementOfSeq
      <4>2. x \in S
        BY <4>1, ConcatProperties
      <4>3. s \in Seq(S) /\ d \in S /\ r \in 1 .. Len(s)
        BY <3>2
      <4> HIDE DEF s, d, r, x, S
      <4> QED
        BY <4>2, <4>3, ChangedIn
    <3>6. Append(s, d)[r] = s[r]
      BY <3>2, AppendProperties
    <3>4. c[n].data = d /\ g[n - 1] = [s EXCEPT ![r] = @ \o more]
      BY <1>3, <2>1, <2>4, <3>1
    <3>5. g[n] = [f[n] EXCEPT ![r] = @ \o more]
      BY <2>1, <3>3, <3>4, <3>6
    <3> QED
      BY <3>5
  <2> QED
    BY <1>3, <2>3, <2>4
<1> HIDE DEF T
<1>9. \A n \in 0 .. Len(b) : n \in T
  BY <1>1, <1>7, <1>8, Induction
<1>10. Len(b) \in T /\ Len(b) >= k
  BY <1>1, <1>3, <1>9
<1> QED
  BY <1>3, <1>10 DEF T, f, g, DataOf, Place, Changed

LEMMA Regrouped == \A s, t, u \in Seq(Nat) : (s \o t) \o u = s \o (t \o u)
BY SMTT(15)

(* What is joined grows at its end when the last block of its kinds grows. *)
LEMMA JoinedGrows ==
  ASSUME NEW b \in Seq(Block), NEW c \in Seq(Block), NEW kinds, NEW k, NEW more \in Seq(Nat),
         Grows(b, c, k, more), b[k].kind \in kinds,
         \A n \in 1 .. Len(b) : n > k => b[n].kind \notin kinds
  PROVE  Joined(c, kinds) = Joined(b, kinds) \o more
<1> DEFINE f == JoinedUpTo(b, kinds)
           g == JoinedUpTo(c, kinds)
<1>1. JoinedSteps(f, b, kinds) /\ JoinedSteps(g, c, kinds) /\ Len(b) \in Nat
  BY JoinedComputed, LenProperties
<1>2. k \in 1 .. Len(b) /\ Len(c) = Len(b)
  BY DEF Grows
<1>3. Same(b, c, k - 1, kinds)
  BY <1>1, <1>2 DEF Same, Grows
<1>4. f[k - 1] = g[k - 1]
  BY <1>2, <1>3, JoinedAgrees
<1>5. f[Len(b)] = f[k] /\ g[Len(c)] = g[k]
  <2>1. \A n \in k + 1 .. Len(b) : b[n].kind \notin kinds /\ c[n].kind \notin kinds
    BY <1>2 DEF Grows
  <2>2. k \in 0 .. Len(b) /\ k \in 0 .. Len(c)
    BY <1>1, <1>2
  <2>3. \A n \in k + 1 .. Len(c) : c[n].kind \notin kinds
    BY <1>2, <2>1
  <2>4. JoinedUpTo(b, kinds)[Len(b)] = JoinedUpTo(b, kinds)[k]
    BY <2>1, <2>2, JoinedSkips
  <2>5. JoinedUpTo(c, kinds)[Len(c)] = JoinedUpTo(c, kinds)[k]
    BY <2>2, <2>3, JoinedSkips
  <2> QED
    BY <2>4, <2>5
<1> HIDE DEF f, g
<1>6. f[k] = f[k - 1] \o b[k].data /\ g[k] = f[k - 1] \o (b[k].data \o more)
  BY <1>1, <1>2, <1>4 DEF JoinedSteps, Grows
<1>7. f[k - 1] \in Seq(Nat) /\ b[k].data \in Seq(Nat)
  <2>1. k - 1 \in 0 .. Len(b)
    BY <1>1, <1>2
  <2>2. f[k - 1] \in Seq(Nat)
    BY <1>1, <2>1 DEF JoinedSteps
  <2> QED
    BY <1>2, <2>2, BlockParts
<1>8. g[k] = f[k] \o more
  <2> DEFINE s == f[k - 1]
             d == b[k].data
  <2>1. s \in Seq(Nat) /\ d \in Seq(Nat)
    BY <1>7
  <2> HIDE DEF s, d
  <2>2. (s \o d) \o more = s \o (d \o more)
    BY <2>1, Regrouped
  <2> QED
    BY <1>6, <2>2 DEF s, d
<1> QED
  BY <1>2, <1>5, <1>8 DEF f, g, Joined

(* A block at the end.                                                     *)
LEMMA DataOfMore ==
  ASSUME NEW b \in Seq(Block), NEW x \in Block, NEW kinds
  PROVE  /\ DataOf(Append(b, x), kinds) =
              IF x.kind \in kinds THEN Append(DataOf(b, kinds), x.data) ELSE DataOf(b, kinds)
         /\ Joined(Append(b, x), kinds) =
              IF x.kind \in kinds THEN Joined(b, kinds) \o x.data ELSE Joined(b, kinds)
         /\ \A n \in 0 .. Len(b) : DataUpTo(Append(b, x), kinds)[n] = DataUpTo(b, kinds)[n]
<1> DEFINE c == Append(b, x)
<1>1. /\ c \in Seq(Block) /\ Len(c) = Len(b) + 1 /\ Len(b) \in Nat
      /\ \A n \in 1 .. Len(b) : c[n] = b[n]
      /\ c[Len(b) + 1] = x
  BY AppendProperties, LenProperties
<1> HIDE DEF c
<1>2. Same(b, c, Len(b), kinds)
  BY <1>1 DEF Same
<1>3. \A n \in 0 .. Len(b) : /\ DataUpTo(b, kinds)[n] = DataUpTo(c, kinds)[n]
                             /\ JoinedUpTo(b, kinds)[n] = JoinedUpTo(c, kinds)[n]
  BY <1>1, <1>2, DataAgrees, JoinedAgrees
<1>4. Len(b) + 1 \in 1 .. Len(c) /\ Len(b) + 1 - 1 = Len(b) /\ Len(b) \in 0 .. Len(b)
  BY <1>1
<1>5. /\ DataSteps(DataUpTo(c, kinds), c, kinds)
      /\ JoinedSteps(JoinedUpTo(c, kinds), c, kinds)
  BY <1>1, DataComputed, JoinedComputed
<1>6. /\ DataUpTo(c, kinds)[Len(b) + 1] =
           IF x.kind \in kinds THEN Append(DataUpTo(c, kinds)[Len(b)], x.data)
                               ELSE DataUpTo(c, kinds)[Len(b)]
      /\ JoinedUpTo(c, kinds)[Len(b) + 1] =
           IF x.kind \in kinds THEN JoinedUpTo(c, kinds)[Len(b)] \o x.data
                               ELSE JoinedUpTo(c, kinds)[Len(b)]
  BY <1>1, <1>4, <1>5 DEF DataSteps, JoinedSteps
<1> QED
  BY <1>1, <1>3, <1>4, <1>6 DEF c, DataOf, Joined

(* Blocks that hold the same.                                              *)
LEMMA SameAnswers ==
  ASSUME NEW b \in Seq(Block), NEW c \in Seq(Block), Len(b) = Len(c),
         NEW kinds, Same(b, c, Len(b), kinds)
  PROVE  DataOf(c, kinds) = DataOf(b, kinds) /\ Joined(c, kinds) = Joined(b, kinds)
<1>1. Len(b) \in 0 .. Len(b)
  BY LenProperties
<1> QED
  BY <1>1, DataAgrees, JoinedAgrees DEF DataOf, Joined

-----------------------------------------------------------------------------

(* Where a reader of the canonical events stands: what began and ended,    *)
(* which blocks it has seen and which of them are open, and what they said,*)
(* call[i] being the number of tool block i among the calls.               *)
Spot ==
  [begun : BOOLEAN, ended : {"no", "stop", "error"}, reason : Reasons \cup {"none"},
   kind : [Indexes -> Kinds \cup {"none"}], open : SUBSET Indexes,
   text : Seq(Nat), reasoning : Seq(Nat),
   calls : Seq(Seq(Nat)), call : [Indexes -> Nat]]

Fresh(s, i) == \A j \in Indexes : j >= i => s.kind[j] = "none"
Newest(s, i) == \A j \in Indexes : j > i => s.kind[j] # s.kind[i]

(* Tool blocks are numbered in the order of their indexes.                 *)
Numbered(s) ==
  /\ \A i \in Indexes : s.kind[i] = "tool" => s.call[i] \in 1 .. Len(s.calls)
  /\ \A i, j \in Indexes : s.kind[i] = "tool" /\ s.kind[j] = "tool" /\ i < j =>
       s.call[i] < s.call[j]
  /\ \A i \in Indexes : Fresh(s, i) => Len(s.calls) <= i

Spots ==
  {s \in Spot : /\ Numbered(s)
                /\ \A i \in s.open : s.kind[i] # "none"
                /\ s.reason = "none" <=> s.ended # "stop"}

Blank ==
  [begun |-> FALSE, ended |-> "no", reason |-> "none",
   kind |-> [i \in Indexes |-> "none"], open |-> {},
   text |-> <<>>, reasoning |-> <<>>,
   calls |-> <<>>, call |-> [i \in Indexes |-> 0]]

Begun(s) == [s EXCEPT !.begun = TRUE]
Broken(s) == [s EXCEPT !.ended = "error"]
Stopping(s, reason) == [s EXCEPT !.ended = "stop", !.reason = reason]
Closing(s, i) == [s EXCEPT !.open = @ \ {i}]

Starting(s, i, kind) ==
  [s EXCEPT !.kind[i] = kind, !.open = @ \cup {i},
            !.calls = IF kind = "tool" THEN Append(@, <<>>) ELSE @,
            !.call[i] = IF kind = "tool" THEN Len(s.calls) + 1 ELSE @]

Saying(s, i, p) ==
  CASE s.kind[i] = "text" -> [s EXCEPT !.text = @ \o Pieces(p)]
    [] s.kind[i] = "reasoning" -> [s EXCEPT !.reasoning = @ \o Pieces(p)]
    [] OTHER -> [s EXCEPT !.calls[s.call[i]] = @ \o Pieces(p)]

DeltaKind(e) ==
  CASE e.type = "text_delta" -> "text"
    [] e.type = "reasoning_delta" -> "reasoning"
    [] OTHER -> "tool"

Starts(e) == e.type \in {"content_start", "tool_call_start"}
Deltas(e) == e.type \in {"text_delta", "reasoning_delta", "tool_call_delta"}

(* A stream without a flaw takes its reader from s to t with event e.      *)
Begins(s, e, t) == e.type = "response_start" /\ ~s.begun /\ t = Begun(s)

Opens(s, e, t) ==
  /\ Starts(e) /\ s.begun
  /\ e.type = "tool_call_start" <=> e.kind = "tool"
  /\ e.piece = Empty /\ Fresh(s, e.index)
  /\ t = Starting(s, e.index, e.kind)

Speaks(s, e, t) ==
  /\ Deltas(e) /\ s.begun
  /\ e.index \in s.open /\ s.kind[e.index] = DeltaKind(e)
  /\ Newest(s, e.index) \/ s.kind[e.index] = "tool"
  /\ t = Saying(s, e.index, e.piece)

Closes(s, e, t) ==
  /\ e.type = "content_stop" /\ s.begun
  /\ e.index \in s.open /\ \A j \in s.open : e.index <= j
  /\ t = Closing(s, e.index)

Stops(s, e, t) ==
  /\ e.type = "response_stop" /\ s.begun /\ s.open = {}
  /\ e.reason # "none" /\ t = Stopping(s, e.reason)

Breaks(s, e, t) == e.type = "error" /\ t = Broken(s)

Step(s, e, t) ==
  \/ e.type = "usage" /\ t = s
  \/ /\ s.ended = "no"
     /\ \/ Begins(s, e, t) \/ Opens(s, e, t) \/ Speaks(s, e, t)
        \/ Closes(s, e, t) \/ Stops(s, e, t) \/ Breaks(s, e, t)

(* s is a part of t: of an answer that has ended only all of it.           *)
StartOf(s, t) == Len(s) <= Len(t) /\ \A n \in 1 .. Len(s) : s[n] = t[n]

Below(s, t) ==
  /\ StartOf(s.text, t.text) /\ StartOf(s.reasoning, t.reasoning)
  /\ Len(s.calls) <= Len(t.calls)
  /\ \A n \in 1 .. Len(s.calls) : StartOf(s.calls[n], t.calls[n])
  /\ s.ended # "no" => t = s

(* The events take a reader from s to t, through parts of t.               *)
Leads(events, s, t) ==
  \E way \in [0 .. Len(events) -> Spots] :
    /\ way[0] = s /\ way[Len(events)] = t
    /\ \A n \in 1 .. Len(events) : Step(way[n - 1], events[n], way[n])
    /\ \A n \in 0 .. Len(events) : Below(way[n], t)


-----------------------------------------------------------------------------
(* Parts.                                                                  *)

LEMMA StartOfSelf == \A s : Len(s) \in Nat => StartOf(s, s)
BY DEF StartOf

LEMMA StartOfTrans ==
  ASSUME NEW S, NEW s \in Seq(S), NEW t \in Seq(S), NEW u \in Seq(S), StartOf(s, t), StartOf(t, u)
  PROVE  StartOf(s, u)
<1>1. Len(s) \in Nat /\ Len(t) \in Nat /\ Len(u) \in Nat
  BY LenProperties
<1> QED
  BY <1>1 DEF StartOf

LEMMA StartOfMore ==
  ASSUME NEW S, NEW s \in Seq(S), NEW d \in Seq(S)
  PROVE  StartOf(s, s \o d)
<1>1. Len(s) \in Nat /\ Len(d) \in Nat
  BY LenProperties
<1>2. /\ Len(s \o d) = Len(s) + Len(d)
      /\ \A i \in 1 .. Len(s) + Len(d) : (s \o d)[i] = IF i <= Len(s) THEN s[i] ELSE d[i - Len(s)]
  BY ConcatProperties
<1> DEFINE t == s \o d
<1> HIDE DEF t
<1> QED
  BY <1>1, <1>2 DEF StartOf, t

LEMMA StartIsPrefix ==
  ASSUME NEW s \in Seq(Nat), NEW t \in Seq(Nat), StartOf(s, t)
  PROVE  IsPrefix(s, t)
<1>1. Len(s) \in Nat /\ Len(t) \in Nat /\ Len(s) <= Len(t)
  BY LenProperties DEF StartOf
<1>2. \A i \in 1 .. Len(s) : s[i] \in Nat /\ t[i] \in Nat /\ s[i] = t[i]
  BY <1>1, ElementOfSeq DEF StartOf
<1> DEFINE p == SubSeq(s, 1, Len(s))
           q == SubSeq(t, 1, Len(s))
<1>3. p \in Seq(Nat) /\ Len(p) = Len(s) /\ \A i \in 1 .. Len(s) : p[i] = s[i]
  BY <1>1, <1>2
<1>4. q \in Seq(Nat) /\ Len(q) = Len(s) /\ \A i \in 1 .. Len(s) : q[i] = t[i]
  BY <1>1, <1>2
<1> HIDE DEF p, q
<1>5. p = q
  BY <1>2, <1>3, <1>4, SeqEqual
<1> QED
  BY <1>1, <1>5 DEF IsPrefix, p, q

-----------------------------------------------------------------------------
(* Where a reader stands.                                                  *)

LEMMA SpotParts ==
  ASSUME NEW s \in Spots
  PROVE  /\ s \in Spot /\ Numbered(s)
         /\ s.begun \in BOOLEAN /\ s.ended \in {"no", "stop", "error"}
         /\ s.reason \in Reasons \cup {"none"} /\ (s.reason = "none" <=> s.ended # "stop")
         /\ s.kind \in [Indexes -> Kinds \cup {"none"}] /\ s.open \subseteq Indexes
         /\ s.text \in Seq(Nat) /\ s.reasoning \in Seq(Nat) /\ s.calls \in Seq(Seq(Nat))
         /\ Len(s.calls) \in Nat
         /\ s.call \in [Indexes -> Nat]
         /\ \A i \in s.open : i \in Indexes /\ s.kind[i] # "none"
<1>1. s \in Spot /\ Numbered(s) /\ (\A i \in s.open : s.kind[i] # "none")
      /\ (s.reason = "none" <=> s.ended # "stop")
  BY DEF Spots
<1>2. s.calls \in Seq(Seq(Nat))
  BY <1>1 DEF Spot
<1>3. Len(s.calls) \in Nat
  BY <1>2, LenProperties
<1> QED
  BY <1>1, <1>2, <1>3 DEF Spot

LEMMA BlankSpot == Blank \in Spots
<1>1. Blank \in Spot
  BY DEF Blank, Spot, Reasons
<1>2. Numbered(Blank)
  BY DEF Blank, Numbered, Indexes
<1> QED
  BY <1>1, <1>2 DEF Spots, Blank

LEMMA BelowSelf ==
  ASSUME NEW s \in Spots
  PROVE  Below(s, s)
<1>1. /\ Len(s.text) \in Nat /\ Len(s.reasoning) \in Nat /\ Len(s.calls) \in Nat
      /\ \A n \in 1 .. Len(s.calls) : Len(s.calls[n]) \in Nat
  BY SpotParts, LenProperties, ElementOfSeq
<1> QED
  BY <1>1, StartOfSelf DEF Below

LEMMA BelowTrans ==
  ASSUME NEW s \in Spots, NEW t \in Spots, NEW u \in Spots, Below(s, t), Below(t, u)
  PROVE  Below(s, u)
<1>1. StartOf(s.text, u.text) /\ StartOf(s.reasoning, u.reasoning)
  BY SpotParts, StartOfTrans DEF Below
<1>2. Len(s.calls) \in Nat /\ Len(t.calls) \in Nat /\ Len(u.calls) \in Nat
  BY SpotParts
<1>3. ASSUME NEW n \in 1 .. Len(s.calls)
      PROVE  StartOf(s.calls[n], u.calls[n])
  <2>1. n \in 1 .. Len(t.calls) /\ n \in 1 .. Len(u.calls)
    BY <1>2 DEF Below
  <2>2. s.calls[n] \in Seq(Nat) /\ t.calls[n] \in Seq(Nat) /\ u.calls[n] \in Seq(Nat)
    BY <2>1, SpotParts, ElementOfSeq
  <2>3. StartOf(s.calls[n], t.calls[n]) /\ StartOf(t.calls[n], u.calls[n])
    BY <2>1 DEF Below
  <2> QED
    BY <2>2, <2>3, StartOfTrans
<1>4. Len(s.calls) <= Len(u.calls)
  BY <1>2 DEF Below
<1>5. s.ended # "no" => u = s
  BY DEF Below
<1> QED
  BY <1>1, <1>3, <1>4, <1>5 DEF Below

(* What each event does to a reader.                                       *)
LEMMA BegunSpot ==
  ASSUME NEW s \in Spots
  PROVE  /\ Begun(s) \in Spots /\ Begun(s).begun
         /\ Begun(s).ended = s.ended /\ Begun(s).reason = s.reason /\ Begun(s).kind = s.kind
         /\ Begun(s).open = s.open /\ Begun(s).text = s.text /\ Begun(s).reasoning = s.reasoning
         /\ Begun(s).calls = s.calls /\ Begun(s).call = s.call
<1> DEFINE t == Begun(s)
<1>1. /\ t \in Spot /\ t.begun /\ t.ended = s.ended /\ t.reason = s.reason /\ t.kind = s.kind
      /\ t.open = s.open /\ t.text = s.text /\ t.reasoning = s.reasoning
      /\ t.calls = s.calls /\ t.call = s.call
  BY SpotParts DEF Begun, Spot
<1> HIDE DEF t
<1>2. t \in Spots
  BY <1>1, SpotParts DEF Spots, Numbered, Fresh
<1> QED
  BY <1>1, <1>2 DEF t

LEMMA BrokenSpot ==
  ASSUME NEW s \in Spots, s.ended = "no"
  PROVE  /\ Broken(s) \in Spots /\ Broken(s).begun = s.begun
         /\ Broken(s).ended = "error" /\ Broken(s).reason = "none" /\ Broken(s).kind = s.kind
         /\ Broken(s).open = s.open /\ Broken(s).text = s.text /\ Broken(s).reasoning = s.reasoning
         /\ Broken(s).calls = s.calls /\ Broken(s).call = s.call
<1> DEFINE t == Broken(s)
<1>1. /\ t \in Spot /\ t.begun = s.begun /\ t.ended = "error" /\ t.reason = s.reason
      /\ t.kind = s.kind
      /\ t.open = s.open /\ t.text = s.text /\ t.reasoning = s.reasoning
      /\ t.calls = s.calls /\ t.call = s.call
  BY SpotParts DEF Broken, Spot
<1> HIDE DEF t
<1>2. t \in Spots /\ t.reason = "none"
  BY <1>1, SpotParts DEF Spots, Numbered, Fresh
<1> QED
  BY <1>1, <1>2 DEF t

LEMMA StoppingSpot ==
  ASSUME NEW s \in Spots, NEW reason \in Reasons
  PROVE  LET t == Stopping(s, reason) IN
         /\ t \in Spots /\ t.begun = s.begun
         /\ t.ended = "stop" /\ t.reason = reason /\ t.kind = s.kind
         /\ t.open = s.open /\ t.text = s.text /\ t.reasoning = s.reasoning
         /\ t.calls = s.calls /\ t.call = s.call
<1> DEFINE t == Stopping(s, reason)
<1>1. /\ t \in Spot /\ t.begun = s.begun /\ t.ended = "stop" /\ t.reason = reason
      /\ t.kind = s.kind
      /\ t.open = s.open /\ t.text = s.text /\ t.reasoning = s.reasoning
      /\ t.calls = s.calls /\ t.call = s.call
  BY SpotParts DEF Stopping, Spot
<1>0. reason # "none"
  BY DEF Reasons
<1> HIDE DEF t
<1>2. t \in Spots
  BY <1>0, <1>1, SpotParts DEF Spots, Numbered, Fresh
<1> QED
  BY <1>1, <1>2 DEF t

LEMMA ClosingSpot ==
  ASSUME NEW s \in Spots, NEW i
  PROVE  LET t == Closing(s, i) IN
         /\ t \in Spots /\ t.begun = s.begun
         /\ t.ended = s.ended /\ t.reason = s.reason /\ t.kind = s.kind
         /\ t.open = s.open \ {i} /\ t.text = s.text /\ t.reasoning = s.reasoning
         /\ t.calls = s.calls /\ t.call = s.call
<1> DEFINE t == Closing(s, i)
<1>1. /\ t \in Spot /\ t.begun = s.begun /\ t.ended = s.ended /\ t.reason = s.reason
      /\ t.kind = s.kind
      /\ t.open = s.open \ {i} /\ t.text = s.text /\ t.reasoning = s.reasoning
      /\ t.calls = s.calls /\ t.call = s.call
  BY SpotParts DEF Closing, Spot
<1> HIDE DEF t
<1>2. t \in Spots
  BY <1>1, SpotParts DEF Spots, Numbered, Fresh
<1> QED
  BY <1>1, <1>2 DEF t

LEMMA StartingSpot ==
  ASSUME NEW s \in Spots, NEW i \in Indexes, NEW kind \in Kinds, Fresh(s, i)
  PROVE  LET t == Starting(s, i, kind) IN
         /\ t \in Spots /\ t.begun = s.begun
         /\ t.ended = s.ended /\ t.reason = s.reason
         /\ t.open = s.open \cup {i} /\ t.text = s.text /\ t.reasoning = s.reasoning
         /\ t.calls = IF kind = "tool" THEN Append(s.calls, <<>>) ELSE s.calls
         /\ kind = "tool" => t.call[i] = Len(s.calls) + 1
         /\ t.kind[i] = kind
         /\ \A j \in Indexes : j # i => t.kind[j] = s.kind[j] /\ t.call[j] = s.call[j]
<1> DEFINE t == Starting(s, i, kind)
<1>1. /\ t.begun = s.begun /\ t.ended = s.ended /\ t.reason = s.reason
      /\ t.kind = [s.kind EXCEPT ![i] = kind]
      /\ t.open = s.open \cup {i} /\ t.text = s.text /\ t.reasoning = s.reasoning
      /\ t.calls = IF kind = "tool" THEN Append(s.calls, <<>>) ELSE s.calls
      /\ t.call = [s.call EXCEPT ![i] = IF kind = "tool" THEN Len(s.calls) + 1 ELSE @]
  BY SpotParts DEF Starting, Spot
<1>2. /\ t.kind \in [Indexes -> Kinds \cup {"none"}] /\ t.open \subseteq Indexes
      /\ t.kind[i] = kind /\ \A j \in Indexes : j # i => t.kind[j] = s.kind[j]
      /\ \A j \in t.open : t.kind[j] # "none"
  BY <1>1, SpotParts DEF Kinds
<1>3. /\ t.calls \in Seq(Seq(Nat)) /\ Len(s.calls) \in Nat
      /\ Len(t.calls) = IF kind = "tool" THEN Len(s.calls) + 1 ELSE Len(s.calls)
  <2>1. s.calls \in Seq(Seq(Nat)) /\ <<>> \in Seq(Nat)
    BY SpotParts
  <2>2. Append(s.calls, <<>>) \in Seq(Seq(Nat)) /\ Len(Append(s.calls, <<>>)) = Len(s.calls) + 1
    BY <2>1, AppendProperties
  <2> QED
    BY <1>1, <2>1, <2>2, SpotParts
<1>4. /\ t.call \in [Indexes -> Nat] /\ \A j \in Indexes : j # i => t.call[j] = s.call[j]
      /\ kind = "tool" => t.call[i] = Len(s.calls) + 1
  BY <1>1, <1>3, SpotParts
<1>5. t \in Spot
  <2> DEFINE k == [s.kind EXCEPT ![i] = kind]
             o == s.open \cup {i}
             c == IF kind = "tool" THEN Append(s.calls, <<>>) ELSE s.calls
             l == [s.call EXCEPT ![i] = IF kind = "tool" THEN Len(s.calls) + 1 ELSE @]
             u == [s EXCEPT !.kind = k, !.open = o, !.calls = c, !.call = l]
  <2>1. t = u
    BY DEF Starting
  <2>2. /\ k \in [Indexes -> Kinds \cup {"none"}] /\ o \in SUBSET Indexes
        /\ c \in Seq(Seq(Nat)) /\ l \in [Indexes -> Nat]
    BY <1>1, <1>2, <1>3, <1>4
  <2>3. s \in Spot
    BY SpotParts
  <2> HIDE DEF k, o, c, l, t
  <2>4. u \in Spot
    BY <2>2, <2>3 DEF Spot
  <2> QED
    BY <2>1, <2>4
<1> HIDE DEF t
<1>6. Numbered(t)
  <2>0. Numbered(s)
    BY SpotParts
  <2>1. ASSUME NEW j \in Indexes, t.kind[j] = "tool"
        PROVE  t.call[j] \in 1 .. Len(t.calls) /\ (j # i => t.call[j] \in 1 .. Len(s.calls))
    <3>1. CASE j = i
      BY <1>2, <1>3, <1>4, <2>1, <3>1
    <3>2. CASE j # i
      BY <1>2, <1>3, <1>4, <2>0, <2>1, <3>2 DEF Numbered
    <3> QED
      BY <3>1, <3>2
  <2>2. ASSUME NEW j \in Indexes, NEW k \in Indexes, t.kind[j] = "tool", t.kind[k] = "tool", j < k
        PROVE  t.call[j] < t.call[k]
    <3>1. CASE j # i /\ k # i
      BY <1>2, <1>4, <2>0, <2>2, <3>1 DEF Numbered
    <3>2. j # i
      <4>1. SUFFICES ASSUME j = i PROVE FALSE
        OBVIOUS
      <4>2. k # i /\ k >= i
        BY <2>2, <4>1 DEF Indexes
      <4>3. s.kind[k] = "none" /\ t.kind[k] = s.kind[k]
        BY <1>2, <4>2 DEF Fresh
      <4> QED
        BY <2>2, <4>3
    <3>3. CASE k = i
      BY <1>2, <1>3, <1>4, <2>1, <2>2, <3>2, <3>3
    <3> QED
      BY <3>1, <3>2, <3>3
  <2>3. ASSUME NEW j \in Indexes, Fresh(t, j)
        PROVE  Len(t.calls) <= j
    <3>1. j > i
      <4>1. i >= j => t.kind[i] = "none"
        BY <2>3 DEF Fresh
      <4> QED
        BY <1>2, <4>1 DEF Indexes, Kinds
    <3>2. Len(s.calls) <= i
      BY <2>0 DEF Numbered
    <3> QED
      BY <1>3, <3>1, <3>2 DEF Indexes
  <2> QED
    BY <2>1, <2>2, <2>3 DEF Numbered
<1>7. t \in Spots
  BY <1>1, <1>2, <1>5, <1>6, SpotParts DEF Spots
<1> QED
  BY <1>1, <1>2, <1>4, <1>7 DEF t

LEMMA PieceSeq == \A p \in Nat : Pieces(p) \in Seq(Nat)
BY DEF Pieces

(* One reading grows: which one depends on the block's kind.               *)
SaidMore(s, t, i, p) ==
  /\ t.text = IF s.kind[i] = "text" THEN s.text \o Pieces(p) ELSE s.text
  /\ t.reasoning = IF s.kind[i] = "reasoning" THEN s.reasoning \o Pieces(p) ELSE s.reasoning
  /\ t.calls = IF s.kind[i] = "tool" THEN [s.calls EXCEPT ![s.call[i]] = @ \o Pieces(p)]
                                     ELSE s.calls

LEMMA SayingSpot ==
  ASSUME NEW s \in Spots, NEW i \in Indexes, NEW p \in Nat, s.kind[i] # "none"
  PROVE  LET t == Saying(s, i, p) IN
         /\ t \in Spots /\ t.begun = s.begun
         /\ t.ended = s.ended /\ t.reason = s.reason /\ t.kind = s.kind
         /\ t.open = s.open /\ t.call = s.call
         /\ SaidMore(s, t, i, p)
<1> DEFINE t == Saying(s, i, p)
<1>1. s.kind[i] \in Kinds
  BY SpotParts
<1>2. /\ t.begun = s.begun /\ t.ended = s.ended /\ t.reason = s.reason
      /\ t.kind = s.kind /\ t.open = s.open /\ t.call = s.call
  BY SpotParts DEF Saying, Spot
<1>3. SaidMore(s, t, i, p)
  BY <1>1, SpotParts DEF Saying, Spot, SaidMore, Kinds
<1>4. /\ t.text \in Seq(Nat) /\ t.reasoning \in Seq(Nat)
      /\ t.calls \in Seq(Seq(Nat)) /\ Len(t.calls) = Len(s.calls)
  <2>1. /\ s.text \in Seq(Nat) /\ s.reasoning \in Seq(Nat) /\ s.calls \in Seq(Seq(Nat))
        /\ Pieces(p) \in Seq(Nat)
    BY SpotParts, PieceSeq
  <2>2. s.text \o Pieces(p) \in Seq(Nat) /\ s.reasoning \o Pieces(p) \in Seq(Nat)
    BY <2>1, ConcatProperties
  <2>3. ASSUME s.kind[i] = "tool"
        PROVE  /\ [s.calls EXCEPT ![s.call[i]] = @ \o Pieces(p)] \in Seq(Seq(Nat))
               /\ Len([s.calls EXCEPT ![s.call[i]] = @ \o Pieces(p)]) = Len(s.calls)
    <3> DEFINE r == s.call[i]
               c == s.calls
               S == Seq(Nat)
               x == c[r] \o Pieces(p)
    <3>1. r \in 1 .. Len(c) /\ c \in Seq(S)
      BY <2>1, <2>3, SpotParts DEF Numbered
    <3>2. c[r] \in S
      BY <3>1, ElementOfSeq
    <3>3. x \in S
      BY <2>1, <3>2, ConcatProperties
    <3>4. [c EXCEPT ![r] = x] \in Seq(S) /\ Len([c EXCEPT ![r] = x]) = Len(c)
      <4> HIDE DEF r, c, S, x
      <4> QED
        BY <3>1, <3>3, ExceptSeq
    <3> QED
      BY <3>4
  <2> QED
    BY <1>3, <2>1, <2>2, <2>3 DEF SaidMore
<1>5. t \in Spot
  <2>1. t = [begun |-> t.begun, ended |-> t.ended, reason |-> t.reason, kind |-> t.kind,
             open |-> t.open, text |-> t.text, reasoning |-> t.reasoning,
             calls |-> t.calls, call |-> t.call]
    BY SpotParts DEF Saying, Spot
  <2> HIDE DEF t
  <2> QED
    BY <1>2, <1>4, <2>1, SpotParts DEF Spot
<1> HIDE DEF t
<1>6. Numbered(t)
  BY <1>2, <1>4, SpotParts DEF Numbered, Fresh
<1>7. t \in Spots
  BY <1>2, <1>5, <1>6, SpotParts DEF Spots
<1> QED
  BY <1>2, <1>3, <1>7 DEF t

-----------------------------------------------------------------------------

(***************************************************************************)
(* Events, one and several.                                                *)
(***************************************************************************)

LEMMA SameBelow ==
  ASSUME NEW s \in Spots, NEW t \in Spots, s.ended = "no",
         t.text = s.text, t.reasoning = s.reasoning, t.calls = s.calls
  PROVE  Below(s, t)
<1>1. Below(s, s)
  BY BelowSelf
<1> QED
  BY <1>1 DEF Below

LEMMA StartingBelow ==
  ASSUME NEW s \in Spots, s.ended = "no", NEW i \in Indexes, NEW kind \in Kinds, Fresh(s, i)
  PROVE  Below(s, Starting(s, i, kind))
<1> DEFINE t == Starting(s, i, kind)
<1>1. /\ t \in Spots /\ t.text = s.text /\ t.reasoning = s.reasoning
      /\ t.calls = IF kind = "tool" THEN Append(s.calls, <<>>) ELSE s.calls
  BY StartingSpot
<1> HIDE DEF t
<1>2. CASE kind # "tool"
  BY <1>1, <1>2, SameBelow DEF t
<1>3. CASE kind = "tool"
  <2>1. Below(s, s) /\ s.calls \in Seq(Seq(Nat)) /\ Len(s.calls) \in Nat
    BY BelowSelf, SpotParts
  <2>2. <<>> \in Seq(Nat)
    OBVIOUS
  <2> DEFINE c == s.calls
             d == Append(c, <<>>)
  <2>3. Len(d) = Len(c) + 1 /\ \A n \in 1 .. Len(c) : d[n] = c[n]
    BY <2>1, <2>2, AppendProperties
  <2>4. t.calls = d
    BY <1>1, <1>3
  <2> HIDE DEF d
  <2> QED
    BY <1>1, <2>1, <2>3, <2>4 DEF Below, t
<1> QED
  BY <1>2, <1>3 DEF t

LEMMA SayingBelow ==
  ASSUME NEW s \in Spots, s.ended = "no", NEW i \in Indexes, NEW p \in Nat, s.kind[i] # "none"
  PROVE  Below(s, Saying(s, i, p))
<1> DEFINE t == Saying(s, i, p)
<1>1. t \in Spots /\ SaidMore(s, t, i, p)
  BY SayingSpot
<1> HIDE DEF t
<1>2. /\ s.text \in Seq(Nat) /\ s.reasoning \in Seq(Nat) /\ s.calls \in Seq(Seq(Nat))
      /\ Pieces(p) \in Seq(Nat) /\ Below(s, s) /\ Len(s.calls) \in Nat
  BY SpotParts, PieceSeq, BelowSelf
<1>3. StartOf(s.text, t.text) /\ StartOf(s.reasoning, t.reasoning)
  BY <1>1, <1>2, StartOfMore DEF SaidMore, Below
<1>4. CASE s.kind[i] # "tool"
  BY <1>1, <1>2, <1>3, <1>4 DEF Below, SaidMore, t
<1>5. CASE s.kind[i] = "tool"
  <2> DEFINE r == s.call[i]
             c == s.calls
             S == Seq(Nat)
             x == c[r] \o Pieces(p)
             d == [c EXCEPT ![r] = x]
  <2>1. r \in 1 .. Len(c) /\ c \in Seq(S)
    BY <1>2, <1>5, SpotParts DEF Numbered
  <2>2. c[r] \in S
    BY <2>1, ElementOfSeq
  <2>3. x \in S /\ StartOf(c[r], x)
    BY <1>2, <2>2, ConcatProperties, StartOfMore
  <2>4. t.calls = d
    BY <1>1, <1>5 DEF SaidMore
  <2> HIDE DEF r, x, S
  <2>5. Len(d) = Len(c) /\ \A n \in 1 .. Len(c) : d[n] = IF n = r THEN x ELSE c[n]
    BY <2>1, <2>3, ExceptSeq
  <2> HIDE DEF d
  <2>6. \A n \in 1 .. Len(c) : StartOf(c[n], d[n])
    BY <1>2, <2>3, <2>5 DEF Below
  <2> QED
    BY <1>2, <1>3, <2>4, <2>5, <2>6 DEF Below, t
<1> QED
  BY <1>4, <1>5 DEF t

LEMMA IndexOf ==
  ASSUME NEW e \in Event
  PROVE  /\ e.index \in Indexes /\ e.piece \in Nat /\ e.reason \in Reasons \cup {"none"}
         /\ e.type \in Types
         /\ Starts(e) => e.kind \in Kinds
BY DEF Event, Starts

LEMMA StepStays ==
  ASSUME NEW s \in Spots, NEW e \in Event, NEW t, Step(s, e, t)
  PROVE  t \in Spots /\ Below(s, t)
<1>1. CASE t = s
  BY <1>1, BelowSelf
<1>2. CASE t # s
  <2>1. s.ended = "no"
    BY <1>2 DEF Step
  <2>2. CASE Begins(s, e, t)
    BY <2>1, <2>2, BegunSpot, SameBelow DEF Begins
  <2>3. CASE Opens(s, e, t)
    BY <2>1, <2>3, IndexOf, StartingSpot, StartingBelow DEF Opens
  <2>4. CASE Speaks(s, e, t)
    BY <2>1, <2>4, IndexOf, SpotParts, SayingSpot, SayingBelow DEF Speaks
  <2>5. CASE Closes(s, e, t)
    BY <2>1, <2>5, ClosingSpot, SameBelow DEF Closes
  <2>6. CASE Stops(s, e, t)
    BY <2>1, <2>6, IndexOf, StoppingSpot, SameBelow DEF Stops
  <2>7. CASE Breaks(s, e, t)
    BY <2>1, <2>7, BrokenSpot, SameBelow DEF Breaks
  <2> QED
    BY <1>2, <2>2, <2>3, <2>4, <2>5, <2>6, <2>7 DEF Step
<1> QED
  BY <1>1, <1>2

-----------------------------------------------------------------------------

LEMMA LeadsNowhere ==
  ASSUME NEW s \in Spots
  PROVE  Leads(<<>>, s, s)
<1> DEFINE way == [n \in 0 .. 0 |-> s]
<1>1. way \in [0 .. Len(<<>>) -> Spots] /\ way[0] = s /\ Len(<<>>) = 0
  OBVIOUS
<1>2. Below(s, s)
  BY BelowSelf
<1>3. \A n \in 0 .. Len(<<>>) : Below(way[n], s)
  BY <1>2
<1>4. \A n \in 1 .. Len(<<>>) : Step(way[n - 1], <<>>[n], way[n])
  OBVIOUS
<1> HIDE DEF way
<1> QED
  BY <1>1, <1>3, <1>4 DEF Leads

LEMMA NowhereSame ==
  ASSUME NEW s, NEW t, Leads(<<>>, s, t)
  PROVE  s = t /\ s \in Spots
<1>1. Len(<<>>) = 0
  OBVIOUS
<1> QED
  BY <1>1 DEF Leads

LEMMA LeadsEnds ==
  ASSUME NEW ev \in Seq(Event), NEW s, NEW t, Leads(ev, s, t)
  PROVE  s \in Spots /\ t \in Spots /\ Below(s, t)
<1>1. Len(ev) \in Nat
  BY LenProperties
<1>2. 0 \in 0 .. Len(ev) /\ Len(ev) \in 0 .. Len(ev)
  BY <1>1
<1> QED
  BY <1>2 DEF Leads

LEMMA LeadsOne ==
  ASSUME NEW s \in Spots, NEW e \in Event, NEW t, Step(s, e, t)
  PROVE  Leads(<<e>>, s, t)
<1> DEFINE way == [n \in 0 .. 1 |-> IF n = 0 THEN s ELSE t]
<1>1. t \in Spots /\ Below(s, t) /\ Below(t, t)
  BY StepStays, BelowSelf
<1>2. Len(<<e>>) = 1 /\ <<e>>[1] = e
  OBVIOUS
<1>3. way \in [0 .. 1 -> Spots] /\ way[0] = s /\ way[1] = t
  BY <1>1
<1>4. \A n \in 0 .. 1 : Below(way[n], t)
  BY <1>1
<1>5. \A n \in 1 .. 1 : n = 1 /\ n - 1 = 0
  OBVIOUS
<1> DEFINE ev == <<e>>
<1> HIDE DEF way, ev
<1>6. Len(ev) = 1 /\ ev[1] = e
  BY <1>2 DEF ev
<1>7. \A n \in 1 .. 1 : Step(way[n - 1], ev[n], way[n])
  BY <1>3, <1>5, <1>6
<1>8. Leads(ev, s, t)
  BY <1>3, <1>4, <1>6, <1>7 DEF Leads
<1> QED
  BY <1>8 DEF ev

LEMMA LeadsOn ==
  ASSUME NEW a \in Seq(Event), NEW b \in Seq(Event), NEW s, NEW t, NEW u,
         Leads(a, s, t), Leads(b, t, u)
  PROVE  Leads(a \o b, s, u)
<1>1. Len(a) \in Nat /\ Len(b) \in Nat
  BY LenProperties
<1> DEFINE ev == a \o b
<1>2. /\ ev \in Seq(Event) /\ Len(ev) = Len(a) + Len(b)
      /\ \A i \in 1 .. Len(a) + Len(b) : ev[i] = IF i <= Len(a) THEN a[i] ELSE b[i - Len(a)]
  BY ConcatProperties
<1> HIDE DEF ev
<1>3. PICK v \in [0 .. Len(a) -> Spots] :
        /\ v[0] = s /\ v[Len(a)] = t
        /\ \A n \in 1 .. Len(a) : Step(v[n - 1], a[n], v[n])
        /\ \A n \in 0 .. Len(a) : Below(v[n], t)
  BY DEF Leads
<1>4. PICK w \in [0 .. Len(b) -> Spots] :
        /\ w[0] = t /\ w[Len(b)] = u
        /\ \A n \in 1 .. Len(b) : Step(w[n - 1], b[n], w[n])
        /\ \A n \in 0 .. Len(b) : Below(w[n], u)
  BY DEF Leads
<1>5. t \in Spots /\ u \in Spots /\ Below(t, u)
  BY LeadsEnds
<1> DEFINE M == Len(a)
           N == Len(b)
           way == [n \in 0 .. M + N |-> IF n <= M THEN v[n] ELSE w[n - M]]
<1>6. \A n \in 0 .. M + N : n > M => n - M \in 1 .. N
  BY <1>1
<1>7. way \in [0 .. Len(ev) -> Spots]
  <2>1. \A n \in 0 .. M + N : (IF n <= M THEN v[n] ELSE w[n - M]) \in Spots
    <3> TAKE n \in 0 .. M + N
    <3>1. CASE n <= M
      <4>1. n \in 0 .. M /\ (IF n <= M THEN v[n] ELSE w[n - M]) = v[n]
        BY <1>1, <3>1
      <4> QED
        BY <1>3, <4>1
    <3>2. CASE n > M
      BY <1>1, <1>4, <1>6, <3>2
    <3> QED
      BY <1>1, <3>1, <3>2
  <2> QED
    BY <1>2, <2>1
<1>8. way[0] = s /\ way[Len(ev)] = u
  <2>1. 0 \in 0 .. M + N /\ 0 <= M /\ Len(ev) \in 0 .. M + N
    BY <1>1, <1>2
  <2>2. CASE N = 0
    BY <1>1, <1>2, <1>3, <1>4, <2>1, <2>2
  <2>3. CASE N > 0
    BY <1>1, <1>2, <1>3, <1>4, <2>1, <2>3
  <2> QED
    BY <1>1, <2>2, <2>3
<1>9. ASSUME NEW n \in 1 .. M + N
      PROVE  Step(way[n - 1], ev[n], way[n])
  <2>0. n - 1 \in 0 .. M + N /\ n \in 0 .. M + N /\ n # 0
    BY <1>1
  <2>1. CASE n <= M
    <3>1. n \in 1 .. M /\ n - 1 <= M /\ ev[n] = a[n]
      BY <1>1, <1>2, <2>1
    <3>2. way[n - 1] = v[n - 1] /\ way[n] = v[n]
      BY <2>0, <2>1, <3>1
    <3> HIDE DEF way
    <3> QED
      BY <1>3, <3>1, <3>2
  <2>2. CASE n > M
    <3>1. n - M \in 1 .. N /\ ~(n <= M) /\ ev[n] = b[n - M] /\ n - 1 - M = n - M - 1
      BY <1>1, <1>2, <2>2
    <3>2. way[n] = w[n - M]
      BY <2>0, <3>1
    <3>3. way[n - 1] = w[n - M - 1]
      <4>1. CASE n - 1 = M
        BY <1>1, <1>3, <1>4, <2>0, <4>1
      <4>2. CASE n - 1 > M
        BY <1>1, <2>0, <3>1, <4>2
      <4> QED
        BY <1>1, <2>2, <4>1, <4>2
    <3> HIDE DEF way
    <3> QED
      BY <1>4, <3>1, <3>2, <3>3
  <2> QED
    BY <1>1, <2>1, <2>2
<1>10. ASSUME NEW n \in 0 .. M + N
       PROVE  Below(way[n], u)
  <2>1. CASE n <= M
    <3>1. way[n] = v[n] /\ v[n] \in Spots /\ Below(v[n], t)
      BY <1>1, <1>3, <2>1
    <3> QED
      BY <1>5, <3>1, BelowTrans
  <2>2. CASE n > M
    <3>1. way[n] = w[n - M] /\ n - M \in 0 .. N
      BY <1>1, <1>6, <2>2
    <3> QED
      BY <1>4, <3>1
  <2> QED
    BY <1>1, <2>1, <2>2
<1> HIDE DEF way
<1>11. Leads(ev, s, u)
  BY <1>2, <1>7, <1>8, <1>9, <1>10 DEF Leads
<1> QED
  BY <1>11 DEF ev

LEMMA LeadsAppend ==
  ASSUME NEW a \in Seq(Event), NEW e \in Event, NEW s, NEW t, NEW u,
         Leads(a, s, t), Step(t, e, u)
  PROVE  Leads(Append(a, e), s, u)
<1>1. Append(a, e) = a \o <<e>> /\ <<e>> \in Seq(Event)
  BY AppendIsConcat
<1>2. Leads(<<e>>, t, u)
  BY LeadsEnds, LeadsOne
<1> QED
  BY <1>1, <1>2, LeadsOn

LEMMA LeadsHead ==
  ASSUME NEW ev \in Seq(Event), ev # <<>>, NEW s, NEW t, Leads(ev, s, t)
  PROVE  \E u \in Spots : /\ Step(s, Head(ev), u) /\ Leads(Tail(ev), u, t)
                          /\ s \in Spots /\ t \in Spots /\ Below(s, u) /\ Below(u, t)
<1>1. Len(ev) \in Nat \ {0}
  BY EmptySeq
<1> DEFINE M == Len(ev)
           tl == Tail(ev)
<1>2. tl \in Seq(Event) /\ Len(tl) = M - 1 /\ \A i \in 1 .. Len(tl) : tl[i] = ev[i + 1]
  BY HeadTailProperties
<1>3. Head(ev) = ev[1] /\ Head(ev) \in Event
  BY HeadTailProperties
<1> HIDE DEF tl
<1>4. PICK v \in [0 .. M -> Spots] :
        /\ v[0] = s /\ v[M] = t
        /\ \A n \in 1 .. M : Step(v[n - 1], ev[n], v[n])
        /\ \A n \in 0 .. M : Below(v[n], t)
  BY DEF Leads
<1>5. v[1] \in Spots /\ Step(s, Head(ev), v[1]) /\ Below(v[1], t)
  <2>1. 1 \in 1 .. M /\ 1 \in 0 .. M /\ 1 - 1 = 0
    BY <1>1
  <2> QED
    BY <1>3, <1>4, <2>1
<1> DEFINE way == [n \in 0 .. M - 1 |-> v[n + 1]]
<1>6. \A n \in 0 .. M - 1 : n + 1 \in 0 .. M /\ n + 1 \in 1 .. M
  BY <1>1
<1>7. way \in [0 .. Len(tl) -> Spots]
  BY <1>2, <1>4, <1>6
<1>8. way[0] = v[1] /\ way[Len(tl)] = t
  BY <1>1, <1>2, <1>4
<1>9. ASSUME NEW n \in 1 .. Len(tl)
      PROVE  Step(way[n - 1], tl[n], way[n])
  <2>1. /\ n - 1 \in 0 .. M - 1 /\ n \in 0 .. M - 1 /\ n - 1 + 1 = n
        /\ n + 1 \in 1 .. M /\ n + 1 - 1 = n
    BY <1>1, <1>2
  <2>2. way[n - 1] = v[n] /\ way[n] = v[n + 1] /\ tl[n] = ev[n + 1]
    BY <1>2, <2>1
  <2> HIDE DEF way
  <2> QED
    BY <1>4, <2>1, <2>2
<1>10. \A n \in 0 .. Len(tl) : Below(way[n], t)
  BY <1>2, <1>4, <1>6
<1> HIDE DEF way
<1>11. Leads(tl, v[1], t)
  BY <1>7, <1>8, <1>9, <1>10 DEF Leads
<1>12. s \in Spots /\ t \in Spots /\ Below(s, v[1])
  BY <1>3, <1>5, LeadsEnds, StepStays
<1> QED
  BY <1>5, <1>11, <1>12 DEF tl

-----------------------------------------------------------------------------

(***************************************************************************)
(* Blocks and what a reader knows of them.                                 *)
(***************************************************************************)

RankOf(blocks, k) == Place(blocks, {"tool"}, k)
Alike(kind) == IF kind = "text" THEN {"text", "refusal"} ELSE {kind}

(* Block k is what a reader at s knows as block i: what it says next is    *)
(* said where the reader adds it.                                          *)
Stands(blocks, k, s, i) ==
  /\ k \in DOMAIN blocks
  /\ s.kind[i] \in Kinds /\ blocks[k].kind \in Alike(s.kind[i])
  /\ Newest(s, i) => \A j \in DOMAIN blocks : j > k => blocks[j].kind \notin Alike(s.kind[i])
  /\ s.kind[i] = "tool" => RankOf(blocks, k) = s.call[i]

Reads(blocks, s) == Text(blocks) = s.text /\ Reasoning(blocks) = s.reasoning
Tells(blocks, s) == Reads(blocks, s) /\ ToolCalls(blocks) = s.calls

(* What is said next of block i belongs at the end of block k.             *)
Takes(blocks, k, s, i) ==
  /\ k \in DOMAIN blocks
  /\ s.kind[i] \in Kinds /\ blocks[k].kind \in Alike(s.kind[i])
  /\ s.kind[i] # "tool" =>
       \A j \in DOMAIN blocks : j > k => blocks[j].kind \notin Alike(s.kind[i])
  /\ s.kind[i] = "tool" => RankOf(blocks, k) = s.call[i]

LEMMA StandsTakes ==
  ASSUME NEW b, NEW k, NEW s, NEW i, Stands(b, k, s, i), Newest(s, i) \/ s.kind[i] = "tool"
  PROVE  Takes(b, k, s, i)
BY DEF Stands, Takes

LEMMA AnswerTypes ==
  ASSUME NEW b \in Seq(Block)
  PROVE  Text(b) \in Seq(Nat) /\ Reasoning(b) \in Seq(Nat) /\ ToolCalls(b) \in Seq(Seq(Nat))
BY AnswersTyped DEF Text, Reasoning, ToolCalls

(* One block more.                                                         *)
LEMMA AnswersMore ==
  ASSUME NEW b \in Seq(Block), NEW x \in Block
  PROVE  /\ Text(Append(b, x)) = IF x.kind \in Alike("text") THEN Text(b) \o x.data ELSE Text(b)
         /\ Reasoning(Append(b, x)) =
              IF x.kind = "reasoning" THEN Reasoning(b) \o x.data ELSE Reasoning(b)
         /\ ToolCalls(Append(b, x)) =
              IF x.kind = "tool" THEN Append(ToolCalls(b), x.data) ELSE ToolCalls(b)
<1>1. Text(Append(b, x)) = IF x.kind \in Alike("text") THEN Text(b) \o x.data ELSE Text(b)
  BY DataOfMore DEF Text, Alike
<1>2. x.kind = "reasoning" <=> x.kind \in {"reasoning"}
  OBVIOUS
<1>3. Reasoning(Append(b, x)) =
              IF x.kind = "reasoning" THEN Reasoning(b) \o x.data ELSE Reasoning(b)
  BY <1>2, DataOfMore DEF Reasoning
<1>4. x.kind = "tool" <=> x.kind \in {"tool"}
  OBVIOUS
<1>5. ToolCalls(Append(b, x)) =
              IF x.kind = "tool" THEN Append(ToolCalls(b), x.data) ELSE ToolCalls(b)
  BY <1>4, DataOfMore DEF ToolCalls
<1> QED
  BY <1>1, <1>3, <1>5

(* The reader has learnt of block i, and of nothing else.                  *)
Adds(s, t, i, kind) ==
  /\ Fresh(s, i) /\ kind \in Kinds
  /\ t.kind[i] = kind
  /\ \A j \in Indexes : j # i => t.kind[j] = s.kind[j] /\ t.call[j] = s.call[j]
  /\ kind = "tool" => t.call[i] = Len(s.calls) + 1

LEMMA StandsStill ==
  ASSUME NEW b \in Seq(Block), NEW x \in Block, NEW s \in Spots, NEW t \in Spots,
         NEW i \in Indexes, NEW kind, Adds(s, t, i, kind), x.kind \in Alike(kind),
         NEW k, NEW j \in Indexes, Stands(b, k, s, j)
  PROVE  Stands(Append(b, x), k, t, j)
<1> DEFINE c == Append(b, x)
<1>1. /\ c \in Seq(Block) /\ Len(c) = Len(b) + 1 /\ Len(b) \in Nat
      /\ \A n \in 1 .. Len(b) : c[n] = b[n]
      /\ c[Len(b) + 1] = x
      /\ DOMAIN c = 1 .. Len(c) /\ DOMAIN b = 1 .. Len(b)
  BY AppendProperties, LenProperties
<1>2. k \in 1 .. Len(b) /\ k \in 0 .. Len(b) /\ k \in DOMAIN c /\ c[k] = b[k]
  BY <1>1 DEF Stands
<1>3. RankOf(c, k) = RankOf(b, k)
  BY <1>2, DataOfMore DEF RankOf, Place
<1> HIDE DEF c
<1>4. s.kind[j] \in Kinds /\ s.kind[j] # "none" /\ s.kind[i] = "none" /\ j < i
  BY DEF Stands, Adds, Fresh, Kinds, Indexes
<1>5. t.kind[j] = s.kind[j] /\ t.call[j] = s.call[j]
  BY <1>4 DEF Adds
<1>6. ASSUME Newest(t, j), NEW n \in DOMAIN c, n > k
      PROVE  c[n].kind \notin Alike(t.kind[j])
  <2>1. Newest(s, j)
    BY <1>4, <1>5, <1>6 DEF Newest, Adds
  <2>2. kind # s.kind[j] /\ kind \in Kinds
    BY <1>4, <1>5, <1>6 DEF Newest, Adds
  <2>3. x.kind \notin Alike(s.kind[j])
    BY <1>4, <2>2 DEF Alike, Kinds
  <2>4. n \in 1 .. Len(b) \/ n = Len(b) + 1
    BY <1>1, <1>6
  <2> QED
    BY <1>1, <1>5, <1>6, <2>1, <2>3, <2>4 DEF Stands
<1>7. Stands(c, k, t, j)
  BY <1>2, <1>3, <1>4, <1>5, <1>6 DEF Stands
<1> QED
  BY <1>7 DEF c

LEMMA StandsAtEnd ==
  ASSUME NEW b \in Seq(Block), NEW x \in Block, NEW s \in Spots, NEW t \in Spots,
         NEW i \in Indexes, NEW kind, Adds(s, t, i, kind), x.kind \in Alike(kind),
         ToolCalls(b) = s.calls
  PROVE  Stands(Append(b, x), Len(b) + 1, t, i)
<1> DEFINE c == Append(b, x)
           k == Len(b) + 1
<1>1. /\ c \in Seq(Block) /\ Len(c) = Len(b) + 1 /\ Len(b) \in Nat
      /\ c[Len(b) + 1] = x
      /\ DOMAIN c = 1 .. Len(c) /\ DOMAIN b = 1 .. Len(b)
  BY AppendProperties, LenProperties
<1>2. k \in DOMAIN c /\ c[k] = x /\ \A n \in DOMAIN c : ~(n > k)
  BY <1>1
<1>3. t.kind[i] = kind /\ kind \in Kinds
  BY DEF Adds
<1>4. ASSUME kind = "tool"
      PROVE  RankOf(c, k) = t.call[i]
  <2>1. x.kind = "tool"
    BY <1>4 DEF Alike
  <2>2. RankOf(c, k) = Len(ToolCalls(c))
    BY <1>1 DEF RankOf, Place, ToolCalls, DataOf
  <2>3. ToolCalls(c) = Append(s.calls, x.data) /\ x.data \in Seq(Nat)
    BY <2>1, AnswersMore DEF Block
  <2>4. s.calls \in Seq(Seq(Nat))
    BY SpotParts
  <2>5. Len(Append(s.calls, x.data)) = Len(s.calls) + 1
    BY <2>3, <2>4, AppendProperties
  <2> QED
    BY <1>4, <2>2, <2>3, <2>5 DEF Adds
<1> HIDE DEF c, k
<1>5. Stands(c, k, t, i)
  BY <1>2, <1>3, <1>4 DEF Stands
<1> QED
  BY <1>5 DEF c, k

(* Blocks of the same kinds.                                               *)
Aligned(b, c) ==
  Len(c) = Len(b) /\ \A n \in 1 .. Len(b) : c[n].kind = b[n].kind

LEMMA AlignedRanks ==
  ASSUME NEW b \in Seq(Block), NEW c \in Seq(Block), Aligned(b, c), NEW k \in DOMAIN b
  PROVE  RankOf(c, k) = RankOf(b, k) /\ DOMAIN c = DOMAIN b /\ c[k].kind = b[k].kind
<1>1. /\ Len(b) \in Nat /\ Len(c) = Len(b)
      /\ DOMAIN b = 1 .. Len(b) /\ DOMAIN c = 1 .. Len(c)
  BY LenProperties DEF Aligned
<1>2. \A n \in 1 .. Len(b) : b[n].kind \in {"tool"} <=> c[n].kind \in {"tool"}
  BY DEF Aligned
<1>3. Len(b) <= Len(b) /\ Len(b) <= Len(c) /\ k \in 0 .. Len(b)
  BY <1>1
<1>4. \A n \in 0 .. Len(b) : Len(DataUpTo(b, {"tool"})[n]) = Len(DataUpTo(c, {"tool"})[n])
  <2> DEFINE m == Len(b)
             kinds == {"tool"}
  <2>1. m \in Nat /\ m <= Len(b) /\ m <= Len(c)
    BY <1>1
  <2>2. \A n \in 1 .. m : b[n].kind \in kinds <=> c[n].kind \in kinds
    BY <1>2
  <2> HIDE DEF m, kinds
  <2>3. \A n \in 0 .. m : Len(DataUpTo(b, kinds)[n]) = Len(DataUpTo(c, kinds)[n])
    BY ZenonT(40), <2>1, <2>2, PlacesAgree
  <2> QED
    BY <2>3 DEF m, kinds
<1> QED
  BY <1>1, <1>3, <1>4 DEF RankOf, Place, Aligned

LEMMA StandsAligned ==
  ASSUME NEW b \in Seq(Block), NEW c \in Seq(Block), Aligned(b, c),
         NEW s, NEW t, t.kind = s.kind, t.call = s.call, NEW k, NEW i, Stands(b, k, s, i)
  PROVE  Stands(c, k, t, i)
<1>1. k \in DOMAIN b
  BY DEF Stands
<1>2. RankOf(c, k) = RankOf(b, k) /\ DOMAIN c = DOMAIN b
  BY <1>1, AlignedRanks
<1>3. \A n \in DOMAIN b : c[n].kind = b[n].kind
  BY AlignedRanks
<1> QED
  BY <1>1, <1>2, <1>3 DEF Stands, Newest

LEMMA AnswersAligned ==
  ASSUME NEW b \in Seq(Block), NEW c \in Seq(Block), Aligned(b, c),
         \A n \in 1 .. Len(b) : c[n].data = b[n].data
  PROVE  Text(c) = Text(b) /\ Reasoning(c) = Reasoning(b) /\ ToolCalls(c) = ToolCalls(b)
<1>1. Len(b) \in Nat /\ Len(c) = Len(b)
  BY LenProperties DEF Aligned
<1>2. ASSUME NEW kinds
      PROVE  DataOf(c, kinds) = DataOf(b, kinds) /\ Joined(c, kinds) = Joined(b, kinds)
  <2>1. Same(b, c, Len(b), kinds)
    BY <1>1 DEF Same, Aligned
  <2> QED
    BY <1>1, <2>1, SameAnswers
<1> QED
  BY <1>2 DEF Text, Reasoning, ToolCalls

(* A block that takes what is said of it.                                  *)
LEMMA GrowsAligned ==
  ASSUME NEW b, NEW c, NEW k, NEW more, Grows(b, c, k, more)
  PROVE  Aligned(b, c)
BY DEF Grows, Aligned

LEMMA OthersGrow ==
  ASSUME NEW b \in Seq(Block), NEW c \in Seq(Block), NEW k, NEW more \in Seq(Nat),
         Grows(b, c, k, more), NEW kinds, b[k].kind \notin kinds
  PROVE  DataOf(c, kinds) = DataOf(b, kinds) /\ Joined(c, kinds) = Joined(b, kinds)
<1>1. Len(b) \in Nat /\ Len(c) = Len(b)
  BY LenProperties DEF Grows
<1>2. Same(b, c, Len(b), kinds)
  BY <1>1 DEF Same, Grows
<1> QED
  BY <1>1, <1>2, SameAnswers

LEMMA TakesGrows ==
  ASSUME NEW b \in Seq(Block), NEW c \in Seq(Block), NEW s \in Spots, NEW t,
         NEW i \in Indexes, NEW k, NEW p \in Nat,
         Takes(b, k, s, i), SaidMore(s, t, i, p), Grows(b, c, k, Pieces(p))
  PROVE  /\ Reads(b, s) => Reads(c, t)
         /\ Text(b) = s.text => Text(c) = t.text
         /\ ToolCalls(b) = s.calls => ToolCalls(c) = t.calls
         /\ s.kind[i] # "tool" => ToolCalls(c) = ToolCalls(b)
<1>1. Pieces(p) \in Seq(Nat) /\ s.kind[i] \in Kinds /\ k \in DOMAIN b /\ DOMAIN b = 1 .. Len(b)
  BY PieceSeq, LenProperties DEF Takes
<1> DEFINE more == Pieces(p)
<1>2. more \in Seq(Nat) /\ Grows(b, c, k, more)
  BY <1>1
<1>3. CASE s.kind[i] = "text"
  <2> DEFINE kinds == {"text", "refusal"}
  <2>1. b[k].kind \in kinds /\ \A n \in 1 .. Len(b) : n > k => b[n].kind \notin kinds
    BY <1>1, <1>3 DEF Takes, Alike
  <2>2. b[k].kind \notin {"reasoning"} /\ b[k].kind \notin {"tool"}
    BY <2>1
  <2> HIDE DEF more, kinds
  <2>3. Joined(c, kinds) = Joined(b, kinds) \o more
    BY ZenonT(40), <1>2, <2>1, JoinedGrows
  <2>4. Joined(c, {"reasoning"}) = Joined(b, {"reasoning"}) /\ DataOf(c, {"tool"}) = DataOf(b, {"tool"})
    BY <1>2, <2>2, OthersGrow
  <2> QED
    BY <1>3, <2>3, <2>4 DEF Reads, Text, Reasoning, ToolCalls, SaidMore, more, kinds
<1>4. CASE s.kind[i] = "reasoning"
  <2> DEFINE kinds == {"reasoning"}
  <2>1. b[k].kind \in kinds /\ \A n \in 1 .. Len(b) : n > k => b[n].kind \notin kinds
    BY <1>1, <1>4 DEF Takes, Alike
  <2>2. b[k].kind \notin {"text", "refusal"} /\ b[k].kind \notin {"tool"}
    BY <2>1
  <2> HIDE DEF more, kinds
  <2>3. Joined(c, kinds) = Joined(b, kinds) \o more
    BY ZenonT(40), <1>2, <2>1, JoinedGrows
  <2>4. /\ Joined(c, {"text", "refusal"}) = Joined(b, {"text", "refusal"})
        /\ DataOf(c, {"tool"}) = DataOf(b, {"tool"})
    BY <1>2, <2>2, OthersGrow
  <2> QED
    BY <1>4, <2>3, <2>4 DEF Reads, Text, Reasoning, ToolCalls, SaidMore, more, kinds
<1>5. CASE s.kind[i] = "tool"
  <2> DEFINE kinds == {"tool"}
  <2>1. b[k].kind \in kinds /\ Place(b, kinds, k) = s.call[i]
    BY <1>1, <1>5 DEF Takes, Alike, RankOf
  <2>2. b[k].kind \notin {"text", "refusal"} /\ b[k].kind \notin {"reasoning"}
    BY <2>1
  <2> HIDE DEF more, kinds
  <2>3. DataOf(c, kinds) = Changed(DataOf(b, kinds), Place(b, kinds, k), more)
    BY <1>2, <2>1, DataGrows
  <2>4. /\ Joined(c, {"text", "refusal"}) = Joined(b, {"text", "refusal"})
        /\ Joined(c, {"reasoning"}) = Joined(b, {"reasoning"})
    BY <1>2, <2>2, OthersGrow
  <2> QED
    BY <1>5, <2>1, <2>3, <2>4 DEF Reads, Text, Reasoning, ToolCalls, SaidMore, more, kinds, Changed
<1> QED
  BY <1>1, <1>3, <1>4, <1>5 DEF Kinds

-----------------------------------------------------------------------------

(* What the client's view keeps of one frame.                              *)
Only(at, k) ==
  /\ k \in DOMAIN view.items /\ view.items[k].at = at /\ ~view.items[k].done
  /\ \A j \in DOMAIN view.items : view.items[j].at = at /\ ~view.items[j].done => j = k

LEMMA ItemsTyped ==
  ASSUME view \in View
  PROVE  /\ view.items \in Seq(Block) /\ Len(view.items) \in Nat
         /\ DOMAIN view.items = 1 .. Len(view.items)
         /\ \A k \in DOMAIN view.items : view.items[k] \in Block
         /\ view.faults \subseteq Faults /\ view.begun \in Nat
         /\ Len(view.ends) \in Nat /\ DOMAIN view.ends = 1 .. Len(view.ends)
<1>1. view.items \in Seq(Block)
  BY DEF View
<1>2. view.faults \subseteq Faults /\ view.begun \in Nat /\ Len(view.ends) \in Nat
      /\ DOMAIN view.ends = 1 .. Len(view.ends)
  BY LenProperties DEF View
<1> QED
  BY <1>1, <1>2, LenProperties, ElementOfSeq

LEMMA DeltaWritten ==
  ASSUME view \in View, NEW at \in Nat, NEW p \in Nat, NEW k, Only(at, k), WriteDelta(at, p)
  PROVE  /\ view'.items \in Seq(Block)
         /\ Grows(view.items, view'.items, k, Pieces(p))
         /\ \A j \in DOMAIN view.items :
              /\ view'.items[j].at = view.items[j].at /\ view'.items[j].done = view.items[j].done
              /\ view'.items[j].whole = view.items[j].whole
         /\ view'.begun = view.begun /\ view'.ends = view.ends
         /\ view'.faults = view.faults \cup Blames(FALSE)
<1>1. /\ view.items \in Seq(Block) /\ Len(view.items) \in Nat
      /\ DOMAIN view.items = 1 .. Len(view.items)
      /\ \A j \in DOMAIN view.items : view.items[j] \in Block
  BY ItemsTyped
<1>2. /\ view'.items = Grown(at, p) /\ view'.begun = view.begun /\ view'.ends = view.ends
      /\ view'.faults = view.faults \cup Blames(~IsOpen(at))
  BY DEF WriteDelta, View
<1>3. IsOpen(at)
  BY DEF IsOpen, Only
<1>4. view' \in View
  BY WriteDeltaTyped
<1>5. view'.items \in Seq(Block)
  BY <1>4, ItemsTyped DEF View
<1>6. DOMAIN view'.items = DOMAIN view.items
  BY <1>2 DEF Grown
<1>7. Len(view'.items) = Len(view.items)
  BY <1>1, <1>5, <1>6, LenProperties
<1>8. ASSUME NEW j \in DOMAIN view.items
      PROVE  /\ view'.items[j].at = view.items[j].at /\ view'.items[j].done = view.items[j].done
             /\ view'.items[j].whole = view.items[j].whole
             /\ view'.items[j].kind = view.items[j].kind
             /\ view'.items[j].data = IF j = k THEN view.items[j].data \o Pieces(p)
                                               ELSE view.items[j].data
  <2>1. view'.items[j] = IF view.items[j].at = at /\ ~view.items[j].done
                         THEN [view.items[j] EXCEPT !.data = @ \o Pieces(p)] ELSE view.items[j]
    BY <1>2 DEF Grown
  <2>2. view.items[j] \in Block
    BY <1>1
  <2>3. CASE j = k
    BY <2>1, <2>2, <2>3 DEF Only, Block
  <2>4. CASE j # k
    BY <2>1, <2>4 DEF Only
  <2> QED
    BY <2>3, <2>4
<1>9. Grows(view.items, view'.items, k, Pieces(p))
  BY <1>1, <1>7, <1>8 DEF Grows, Only
<1>10. (~IsOpen(at)) = FALSE
  BY <1>3
<1> QED
  BY <1>2, <1>5, <1>8, <1>9, <1>10

Finishes(b, c, k, whole) ==
  /\ Aligned(b, c)
  /\ \A j \in 1 .. Len(b) : c[j].data = b[j].data /\ c[j].at = b[j].at
  /\ \A j \in 1 .. Len(b) : j # k => c[j] = b[j]
  /\ c[k].done = TRUE /\ c[k].whole = whole

LEMMA DoneWritten ==
  ASSUME view \in View, NEW at \in Nat, NEW text \in Seq(Nat), NEW k, Only(at, k),
         WriteDone(at, text)
  PROVE  /\ view'.items \in Seq(Block) /\ Finishes(view.items, view'.items, k, text)
         /\ view'.begun = view.begun /\ view'.ends = view.ends
         /\ view'.faults = view.faults \cup Blames(FALSE)
<1>1. /\ view.items \in Seq(Block) /\ Len(view.items) \in Nat
      /\ DOMAIN view.items = 1 .. Len(view.items)
      /\ \A j \in DOMAIN view.items : view.items[j] \in Block
  BY ItemsTyped
<1>2. /\ view'.items = Finished(at, text) /\ view'.begun = view.begun /\ view'.ends = view.ends
      /\ view'.faults = view.faults \cup Blames(~IsOpen(at))
  BY DEF WriteDone, View
<1>3. (~IsOpen(at)) = FALSE
  BY DEF IsOpen, Only
<1>4. view' \in View
  BY WriteDoneTyped
<1>5. view'.items \in Seq(Block)
  BY <1>4 DEF View
<1>6. DOMAIN view'.items = DOMAIN view.items
  BY <1>2 DEF Finished
<1>7. Len(view'.items) = Len(view.items)
  BY <1>1, <1>5, <1>6, LenProperties
<1>8. ASSUME NEW j \in DOMAIN view.items
      PROVE  /\ view'.items[j].at = view.items[j].at
             /\ view'.items[j].kind = view.items[j].kind
             /\ view'.items[j].data = view.items[j].data
             /\ j # k => view'.items[j] = view.items[j]
             /\ j = k => view'.items[j].done = TRUE /\ view'.items[j].whole = text
  <2>1. view'.items[j] = IF view.items[j].at = at /\ ~view.items[j].done
                         THEN [view.items[j] EXCEPT !.done = TRUE, !.whole = text] ELSE view.items[j]
    BY <1>2 DEF Finished
  <2>2. view.items[j] \in Block
    BY <1>1
  <2>3. CASE j = k
    BY <2>1, <2>2, <2>3 DEF Only, Block
  <2>4. CASE j # k
    BY <2>1, <2>4 DEF Only
  <2> QED
    BY <2>3, <2>4
<1>9. Aligned(view.items, view'.items)
  BY <1>1, <1>7, <1>8 DEF Aligned
<1>10. k \in DOMAIN view.items
  BY DEF Only
<1>11. Finishes(view.items, view'.items, k, text)
  BY <1>1, <1>8, <1>9, <1>10 DEF Finishes
<1> QED
  BY <1>2, <1>3, <1>5, <1>11

LEMMA ItemWritten ==
  ASSUME view \in View, NEW at \in Nat, NEW kind \in Kinds \cup {"refusal"},
         NEW data \in Seq(Nat), WriteItem(at, kind, data)
  PROVE  /\ Opened(at, kind, data) \in Block
         /\ view'.items = Append(view.items, Opened(at, kind, data))
         /\ Len(view'.items) = Len(view.items) + 1
         /\ view'.items[Len(view.items) + 1] = Opened(at, kind, data)
         /\ \A j \in DOMAIN view.items : view'.items[j] = view.items[j]
         /\ view'.begun = view.begun /\ view'.ends = view.ends
         /\ view'.faults = view.faults \cup Blames(IsOpen(at))
<1>1. Opened(at, kind, data) \in Block
  BY DEF Opened, Block
<1>2. view.items \in Seq(Block)
  BY DEF View
<1>3. /\ view'.items = Append(view.items, Opened(at, kind, data))
      /\ view'.begun = view.begun /\ view'.ends = view.ends
      /\ view'.faults = view.faults \cup Blames(IsOpen(at))
  BY DEF WriteItem, View
<1> DEFINE x == Opened(at, kind, data)
<1> HIDE DEF x
<1>4. /\ Len(Append(view.items, x)) = Len(view.items) + 1
      /\ Append(view.items, x)[Len(view.items) + 1] = x
      /\ \A j \in 1 .. Len(view.items) : Append(view.items, x)[j] = view.items[j]
  BY <1>1, <1>2, AppendProperties DEF x
<1> QED
  BY <1>1, <1>2, <1>3, <1>4, LenProperties DEF x

LEMMA EndWritten ==
  ASSUME view \in View, NEW status, NEW reason, NEW output, WriteEnd(status, reason, output),
         view.ends = <<>>
  PROVE  /\ view'.items = view.items /\ view'.begun = view.begun
         /\ Len(view'.ends) = 1 /\ DOMAIN view'.ends = {1}
         /\ view'.ends[1] = [status |-> status, reason |-> reason, output |-> output]
         /\ view'.faults = view.faults \cup Blames(FALSE)
<1> DEFINE x == [status |-> status, reason |-> reason, output |-> output]
<1>1. /\ view'.items = view.items /\ view'.begun = view.begun
      /\ view'.ends = Append(<<>>, x)
      /\ view'.faults = view.faults \cup Blames(FALSE)
  BY DEF WriteEnd, View
<1> HIDE DEF x
<1>2. Append(<<>>, x) = <<x>> /\ Len(<<x>>) = 1 /\ DOMAIN <<x>> = {1} /\ <<x>>[1] = x
  OBVIOUS
<1> QED
  BY <1>1, <1>2 DEF x

LEMMA NoBlame ==
  ASSUME view \in View
  PROVE  /\ view.begun # 0 => Blames(FALSE) \subseteq {"late"}
         /\ view.begun # 0 /\ view.ends = <<>> => Blames(FALSE) = {}
BY DEF Blames, View

LEMMA NoneEnded ==
  ASSUME view \in View
  PROVE  /\ Len(view.ends) = 0 <=> view.ends = <<>>
         /\ Succeeded => view.ends # <<>>
         /\ Len(view.ends) = 1 => (Succeeded <=> view.ends[1].status # "failed")
<1> DEFINE Written == [status : Statuses, reason : Reasons \cup {"none"}, output : Seq(Block)]
<1>1. view.ends \in Seq(Written)
  BY DEF View
<1> HIDE DEF Written
<1>2. DOMAIN view.ends = 1 .. Len(view.ends) /\ Len(view.ends) \in Nat
  BY <1>1, LenProperties
<1>3. Len(view.ends) = 0 <=> view.ends = <<>>
  BY <1>1, EmptySeq
<1> QED
  BY <1>2, <1>3 DEF Succeeded

-----------------------------------------------------------------------------

(* The Responses encoder knows how far its client is, whatever the         *)
(* upstream does: only deltas of blocks that response.failed left open     *)
(* come late.                                                              *)
Counted ==
  /\ view.begun = IF toResponses.started THEN 1 ELSE 0
  /\ Len(view.ends) = IF toResponses.stopped THEN 1 ELSE 0
  /\ toResponses.stopped => toResponses.started
  /\ view.items # <<>> => toResponses.started
  /\ view.faults \subseteq {"late"}
  /\ ~toResponses.stopped => view.faults = {}
  /\ Succeeded =>
       /\ view.faults = {}
       /\ \A i \in Indexes : BlockOf(i) = 0
       /\ view.ends[1].output = toResponses.output

(* Its output is what the client has of each item, and its open blocks are *)
(* the open items.                                                         *)
Recounted(k) ==
  /\ view.items[k].at = k
  /\ view.items[k].kind = toResponses.output[k].kind
  /\ view.items[k].done = toResponses.output[k].done
  /\ view.items[k].done =>
       /\ view.items[k].whole = view.items[k].data
       /\ toResponses.output[k].whole = view.items[k].data
  /\ ~view.items[k].done => \E i \in Indexes : BlockOf(i) = k

Tracked(i) ==
  BlockOf(i) # 0 =>
    /\ BlockOf(i) \in DOMAIN view.items
    /\ ~view.items[BlockOf(i)].done
    /\ toResponses.text[i] = view.items[BlockOf(i)].data
    /\ \A j \in Indexes : BlockOf(j) = BlockOf(i) => j = i

Mirrored ==
  /\ Len(view.items) = Len(toResponses.output)
  /\ \A k \in DOMAIN view.items : Recounted(k)
  /\ \A i \in Indexes : Tracked(i)

Framed == pipe.to = "responses" => Counted /\ Mirrored

LEMMA EncoderParts ==
  ASSUME EncodersTyped
  PROVE  /\ view \in View /\ toResponses \in ResponsesEncoder
         /\ toResponses.output \in Seq(Block) /\ Len(toResponses.output) \in Nat
         /\ DOMAIN toResponses.output = 1 .. Len(toResponses.output)
         /\ toResponses.started \in BOOLEAN /\ toResponses.stopped \in BOOLEAN
         /\ \A i \in Indexes : BlockOf(i) \in Nat /\ toResponses.text[i] \in Seq(Nat)
BY LenProperties DEF EncodersTyped, ResponsesEncoder, BlockOf

LEMMA TrackedOnly ==
  ASSUME EncodersTyped, Mirrored, NEW i \in Indexes, BlockOf(i) # 0
  PROVE  /\ BlockOf(i) \in Nat /\ BlockOf(i) \in DOMAIN view.items
         /\ Only(BlockOf(i), BlockOf(i))
         /\ toResponses.text[i] = view.items[BlockOf(i)].data
BY EncoderParts DEF Mirrored, Tracked, Recounted, Only

LEMMA StartResponseFramed ==
  ASSUME EncodersTyped, Counted, Mirrored, ~toResponses.started, StartResponse
  PROVE  (Counted /\ Mirrored)' /\ view.begun = 0 /\ view.ends = <<>> /\ view'.faults = view.faults
<1>1. /\ view'.begun = view.begun + 1 /\ view'.items = view.items /\ view'.ends = view.ends
      /\ view'.faults = view.faults \cup (Blames(view.begun > 0) \ {"early"})
  BY EncoderParts DEF StartResponse, WriteBegin, View
<1>2. /\ toResponses'.started /\ toResponses'.stopped = toResponses.stopped
      /\ toResponses'.blocks = toResponses.blocks /\ toResponses'.text = toResponses.text
      /\ toResponses'.output = toResponses.output
  BY EncoderParts DEF StartResponse, ResponsesEncoder
<1>3. view.begun = 0 /\ view.ends = <<>>
  BY EncoderParts, NoneEnded DEF Counted
<1>4. view'.faults = view.faults
  BY <1>1, <1>3 DEF Blames
<1>5. Counted'
  BY <1>1, <1>2, <1>3, <1>4 DEF Counted, Succeeded, BlockOf
<1>6. Mirrored'
  BY <1>1, <1>2 DEF Mirrored, Recounted, Tracked, BlockOf
<1> QED
  BY <1>3, <1>4, <1>5, <1>6

LEMMA StartContentFramed ==
  ASSUME EncodersTyped, Counted, Mirrored, NEW e \in Event, e.kind \in Kinds,
         Active, BlockOf(e.index) = 0, StartContent(e)
  PROVE  (Counted /\ Mirrored)' /\ view.begun = 1 /\ view.ends = <<>> /\ view'.faults = view.faults
         /\ view'.begun = view.begun /\ view'.ends = view.ends
<1> DEFINE n == Len(toResponses.output) + 1
           kind == IF e.kind = "text" /\ toResponses.refusalMode THEN "refusal" ELSE e.kind
           text == IF kind = "tool" THEN <<>> ELSE Pieces(e.piece)
           x == Opened(n, kind, <<>>)
           output == Append(toResponses.output, x)
<1>1. /\ toResponses'.started = toResponses.started /\ toResponses'.stopped = toResponses.stopped
      /\ toResponses'.output = output
      /\ \A i \in Indexes : BlockOf(i)' = IF i = e.index THEN n ELSE BlockOf(i)
      /\ \A i \in Indexes : toResponses'.text[i] = IF i = e.index THEN text ELSE toResponses.text[i]
      /\ WriteItem(n, kind, text)
  <2>1. e.index \in Indexes
    BY EventFields
  <2> HIDE DEF n, kind, text, output
  <2>2. /\ toResponses' = [toResponses EXCEPT !.blocks[e.index] = n, !.text[e.index] = text,
                             !.output = output]
        /\ WriteItem(n, kind, text)
    BY DEF StartContent, n, kind, text, output
  <2> QED
    BY <2>1, <2>2, EncoderParts DEF ResponsesEncoder, BlockOf
<1>2. /\ e.index \in Indexes /\ n \in Nat /\ kind \in Kinds \cup {"refusal"}
      /\ text \in Seq(Nat) /\ <<>> \in Seq(Nat) /\ toResponses.output \in Seq(Block)
      /\ n = Len(view.items) + 1 /\ n # 0
  BY EventFields, EncoderParts DEF Mirrored
<1> HIDE DEF kind, text
<1>3. /\ x \in Block /\ x.kind = kind /\ ~x.done /\ n \notin DOMAIN view.items
  BY <1>2, EncoderParts, ItemsTyped DEF Opened, Block
<1> HIDE DEF n, x
<1>4. /\ Len(output) = n /\ output[n] = x
      /\ \A k \in 1 .. Len(toResponses.output) : output[k] = toResponses.output[k]
  <2>1. n = Len(toResponses.output) + 1
    BY DEF n
  <2> QED
    BY <1>2, <1>3, <2>1, AppendProperties
<1> HIDE DEF output
<1>5. /\ Len(view'.items) = n /\ view'.items[n] = Opened(n, kind, text)
      /\ \A j \in DOMAIN view.items : view'.items[j] = view.items[j]
      /\ view'.items = Append(view.items, Opened(n, kind, text))
      /\ view'.begun = view.begun /\ view'.ends = view.ends
      /\ view'.faults = view.faults \cup Blames(IsOpen(n))
  BY <1>1, <1>2, EncoderParts, ItemWritten
<1>6. view.begun = 1 /\ view.ends = <<>> /\ toResponses.started /\ ~toResponses.stopped
  BY EncoderParts, NoneEnded DEF Counted, Active
<1>7. \A k \in DOMAIN view.items : view.items[k].at = k
  BY DEF Mirrored, Recounted
<1>8. IsOpen(n) = FALSE
  BY <1>3, <1>7 DEF IsOpen
<1>9. Blames(FALSE) = {}
  <2>1. view.begun # 0 /\ view \in View
    BY <1>6, EncoderParts
  <2> QED
    BY <1>6, <2>1, NoBlame
<1>10. view'.faults = view.faults
  BY <1>5, <1>8, <1>9
<1>11. ~Succeeded'
  BY <1>5, <1>6 DEF Succeeded
<1>12. Counted'
  BY <1>1, <1>5, <1>6, <1>10, <1>11 DEF Counted
<1>13. /\ DOMAIN view.items = 1 .. Len(view.items) /\ Len(view.items) \in Nat
       /\ DOMAIN view'.items = 1 .. Len(view.items) + 1
  BY <1>2, <1>3, <1>5, EncoderParts, ItemsTyped, AppendProperties, ItemWritten, LenProperties
<1>14. Len(view'.items) = Len(toResponses'.output)
  BY <1>1, <1>4, <1>5
<1>15. ASSUME NEW k \in DOMAIN view'.items
       PROVE  Recounted(k)'
  <2>1. CASE k = n
    <3>1. view'.items[k] = Opened(n, kind, text) /\ toResponses'.output[k] = x
      BY <1>1, <1>4, <1>5, <2>1
    <3>2. BlockOf(e.index)' = k
      BY <1>1, <1>2, <2>1
    <3>3. /\ view'.items[k].at = k /\ view'.items[k].kind = kind
          /\ view'.items[k].done = FALSE /\ x.done = FALSE
      BY <1>2, <2>1, <3>1 DEF Opened, x
    <3>4. \E i \in Indexes : BlockOf(i)' = k
      BY <1>2, <3>2
    <3> QED
      BY <1>3, <3>1, <3>3, <3>4 DEF Recounted
  <2>2. CASE k # n
    <3>1. k \in DOMAIN view.items /\ k \in 1 .. Len(toResponses.output)
      BY <1>2, <1>13, <2>2 DEF Mirrored
    <3>2. view'.items[k] = view.items[k] /\ toResponses'.output[k] = toResponses.output[k]
      BY <1>1, <1>4, <1>5, <3>1
    <3>3. Recounted(k)
      BY <3>1 DEF Mirrored
    <3>4. ~view.items[k].done => \E i \in Indexes : BlockOf(i)' = k
      <4>1. SUFFICES ASSUME NEW i \in Indexes, BlockOf(i) = k
                     PROVE  BlockOf(i)' = k
        BY <3>3 DEF Recounted
      <4>2. k # 0
        BY <1>13, <3>1
      <4> QED
        BY <1>1, <4>1, <4>2
    <3> QED
      BY <3>2, <3>3, <3>4 DEF Recounted
  <2> QED
    BY <2>1, <2>2
<1>16. ASSUME NEW i \in Indexes
       PROVE  Tracked(i)'
  <2>1. CASE i = e.index
    <3>1. BlockOf(i)' = n /\ toResponses'.text[i] = text /\ n \in DOMAIN view'.items
      BY <1>1, <1>2, <1>13, <2>1
    <3>2. view'.items[n].data = text /\ ~view'.items[n].done
      BY <1>5 DEF Opened
    <3>3. ASSUME NEW j \in Indexes, BlockOf(j)' = n
          PROVE  j = i
      <4>1. CASE j # e.index
        BY <1>1, <1>2, <1>3, <3>3, <4>1 DEF Mirrored, Tracked
      <4> QED
        BY <2>1, <4>1
    <3> QED
      BY <3>1, <3>2, <3>3 DEF Tracked
  <2>2. CASE i # e.index /\ BlockOf(i) # 0
    <3>1. BlockOf(i)' = BlockOf(i) /\ toResponses'.text[i] = toResponses.text[i]
      BY <1>1, <2>2
    <3>2. Tracked(i) /\ BlockOf(i) \in DOMAIN view.items
      BY <2>2 DEF Mirrored, Tracked
    <3>3. view'.items[BlockOf(i)] = view.items[BlockOf(i)] /\ BlockOf(i) \in DOMAIN view'.items
      BY <1>5, <1>13, <3>2
    <3>4. ASSUME NEW j \in Indexes, BlockOf(j)' = BlockOf(i)
          PROVE  j = i
      <4>1. j # e.index
        BY <1>1, <1>3, <3>2, <3>4
      <4> QED
        BY <1>1, <2>2, <3>2, <3>4, <4>1 DEF Tracked
    <3> QED
      BY <2>2, <3>1, <3>2, <3>3, <3>4 DEF Tracked
  <2>3. CASE i # e.index /\ BlockOf(i) = 0
    BY <1>1, <2>3 DEF Tracked
  <2> QED
    BY <2>1, <2>2, <2>3
<1>17. Mirrored'
  BY <1>14, <1>15, <1>16 DEF Mirrored
<1> QED
  BY <1>5, <1>6, <1>10, <1>12, <1>17

-----------------------------------------------------------------------------

LEMMA ContentDeltaFramed ==
  ASSUME EncodersTyped, Counted, Mirrored, NEW e \in Event, BlockOf(e.index) # 0,
         WriteContentDelta(e)
  PROVE  /\ (Counted /\ Mirrored)' /\ view.begun = 1
         /\ Grows(view.items, view'.items, BlockOf(e.index), Pieces(e.piece))
         /\ \A i \in Indexes : BlockOf(i)' = BlockOf(i)
         /\ view'.begun = view.begun /\ view'.ends = view.ends
         /\ view'.faults = view.faults \cup Blames(FALSE)
<1> DEFINE n == BlockOf(e.index)
           text == toResponses.text[e.index] \o Pieces(e.piece)
<1>1. /\ e.index \in Indexes /\ e.piece \in Nat /\ Pieces(e.piece) \in Seq(Nat)
      /\ n \in Nat /\ Only(n, n) /\ n \in DOMAIN view.items
      /\ toResponses.text[e.index] = view.items[n].data /\ view \in View
  BY EventFields, EncoderParts, TrackedOnly
<1>2. /\ toResponses'.started = toResponses.started /\ toResponses'.stopped = toResponses.stopped
      /\ toResponses'.output = toResponses.output
      /\ \A i \in Indexes : BlockOf(i)' = BlockOf(i)
      /\ \A i \in Indexes : toResponses'.text[i] = IF i = e.index THEN text ELSE toResponses.text[i]
      /\ WriteDelta(n, e.piece)
  <2> HIDE DEF text
  <2>1. toResponses' = [toResponses EXCEPT !.text[e.index] = text] /\ WriteDelta(n, e.piece)
    BY DEF WriteContentDelta, text
  <2> QED
    BY <1>1, <2>1, EncoderParts DEF ResponsesEncoder, BlockOf
<1>3. /\ Grows(view.items, view'.items, n, Pieces(e.piece))
      /\ \A j \in DOMAIN view.items :
           /\ view'.items[j].at = view.items[j].at /\ view'.items[j].done = view.items[j].done
           /\ view'.items[j].whole = view.items[j].whole
      /\ view'.begun = view.begun /\ view'.ends = view.ends
      /\ view'.faults = view.faults \cup Blames(FALSE)
      /\ view'.items \in Seq(Block)
  BY <1>1, <1>2, DeltaWritten
<1>4. /\ Len(view'.items) = Len(view.items) /\ DOMAIN view'.items = DOMAIN view.items
      /\ \A j \in DOMAIN view.items :
           /\ view'.items[j].kind = view.items[j].kind
           /\ view'.items[j].data = IF j = n THEN view.items[j].data \o Pieces(e.piece)
                                             ELSE view.items[j].data
  BY <1>1, <1>3, ItemsTyped, LenProperties DEF Grows
<1>5. view.begun = 1 /\ toResponses.started /\ view.begun # 0
  BY <1>1 DEF Counted
<1>6. Blames(FALSE) \subseteq {"late"} /\ (view.ends = <<>> => Blames(FALSE) = {})
  BY <1>1, <1>5, NoBlame
<1>7. ~Succeeded
  BY <1>1 DEF Counted
<1>8. ~Succeeded'
  BY <1>3, <1>7 DEF Succeeded
<1>9. Counted'
  BY <1>1, <1>2, <1>3, <1>5, <1>6, <1>8, NoneEnded DEF Counted
<1>10. ASSUME NEW k \in DOMAIN view'.items
       PROVE  Recounted(k)'
  <2>1. k \in DOMAIN view.items /\ Recounted(k)
    BY <1>4 DEF Mirrored
  <2>2. view.items[k].done => k # n
    BY <1>1 DEF Only
  <2>3. ~view.items[k].done => \E i \in Indexes : BlockOf(i)' = k
    BY <1>2, <2>1 DEF Recounted
  <2> QED
    BY <1>2, <1>3, <1>4, <2>1, <2>2, <2>3 DEF Recounted
<1>11. ASSUME NEW i \in Indexes
       PROVE  Tracked(i)'
  <2>1. Tracked(i)
    BY DEF Mirrored
  <2>2. i # e.index /\ BlockOf(i) # 0 => BlockOf(i) # n
    BY <1>1, <2>1 DEF Tracked
  <2>3. CASE i = e.index
    <3>1. /\ BlockOf(i)' = n /\ toResponses'.text[i] = view'.items[n].data
          /\ n \in DOMAIN view'.items /\ ~view'.items[n].done
      BY <1>1, <1>2, <1>3, <1>4, <2>3 DEF Only
    <3> QED
      BY <1>1, <1>2, <2>1, <2>3, <3>1 DEF Tracked
  <2>4. CASE i # e.index /\ BlockOf(i) # 0
    <3>1. /\ BlockOf(i)' = BlockOf(i) /\ toResponses'.text[i] = toResponses.text[i]
          /\ BlockOf(i) \in DOMAIN view'.items /\ ~view'.items[BlockOf(i)].done
          /\ view'.items[BlockOf(i)].data = view.items[BlockOf(i)].data
      BY <1>2, <1>3, <1>4, <2>1, <2>2, <2>4 DEF Tracked
    <3> QED
      BY <1>2, <2>1, <2>4, <3>1 DEF Tracked
  <2>5. CASE i # e.index /\ BlockOf(i) = 0
    BY <1>2, <2>5 DEF Tracked
  <2> QED
    BY <2>3, <2>4, <2>5
<1>12. Mirrored'
  BY <1>2, <1>4, <1>10, <1>11 DEF Mirrored
<1> QED
  BY <1>2, <1>3, <1>5, <1>9, <1>12

LEMMA StopContentFramed ==
  ASSUME EncodersTyped, Counted, Mirrored, NEW e \in Event, BlockOf(e.index) # 0,
         StopContent(e)
  PROVE  /\ (Counted /\ Mirrored)' /\ view.begun = 1
         /\ view'.items \in Seq(Block) /\ Aligned(view.items, view'.items)
         /\ \A j \in 1 .. Len(view.items) : view'.items[j].data = view.items[j].data
         /\ \A i \in Indexes : BlockOf(i)' = IF i = e.index THEN 0 ELSE BlockOf(i)
         /\ view'.begun = view.begun /\ view'.ends = view.ends
         /\ view'.faults = view.faults \cup Blames(FALSE)
<1> DEFINE n == BlockOf(e.index)
           text == toResponses.text[e.index]
           output == [toResponses.output EXCEPT ![n].done = TRUE, ![n].whole = text]
<1>1. /\ e.index \in Indexes
      /\ n \in Nat /\ n # 0 /\ Only(n, n) /\ n \in DOMAIN view.items
      /\ text = view.items[n].data /\ text \in Seq(Nat) /\ view \in View
      /\ toResponses.output \in Seq(Block)
  BY EventFields, EncoderParts, TrackedOnly
<1>2. /\ toResponses'.started = toResponses.started /\ toResponses'.stopped = toResponses.stopped
      /\ toResponses'.output = output
      /\ \A i \in Indexes : BlockOf(i)' = IF i = e.index THEN 0 ELSE BlockOf(i)
      /\ \A i \in Indexes : toResponses'.text[i] = toResponses.text[i]
      /\ WriteDone(n, text)
  <2>1. /\ toResponses' = [toResponses EXCEPT !.blocks[e.index] = 0, !.output = output]
        /\ WriteDone(n, text)
    BY DEF StopContent
  <2> HIDE DEF text, n, output
  <2> QED
    BY <1>1, <2>1, EncoderParts DEF ResponsesEncoder, BlockOf
<1> HIDE DEF text
<1>3. /\ Aligned(view.items, view'.items) /\ view'.items \in Seq(Block)
      /\ \A j \in 1 .. Len(view.items) : view'.items[j].data = view.items[j].data
      /\ \A j \in DOMAIN view.items : view'.items[j].at = view.items[j].at
      /\ \A j \in DOMAIN view.items : j # n => view'.items[j] = view.items[j]
      /\ view'.items[n].done = TRUE /\ view'.items[n].whole = text
      /\ view'.begun = view.begun /\ view'.ends = view.ends
      /\ view'.faults = view.faults \cup Blames(FALSE)
  <2>1. view \in View /\ n \in Nat /\ text \in Seq(Nat) /\ Only(n, n) /\ WriteDone(n, text)
    BY <1>1, <1>2
  <2> HIDE DEF n
  <2>2. /\ view'.items \in Seq(Block) /\ Finishes(view.items, view'.items, n, text)
        /\ view'.begun = view.begun /\ view'.ends = view.ends
        /\ view'.faults = view.faults \cup Blames(FALSE)
    BY <2>1, DoneWritten
  <2> QED
    BY <2>1, <2>2, ItemsTyped DEF Finishes
<1>4. /\ Len(view'.items) = Len(view.items) /\ DOMAIN view'.items = DOMAIN view.items
      /\ \A j \in DOMAIN view.items : view'.items[j].kind = view.items[j].kind
      /\ DOMAIN view.items = 1 .. Len(view.items)
  BY <1>1, <1>3, ItemsTyped, LenProperties DEF Aligned
<1>5. /\ DOMAIN output = DOMAIN toResponses.output /\ Len(output) = Len(toResponses.output)
      /\ \A j \in DOMAIN view.items : j # n => output[j] = toResponses.output[j]
      /\ output[n].done = TRUE /\ output[n].whole = text
      /\ output[n].kind = toResponses.output[n].kind
  <2>1. /\ DOMAIN toResponses.output = 1 .. Len(toResponses.output)
        /\ Len(toResponses.output) = Len(view.items) /\ Len(view.items) \in Nat
    BY <1>1, EncoderParts, ItemsTyped DEF Mirrored
  <2>2. toResponses.output[n] \in Block /\ n \in DOMAIN toResponses.output
    BY <1>1, <1>4, <2>1, ElementOfSeq
  <2>3. DOMAIN output = 1 .. Len(view.items)
    BY <2>1
  <2>4. Len(output) = Len(view.items)
    BY <2>1, <2>3
  <2>5. output[n] = [toResponses.output[n] EXCEPT !.done = TRUE, !.whole = text]
    BY <2>2
  <2>6. output[n].done = TRUE /\ output[n].whole = text
        /\ output[n].kind = toResponses.output[n].kind
    BY <2>2, <2>5 DEF Block
  <2>7. \A j \in DOMAIN view.items : j # n => output[j] = toResponses.output[j]
    BY <1>4, <2>1
  <2> QED
    BY <2>1, <2>3, <2>4, <2>6, <2>7
<1> HIDE DEF output
<1>6. view.begun = 1 /\ toResponses.started /\ view.begun # 0
  BY <1>1 DEF Counted
<1>7. Blames(FALSE) \subseteq {"late"} /\ (view.ends = <<>> => Blames(FALSE) = {})
  BY <1>1, <1>6, NoBlame
<1>8. ~Succeeded
  BY <1>1 DEF Counted
<1>9. ~Succeeded'
  BY <1>3, <1>8 DEF Succeeded
<1>10. Counted'
  BY <1>1, <1>2, <1>3, <1>6, <1>7, <1>9, NoneEnded DEF Counted
<1>11. ASSUME NEW k \in DOMAIN view'.items
       PROVE  Recounted(k)'
  <2>1. k \in DOMAIN view.items /\ Recounted(k)
    BY <1>4 DEF Mirrored
  <2>2. CASE k = n
    <3>1. view'.items[k].done = TRUE
      BY <1>3, <2>2
    <3>2. view'.items[k].data = text
      BY <1>1, <1>3, <1>4, <2>2
    <3> QED
      BY <1>2, <1>3, <1>4, <1>5, <2>1, <2>2, <3>1, <3>2 DEF Recounted
  <2>3. CASE k # n
    <3>1. view'.items[k] = view.items[k] /\ toResponses'.output[k] = toResponses.output[k]
      BY <1>2, <1>3, <1>5, <2>1, <2>3
    <3>2. ~view.items[k].done => \E i \in Indexes : BlockOf(i)' = k
      BY <1>2, <2>1, <2>3 DEF Recounted
    <3> QED
      BY <2>1, <3>1, <3>2 DEF Recounted
  <2> QED
    BY <2>2, <2>3
<1>12. ASSUME NEW i \in Indexes
       PROVE  Tracked(i)'
  <2>1. Tracked(i)
    BY DEF Mirrored
  <2>2. CASE i # e.index /\ BlockOf(i) # 0
    <3>1. BlockOf(i) # n /\ BlockOf(i) \in DOMAIN view.items
      BY <1>1, <2>1, <2>2 DEF Tracked
    <3>2. /\ BlockOf(i)' = BlockOf(i) /\ toResponses'.text[i] = toResponses.text[i]
          /\ BlockOf(i) \in DOMAIN view'.items /\ view'.items[BlockOf(i)] = view.items[BlockOf(i)]
      BY <1>2, <1>3, <1>4, <2>2, <3>1
    <3>3. ASSUME NEW j \in Indexes, BlockOf(j)' = BlockOf(i)
          PROVE  j = i
      BY <1>2, <2>1, <2>2, <3>3 DEF Tracked
    <3> QED
      BY <2>1, <2>2, <3>2, <3>3 DEF Tracked
  <2>3. CASE i = e.index \/ BlockOf(i) = 0
    BY <1>2, <2>3 DEF Tracked
  <2> QED
    BY <2>2, <2>3
<1>13. Len(view'.items) = Len(toResponses'.output)
  BY <1>2, <1>4, <1>5 DEF Mirrored
<1>14. Mirrored'
  BY <1>11, <1>12, <1>13 DEF Mirrored
<1> QED
  BY <1>2, <1>3, <1>6, <1>10, <1>14

LEMMA EndFramed ==
  ASSUME EncodersTyped, Counted, Mirrored, Active,
         NEW status, NEW reason, WriteEnd(status, reason, toResponses.output),
         toResponses' = [toResponses EXCEPT !.stopped = TRUE],
         status = "failed" \/ \A i \in Indexes : BlockOf(i) = 0
  PROVE  /\ (Counted /\ Mirrored)' /\ view.begun = 1 /\ view.ends = <<>>
         /\ view'.begun = view.begun /\ view'.items = view.items
         /\ Len(view'.ends) = 1
         /\ view'.ends[1].status = status /\ view'.ends[1].reason = reason
         /\ view'.faults = view.faults
<1>1. view.begun = 1 /\ view.ends = <<>> /\ view.begun # 0 /\ view \in View
      /\ toResponses.started /\ ~toResponses.stopped
  BY EncoderParts, NoneEnded DEF Counted, Active
<1>2. /\ view'.items = view.items /\ view'.begun = view.begun
      /\ Len(view'.ends) = 1 /\ DOMAIN view'.ends = {1}
      /\ view'.ends[1].status = status /\ view'.ends[1].reason = reason
      /\ view'.ends[1].output = toResponses.output
      /\ view'.faults = view.faults \cup Blames(FALSE)
  <2> DEFINE output == toResponses.output
  <2>1. view \in View /\ view.ends = <<>> /\ WriteEnd(status, reason, output)
    BY <1>1
  <2> HIDE DEF output
  <2>2. /\ view'.items = view.items /\ view'.begun = view.begun
        /\ Len(view'.ends) = 1 /\ DOMAIN view'.ends = {1}
        /\ view'.ends[1] = [status |-> status, reason |-> reason, output |-> output]
        /\ view'.faults = view.faults \cup Blames(FALSE)
    BY <2>1, EndWritten
  <2> QED
    BY <2>2 DEF output
<1>3. view'.faults = view.faults
  BY <1>1, <1>2, NoBlame
<1>4. /\ toResponses'.started = toResponses.started /\ toResponses'.stopped
      /\ toResponses'.output = toResponses.output
      /\ toResponses'.blocks = toResponses.blocks /\ toResponses'.text = toResponses.text
  BY EncoderParts DEF ResponsesEncoder
<1>5. view.faults = {}
  BY <1>1 DEF Counted
<1>6. Mirrored'
  BY <1>2, <1>4 DEF Mirrored, Recounted, Tracked, BlockOf
<1>7. Counted'
  BY <1>1, <1>2, <1>3, <1>4, <1>5 DEF Counted, Succeeded, BlockOf
<1> QED
  BY <1>1, <1>2, <1>3, <1>6, <1>7

-----------------------------------------------------------------------------

LEMMA ResponsesFramed ==
  ASSUME EncodersTyped, Counted, Mirrored, NEW e \in Event, EncodeResponses(e)
  PROVE  (Counted /\ Mirrored)'
<1>1. ~ResponsesRefuses(e)
  BY DEF EncodeResponses
<1>2. CASE e.type = "response_start" /\ StartResponse
  BY <1>1, <1>2, StartResponseFramed DEF ResponsesRefuses
<1>3. CASE e.type \in {"content_start", "tool_call_start"} /\ StartContent(e)
  BY <1>1, <1>3, EventFields, StartContentFramed DEF ResponsesRefuses
<1>4. CASE e.type \in {"text_delta", "reasoning_delta", "tool_call_delta"} /\ WriteContentDelta(e)
  BY <1>1, <1>4, ContentDeltaFramed DEF ResponsesRefuses, OpenWithKind
<1>5. CASE e.type = "content_stop" /\ StopContent(e)
  BY <1>1, <1>5, StopContentFramed DEF ResponsesRefuses
<1>6. CASE e.type = "response_stop" /\ StopResponse(e)
  <2>1. Active /\ \A i \in Indexes : BlockOf(i) = 0
    BY <1>1, <1>6 DEF ResponsesRefuses
  <2> DEFINE status == IF e.reason = "max_tokens" THEN "incomplete" ELSE "completed"
  <2>2. /\ toResponses' = [toResponses EXCEPT !.stopped = TRUE]
        /\ WriteEnd(status, e.reason, toResponses.output)
    BY <1>6 DEF StopResponse
  <2> HIDE DEF status
  <2> QED
    BY <2>1, <2>2, EndFramed
<1>7. CASE e.type = "error" /\ FailResponse
  <2>1. Active
    BY <1>1, <1>7 DEF ResponsesRefuses
  <2> QED
    BY <1>7, <2>1, EndFramed DEF FailResponse
<1>8. CASE UNCHANGED <<toResponses, view>>
  BY <1>8 DEF Counted, Mirrored, Recounted, Tracked, Succeeded, BlockOf
<1> QED
  BY <1>2, <1>3, <1>4, <1>5, <1>6, <1>7, <1>8 DEF EncodeResponses

LEMMA InitFramed ==
  ASSUME Init
  PROVE  Framed
BY DEF Init, InitEncoders, Framed, Counted, Mirrored, Recounted, Tracked, Succeeded, BlockOf

LEMMA FramedKept ==
  ASSUME Typed, Framed, [Next]_vars
  PROVE  Framed'
<1>1. pipe' = pipe
  BY DecodeStage DEF Next, Read, Accept, Persist, PersistFails, Encode, EncodeFails,
     UpstreamEnds, UpstreamBreaks, Release, ClientLeaves, Closed, vars
<1> SUFFICES ASSUME pipe.to = "responses"
             PROVE  (Counted /\ Mirrored)'
  BY <1>1 DEF Framed
<1>2. Counted /\ Mirrored /\ EncodersTyped
  BY DEF Framed, Typed
<1>3. CASE Encode
  <2>1. Head(queue) \in Event
    BY <1>3, HeadTailProperties DEF Typed, Decoding, Encode
  <2>2. EncodeResponses(Head(queue))
    BY <1>3, Zenon DEF Encode, EncodeEvent
  <2> QED
    BY <1>2, <2>1, <2>2, ResponsesFramed
<1>4. CASE Release
  <2>1. /\ view' = view
        /\ toResponses'.started = toResponses.started /\ toResponses'.stopped = toResponses.stopped
        /\ toResponses'.output = toResponses.output
        /\ toResponses'.blocks = toResponses.blocks /\ toResponses'.text = toResponses.text
    BY <1>2, <1>4, EncoderParts DEF Release, ResponsesEncoder
  <2> QED
    BY <1>2, <2>1 DEF Counted, Mirrored, Recounted, Tracked, Succeeded, BlockOf
<1>5. CASE UNCHANGED <<toResponses, view>>
  BY <1>2, <1>5 DEF Counted, Mirrored, Recounted, Tracked, Succeeded, BlockOf
<1>6. Encode \/ Release \/ UNCHANGED <<toResponses, view>>
  BY DecodeStage DEF Next, Read, Accept, Persist, PersistFails, EncodeFails,
     UpstreamEnds, UpstreamBreaks, ClientLeaves, Closed, vars, encoders
<1> QED
  BY <1>3, <1>4, <1>5, <1>6

LEMMA FramedFrames ==
  ASSUME Typed, Framed
  PROVE  ResponsesFrames
<1> SUFFICES ASSUME pipe.to = "responses"
             PROVE  ResponsesFrames
  BY DEF ResponsesFrames
<1>1. Counted /\ Mirrored /\ EncodersTyped /\ view \in View
  BY DEF Framed, Typed, EncodersTyped
<1>2. view.begun <= 1 /\ Len(view.ends) <= 1 /\ view.faults \subseteq {"late"}
  BY <1>1 DEF Counted
<1>3. ASSUME Succeeded
      PROVE  /\ view.faults = {} /\ Len(view.ends[1].output) = Len(view.items)
             /\ \A k \in DOMAIN view.items :
                  view.items[k].done /\ view.ends[1].output[k].whole = view.items[k].data
  <2>1. /\ view.faults = {} /\ view.ends[1].output = toResponses.output
        /\ \A i \in Indexes : BlockOf(i) = 0
    BY <1>1, <1>3 DEF Counted
  <2>2. Len(view.items) = Len(toResponses.output)
    BY <1>1 DEF Mirrored
  <2>3. ASSUME NEW k \in DOMAIN view.items
        PROVE  view.items[k].done /\ toResponses.output[k].whole = view.items[k].data
    <3>1. Recounted(k) /\ k # 0
      BY <1>1, ItemsTyped DEF Mirrored
    <3> QED
      BY <2>1, <3>1 DEF Recounted
  <2> QED
    BY <2>1, <2>2, <2>3
<1>4. \A k \in DOMAIN view.items : view.items[k].done => view.items[k].whole = view.items[k].data
  BY <1>1 DEF Mirrored, Recounted
<1> QED
  BY <1>2, <1>3, <1>4 DEF ResponsesFrames

-----------------------------------------------------------------------------

(* What the client has read of a stream whose reader stands at s: its      *)
(* beginning, its end, no frame out of place;                              *)
EndStatus(s) ==
  CASE s.ended = "error" -> "failed"
    [] s.ended # "error" /\ s.reason = "max_tokens" /\ pipe.to = "responses" -> "incomplete"
    [] OTHER -> "completed"

Frame(s) ==
  /\ view.faults = {}
  /\ view.begun = IF s.begun THEN 1 ELSE 0
  /\ s.ended = "no" => view.ends = <<>>
  /\ s.ended # "no" =>
       /\ Len(view.ends) = 1
       /\ view.ends[1].reason = s.reason
       /\ view.ends[1].status = EndStatus(s)

(* and, of a Responses stream, its open blocks and what they said.         *)
ShownByResponses(s) ==
  /\ toResponses.started = s.begun
  /\ toResponses.stopped = (s.ended # "no")
  /\ \A i \in Indexes : i \in s.open <=> BlockOf(i) # 0
  /\ \A i \in s.open : Stands(view.items, BlockOf(i), s, i)
  /\ Tells(view.items, s)
  /\ (\E k \in DOMAIN view.items : view.items[k].kind = "reasoning") <=>
       \E i \in Indexes : s.kind[i] = "reasoning"
  /\ \A k \in DOMAIN view.items :
       view.items[k].kind # IF toResponses.refusalMode THEN "text" ELSE "refusal"
  /\ s.reason = "content_block" => toResponses.refusalMode

(* The two readers differ in nothing that the client's view depends on.    *)
SameAnswer(s, t) ==
  /\ t.kind = s.kind /\ t.call = s.call
  /\ t.text = s.text /\ t.reasoning = s.reasoning /\ t.calls = s.calls

LEMMA TellsSame ==
  ASSUME NEW s, NEW t, SameAnswer(s, t), NEW b, Tells(b, s)
  PROVE  Tells(b, t)
BY DEF SameAnswer, Tells, Reads

LEMMA StandsSame ==
  ASSUME NEW s, NEW t, SameAnswer(s, t), NEW b, NEW k, NEW i, Stands(b, k, s, i)
  PROVE  Stands(b, k, t, i)
BY DEF SameAnswer, Stands, Newest

LEMMA NothingSaid == \A s \in Seq(Nat) : s \o <<>> = s
BY ConcatEmptySeq

(* A new item without data, for a block that was just opened.              *)
LEMMA TellsMore ==
  ASSUME NEW b \in Seq(Block), NEW x \in Block, NEW s \in Spots, NEW i \in Indexes,
         NEW kind \in Kinds, Fresh(s, i), x.kind \in Alike(kind), x.data = <<>>, Tells(b, s)
  PROVE  /\ Tells(Append(b, x), Starting(s, i, kind))
         /\ Adds(s, Starting(s, i, kind), i, kind)
         /\ Starting(s, i, kind) \in Spots
<1> DEFINE t == Starting(s, i, kind)
           c == Append(b, x)
<1>1. /\ t \in Spots /\ t.text = s.text /\ t.reasoning = s.reasoning
      /\ t.calls = IF kind = "tool" THEN Append(s.calls, <<>>) ELSE s.calls
      /\ Adds(s, t, i, kind)
  BY StartingSpot DEF Adds
<1>2. /\ Text(b) \in Seq(Nat) /\ Reasoning(b) \in Seq(Nat)
      /\ Text(b) = s.text /\ Reasoning(b) = s.reasoning /\ ToolCalls(b) = s.calls
  BY AnswerTypes DEF Tells, Reads
<1>3. /\ Text(c) = IF x.kind \in Alike("text") THEN Text(b) \o <<>> ELSE Text(b)
      /\ Reasoning(c) = IF x.kind = "reasoning" THEN Reasoning(b) \o <<>> ELSE Reasoning(b)
      /\ ToolCalls(c) = IF x.kind = "tool" THEN Append(ToolCalls(b), <<>>) ELSE ToolCalls(b)
  BY AnswersMore
<1>4. x.kind = "tool" <=> kind = "tool"
  BY DEF Alike, Kinds
<1> HIDE DEF t, c
<1>5. Text(c) = Text(b) /\ Reasoning(c) = Reasoning(b)
  BY <1>2, <1>3, NothingSaid
<1>6. Tells(c, t)
  BY <1>1, <1>2, <1>3, <1>4, <1>5 DEF Tells, Reads
<1> QED
  BY <1>1, <1>6 DEF t, c

LEMMA SpotOpen ==
  ASSUME NEW s \in Spots, NEW i \in Indexes, Fresh(s, i)
  PROVE  i \notin s.open /\ s.kind[i] = "none"
<1>1. i >= i
  BY StreamBounds DEF Indexes
<1> QED
  BY <1>1, SpotParts DEF Fresh

-----------------------------------------------------------------------------

LEMMA ResponsesOpens ==
  ASSUME EncodersTyped, Counted, Mirrored, NEW e \in Event, EncodeResponses(e),
         NEW s \in Spots, Frame(s), ShownByResponses(s), s.ended = "no",
         NEW u, Opens(s, e, u)
  PROVE  (Frame(u) /\ ShownByResponses(u))'
<1> DEFINE i == e.index
           kind == IF e.kind = "text" /\ toResponses.refusalMode THEN "refusal" ELSE e.kind
           n == Len(toResponses.output) + 1
           x == Opened(n, kind, <<>>)
<1>1. /\ i \in Indexes /\ e.kind \in Kinds /\ e.piece = Empty /\ Fresh(s, i)
      /\ u = Starting(s, i, e.kind) /\ e.type \in {"content_start", "tool_call_start"}
  BY IndexOf, EventFields DEF Opens, Starts
<1>2. StartContent(e) /\ Active /\ BlockOf(i) = 0
  BY <1>1 DEF EncodeResponses, ResponsesRefuses
<1>3. /\ view.begun = 1 /\ view.ends = <<>> /\ view'.faults = view.faults
      /\ view'.begun = view.begun /\ view'.ends = view.ends
  BY <1>1, <1>2, StartContentFramed
<1>4. /\ toResponses'.started = toResponses.started /\ toResponses'.stopped = toResponses.stopped
      /\ toResponses'.refusalMode = toResponses.refusalMode
      /\ \A j \in Indexes : BlockOf(j)' = IF j = i THEN n ELSE BlockOf(j)
      /\ WriteItem(n, kind, <<>>)
  <2>1. (IF kind = "tool" THEN <<>> ELSE Pieces(e.piece)) = <<>>
    BY <1>1 DEF Pieces
  <2> DEFINE output == Append(toResponses.output, x)
  <2>2. /\ toResponses' = [toResponses EXCEPT !.blocks[i] = n, !.text[i] = <<>>, !.output = output]
        /\ WriteItem(n, kind, <<>>)
    BY <1>2, <2>1 DEF StartContent
  <2> HIDE DEF output, n, kind, i
  <2> QED
    BY <1>1, <2>2, EncoderParts DEF ResponsesEncoder, BlockOf
<1>5. kind \in Alike(e.kind) /\ kind \in Kinds \cup {"refusal"} /\ <<>> \in Seq(Nat)
      /\ kind # (IF toResponses.refusalMode THEN "text" ELSE "refusal")
      /\ (kind = "reasoning" <=> e.kind = "reasoning")
  BY <1>1 DEF Alike, Kinds
<1>6. n \in Nat /\ view \in View /\ view.items \in Seq(Block) /\ n = Len(view.items) + 1
  BY EncoderParts, ItemsTyped DEF Mirrored
<1> HIDE DEF n, kind
<1>7. /\ x \in Block /\ view'.items = Append(view.items, x)
      /\ Len(view'.items) = Len(view.items) + 1
      /\ view'.items[Len(view.items) + 1] = x
      /\ \A j \in DOMAIN view.items : view'.items[j] = view.items[j]
  BY <1>4, <1>5, <1>6, ItemWritten
<1>8. x.kind = kind /\ x.data = <<>>
  BY DEF Opened
<1> HIDE DEF x, i
<1>9. /\ Tells(view'.items, u) /\ Adds(s, u, i, e.kind) /\ u \in Spots
  BY <1>1, <1>5, <1>6, <1>7, <1>8, TellsMore DEF ShownByResponses
<1>10. /\ u.begun = s.begun /\ u.ended = s.ended /\ u.reason = s.reason /\ u.open = s.open \cup {i}
       /\ u.kind[i] = e.kind /\ \A j \in Indexes : j # i => u.kind[j] = s.kind[j]
       /\ i \notin s.open /\ s.kind[i] = "none" /\ s.open \subseteq Indexes
  BY <1>1, StartingSpot, SpotOpen, SpotParts
<1>11. Frame(u)'
  BY <1>3, <1>10 DEF Frame
<1>12. ASSUME NEW j \in u.open
       PROVE  Stands(view'.items, BlockOf(j)', u, j)
  <2>1. CASE j = i
    <3>1. ToolCalls(view.items) = s.calls
      BY DEF ShownByResponses, Tells
    <3>2. Stands(Append(view.items, x), Len(view.items) + 1, u, i)
      BY <1>1, <1>5, <1>6, <1>7, <1>8, <1>9, <3>1, StandsAtEnd
    <3> QED
      BY <1>1, <1>4, <1>6, <1>7, <2>1, <3>2
  <2>2. CASE j # i
    <3>1. j \in s.open /\ j \in Indexes
      BY <1>10, <2>2
    <3>2. Stands(view.items, BlockOf(j), s, j)
      BY <3>1 DEF ShownByResponses
    <3>3. Stands(Append(view.items, x), BlockOf(j), u, j)
      BY <1>1, <1>5, <1>6, <1>7, <1>8, <1>9, <3>1, <3>2, StandsStill
    <3> QED
      BY <1>4, <1>7, <2>2, <3>1, <3>3
  <2> QED
    BY <2>1, <2>2
<1>13. \A j \in Indexes : j \in u.open <=> BlockOf(j)' # 0
  <2>1. n # 0
    BY <1>6
  <2> QED
    BY <1>4, <1>10, <2>1 DEF ShownByResponses
<1>14. /\ DOMAIN view.items = 1 .. Len(view.items) /\ Len(view.items) \in Nat
       /\ DOMAIN view'.items = 1 .. Len(view.items) + 1
  BY <1>6, <1>7, ItemsTyped, AppendProperties, LenProperties
<1>15. (\E k \in DOMAIN view'.items : view'.items[k].kind = "reasoning") <=>
         \E j \in Indexes : u.kind[j] = "reasoning"
  <2>1. CASE e.kind = "reasoning"
    BY <1>1, <1>5, <1>6, <1>7, <1>8, <1>10, <1>14, <2>1
  <2>2. CASE e.kind # "reasoning"
    <3>1. (\E j \in Indexes : u.kind[j] = "reasoning") <=> \E j \in Indexes : s.kind[j] = "reasoning"
      BY <1>1, <1>10, <2>2
    <3>2. (\E k \in DOMAIN view'.items : view'.items[k].kind = "reasoning") <=>
            \E k \in DOMAIN view.items : view.items[k].kind = "reasoning"
      BY <1>5, <1>7, <1>8, <1>14, <2>2
    <3> QED
      BY <3>1, <3>2 DEF ShownByResponses
  <2> QED
    BY <2>1, <2>2
<1>16. \A k \in DOMAIN view'.items :
         view'.items[k].kind # IF toResponses'.refusalMode THEN "text" ELSE "refusal"
  BY <1>4, <1>5, <1>7, <1>8, <1>14 DEF ShownByResponses
<1>17. ShownByResponses(u)'
  BY <1>4, <1>9, <1>10, <1>12, <1>13, <1>15, <1>16 DEF ShownByResponses
<1> QED
  BY <1>11, <1>17

-----------------------------------------------------------------------------

LEMMA ResponsesSpeaks ==
  ASSUME EncodersTyped, Counted, Mirrored, NEW e \in Event, EncodeResponses(e),
         NEW s \in Spots, Frame(s), ShownByResponses(s), s.ended = "no",
         NEW u, Speaks(s, e, u)
  PROVE  (Frame(u) /\ ShownByResponses(u))'
<1> DEFINE i == e.index
           n == BlockOf(e.index)
<1>1. /\ i \in Indexes /\ e.piece \in Nat /\ i \in s.open /\ n # 0
      /\ Newest(s, i) \/ s.kind[i] = "tool"
      /\ u = Saying(s, i, e.piece) /\ s.kind[i] # "none"
      /\ e.type \in {"text_delta", "reasoning_delta", "tool_call_delta"}
  BY IndexOf, SpotParts DEF Speaks, Deltas, ShownByResponses
<1>2. WriteContentDelta(e)
  BY <1>1 DEF EncodeResponses
<1>3. /\ view.begun = 1
      /\ Grows(view.items, view'.items, n, Pieces(e.piece))
      /\ \A j \in Indexes : BlockOf(j)' = BlockOf(j)
      /\ view'.begun = view.begun /\ view'.ends = view.ends
      /\ view'.faults = view.faults \cup Blames(FALSE)
  BY <1>1, <1>2, ContentDeltaFramed
<1>4. /\ toResponses'.started = toResponses.started /\ toResponses'.stopped = toResponses.stopped
      /\ toResponses'.refusalMode = toResponses.refusalMode
  BY <1>2, EncoderParts DEF WriteContentDelta, ResponsesEncoder
<1>5. /\ u \in Spots /\ u.begun = s.begun /\ u.ended = s.ended /\ u.reason = s.reason
      /\ u.kind = s.kind /\ u.open = s.open /\ u.call = s.call /\ SaidMore(s, u, i, e.piece)
  BY <1>1, SayingSpot
<1>6. /\ view.items \in Seq(Block) /\ view'.items \in Seq(Block) /\ view \in View
      /\ DOMAIN view.items = 1 .. Len(view.items)
      /\ s.open \subseteq Indexes
  <2>1. view' \in View
    BY <1>2, WriteContentDeltaTyped
  <2> QED
    BY <2>1, EncoderParts, ItemsTyped, SpotParts DEF View
<1>7. Aligned(view.items, view'.items)
  BY <1>3, GrowsAligned
<1>8. DOMAIN view'.items = 1 .. Len(view.items)
      /\ \A k \in 1 .. Len(view.items) : view'.items[k].kind = view.items[k].kind
  BY <1>6, <1>7, LenProperties DEF Aligned
<1> HIDE DEF i, n
<1>9. Tells(view'.items, u)
  <2>1. Stands(view.items, n, s, i)
    BY <1>1 DEF ShownByResponses, n, i
  <2>2. Takes(view.items, n, s, i)
    BY <1>1, <2>1, StandsTakes
  <2>3. Reads(view.items, s) /\ ToolCalls(view.items) = s.calls
    BY DEF ShownByResponses, Tells
  <2>4. Reads(view'.items, u) /\ ToolCalls(view'.items) = u.calls
    BY <1>1, <1>3, <1>5, <1>6, <2>2, <2>3, TakesGrows
  <2> QED
    BY <2>4 DEF Tells
<1>10. \A j \in u.open : Stands(view'.items, BlockOf(j)', u, j)
  <2> SUFFICES ASSUME NEW j \in u.open
               PROVE  Stands(view'.items, BlockOf(j)', u, j)
    OBVIOUS
  <2>1. j \in Indexes /\ Stands(view.items, BlockOf(j), s, j)
    BY <1>5, <1>6 DEF ShownByResponses
  <2>2. Stands(view'.items, BlockOf(j), u, j)
    BY <1>5, <1>6, <1>7, <2>1, StandsAligned
  <2> QED
    BY <1>3, <2>1, <2>2
<1>11. Frame(u)'
  <2>1. Blames(FALSE) = {}
    <3>1. view.begun # 0 /\ view.ends = <<>>
      BY <1>3 DEF Frame
    <3> QED
      BY <1>6, <3>1, NoBlame
  <2> QED
    BY <1>3, <1>5, <2>1 DEF Frame
<1>12. ShownByResponses(u)'
  BY <1>3, <1>4, <1>5, <1>6, <1>8, <1>9, <1>10 DEF ShownByResponses
<1> QED
  BY <1>11, <1>12

LEMMA ResponsesCloses ==
  ASSUME EncodersTyped, Counted, Mirrored, NEW e \in Event, EncodeResponses(e),
         NEW s \in Spots, Frame(s), ShownByResponses(s), s.ended = "no",
         NEW u, Closes(s, e, u)
  PROVE  (Frame(u) /\ ShownByResponses(u))'
<1> DEFINE i == e.index
<1>1. /\ i \in Indexes /\ i \in s.open /\ BlockOf(i) # 0
      /\ u = Closing(s, i) /\ e.type = "content_stop"
  BY IndexOf, SpotParts DEF Closes, ShownByResponses
<1>2. StopContent(e)
  BY <1>1 DEF EncodeResponses
<1>3. /\ view.begun = 1
      /\ view'.items \in Seq(Block) /\ Aligned(view.items, view'.items)
      /\ \A j \in 1 .. Len(view.items) : view'.items[j].data = view.items[j].data
      /\ \A j \in Indexes : BlockOf(j)' = IF j = i THEN 0 ELSE BlockOf(j)
      /\ view'.begun = view.begun /\ view'.ends = view.ends
      /\ view'.faults = view.faults \cup Blames(FALSE)
  BY <1>1, <1>2, StopContentFramed
<1>4. /\ toResponses'.started = toResponses.started /\ toResponses'.stopped = toResponses.stopped
      /\ toResponses'.refusalMode = toResponses.refusalMode
  BY <1>2, EncoderParts DEF StopContent, ResponsesEncoder
<1>5. /\ u \in Spots /\ u.begun = s.begun /\ u.ended = s.ended /\ u.reason = s.reason
      /\ u.open = s.open \ {i} /\ u.kind = s.kind /\ u.call = s.call /\ SameAnswer(s, u)
  BY <1>1, ClosingSpot DEF SameAnswer
<1>6. /\ view.items \in Seq(Block) /\ view \in View
      /\ DOMAIN view.items = 1 .. Len(view.items)
      /\ s.open \subseteq Indexes
  BY EncoderParts, ItemsTyped, SpotParts
<1>7. DOMAIN view'.items = 1 .. Len(view.items)
      /\ \A k \in 1 .. Len(view.items) : view'.items[k].kind = view.items[k].kind
  BY <1>3, <1>6, LenProperties DEF Aligned
<1> HIDE DEF i
<1>8. Tells(view'.items, u)
  <2>1. Tells(view'.items, s)
    BY <1>3, <1>6, AnswersAligned DEF ShownByResponses, Tells, Reads
  <2> QED
    BY <1>5, <2>1, TellsSame
<1>9. \A j \in u.open : Stands(view'.items, BlockOf(j)', u, j)
  <2> SUFFICES ASSUME NEW j \in u.open
               PROVE  Stands(view'.items, BlockOf(j)', u, j)
    OBVIOUS
  <2>1. j \in Indexes /\ Stands(view.items, BlockOf(j), s, j) /\ j # i
    BY <1>5, <1>6 DEF ShownByResponses
  <2>2. Stands(view'.items, BlockOf(j), u, j)
    BY <1>3, <1>5, <1>6, <2>1, StandsAligned
  <2> QED
    BY <1>3, <2>1, <2>2
<1>10. Frame(u)'
  <2>1. Blames(FALSE) = {}
    <3>1. view.begun # 0 /\ view.ends = <<>>
      BY <1>3 DEF Frame
    <3> QED
      BY <1>6, <3>1, NoBlame
  <2> QED
    BY <1>3, <1>5, <2>1 DEF Frame
<1>11. ShownByResponses(u)'
  BY <1>3, <1>4, <1>5, <1>6, <1>7, <1>8, <1>9 DEF ShownByResponses
<1> QED
  BY <1>10, <1>11

(* The stream begins or ends: its items stay as they are.                  *)
LEMMA ResponsesTurns ==
  ASSUME pipe.to = "responses", pipe' = pipe,
         EncodersTyped, Counted, Mirrored, NEW e \in Event, EncodeResponses(e),
         NEW s \in Spots, Frame(s), ShownByResponses(s), s.ended = "no",
         NEW u, Begins(s, e, u) \/ Stops(s, e, u) \/ Breaks(s, e, u)
  PROVE  (Frame(u) /\ ShownByResponses(u))'
<1>0. /\ view \in View /\ view.ends = <<>> /\ view.faults = {} /\ ~ResponsesRefuses(e)
  BY EncoderParts DEF Frame, EncodeResponses
<1>1. ASSUME view'.items = view.items, SameAnswer(s, u), u.open = s.open,
             toResponses'.refusalMode = toResponses.refusalMode,
             toResponses'.blocks = toResponses.blocks,
             toResponses'.started = u.begun, toResponses'.stopped = (u.ended # "no"),
             u.reason = "content_block" => toResponses.refusalMode
      PROVE  ShownByResponses(u)'
  <2>1. Tells(view'.items, u)
    BY <1>1, TellsSame DEF ShownByResponses
  <2>2. \A i \in u.open : Stands(view'.items, toResponses'.blocks[i], u, i)
    BY <1>1, StandsSame DEF ShownByResponses, BlockOf
  <2> QED
    BY <1>1, <2>1, <2>2 DEF ShownByResponses, SameAnswer, BlockOf
<1>2. CASE Begins(s, e, u)
  <2>1. /\ u.begun /\ u.ended = "no" /\ u.reason = s.reason /\ u.open = s.open
        /\ SameAnswer(s, u) /\ ~s.begun /\ e.type = "response_start" /\ s.reason = "none"
        /\ u.begun \in BOOLEAN
    BY <1>2, BegunSpot, SpotParts DEF Begins, SameAnswer
  <2>2. ~toResponses.started /\ StartResponse
    BY <2>1 DEF EncodeResponses, ShownByResponses
  <2>3. view.begun = 0 /\ view'.faults = view.faults
    BY <2>2, StartResponseFramed
  <2>4. /\ view'.items = view.items /\ view'.begun = view.begun + 1 /\ view'.ends = view.ends
        /\ toResponses'.started /\ toResponses'.started \in BOOLEAN
        /\ toResponses'.stopped = toResponses.stopped
        /\ toResponses'.refusalMode = toResponses.refusalMode
        /\ toResponses'.blocks = toResponses.blocks
    BY <1>0, <2>2, EncoderParts DEF StartResponse, WriteBegin, ResponsesEncoder, View
  <2>5. Frame(u)'
    BY <1>0, <2>1, <2>3, <2>4 DEF Frame
  <2>6. toResponses'.stopped = (u.ended # "no")
    BY <2>1, <2>4 DEF ShownByResponses
  <2> QED
    BY <1>1, <2>1, <2>4, <2>5, <2>6
<1>3. CASE Stops(s, e, u)
  <2>1. /\ e.reason \in Reasons /\ e.type = "response_stop" /\ s.begun /\ u = Stopping(s, e.reason)
    BY <1>3, IndexOf DEF Stops
  <2>2. /\ u.begun = s.begun /\ u.ended = "stop" /\ u.reason = e.reason /\ u.open = s.open
        /\ SameAnswer(s, u)
    BY <2>1, StoppingSpot DEF SameAnswer
  <2>3. /\ Active /\ \A i \in Indexes : BlockOf(i) = 0
        /\ e.reason = "content_block" => toResponses.refusalMode
        /\ StopResponse(e)
    BY <1>0, <2>1 DEF EncodeResponses, ResponsesRefuses
  <2> DEFINE status == IF e.reason = "max_tokens" THEN "incomplete" ELSE "completed"
  <2>4. /\ toResponses' = [toResponses EXCEPT !.stopped = TRUE]
        /\ WriteEnd(status, e.reason, toResponses.output)
    BY <2>3 DEF StopResponse
  <2> HIDE DEF status
  <2>5. /\ view.begun = 1 /\ view'.begun = view.begun /\ view'.items = view.items
        /\ Len(view'.ends) = 1
        /\ view'.ends[1].status = status /\ view'.ends[1].reason = e.reason
        /\ view'.faults = view.faults
    BY <2>3, <2>4, EndFramed
  <2>6. /\ toResponses'.started = toResponses.started /\ toResponses'.stopped = TRUE
        /\ toResponses'.refusalMode = toResponses.refusalMode
        /\ toResponses'.blocks = toResponses.blocks
    BY <2>4, EncoderParts DEF ResponsesEncoder
  <2>7. Frame(u)'
    <3>1. EndStatus(u)' = status
      BY <2>2 DEF EndStatus, status
    <3> QED
      BY <1>0, <2>1, <2>2, <2>5, <3>1 DEF Frame
  <2> QED
    BY <1>1, <2>2, <2>3, <2>5, <2>6, <2>7 DEF ShownByResponses
<1>4. CASE Breaks(s, e, u)
  <2>1. e.type = "error" /\ u = Broken(s)
    BY <1>4 DEF Breaks
  <2>2. /\ u.begun = s.begun /\ u.ended = "error" /\ u.reason = "none" /\ u.open = s.open
        /\ SameAnswer(s, u)
    BY <2>1, BrokenSpot DEF SameAnswer
  <2>3. Active /\ FailResponse
    BY <1>0, <2>1 DEF EncodeResponses, ResponsesRefuses
  <2>5. /\ view.begun = 1 /\ view'.begun = view.begun /\ view'.items = view.items
        /\ Len(view'.ends) = 1
        /\ view'.ends[1].status = "failed" /\ view'.ends[1].reason = "none"
        /\ view'.faults = view.faults
    BY <2>3, EndFramed DEF FailResponse
  <2>6. /\ toResponses'.started = toResponses.started /\ toResponses'.stopped = TRUE
        /\ toResponses'.refusalMode = toResponses.refusalMode
        /\ toResponses'.blocks = toResponses.blocks
    BY <2>3, EncoderParts DEF FailResponse, ResponsesEncoder
  <2>7. Frame(u)'
    <3>1. EndStatus(u)' = "failed"
      BY <2>2 DEF EndStatus
    <3> QED
      BY <1>0, <2>2, <2>3, <2>5, <3>1 DEF Frame, ShownByResponses, Active
  <2> QED
    BY <1>1, <2>2, <2>3, <2>5, <2>6, <2>7 DEF ShownByResponses
<1> QED
  BY <1>2, <1>3, <1>4

-----------------------------------------------------------------------------

LEMMA FrameGoesOn ==
  ASSUME view \in View, NEW s \in Spots, Frame(s), s.ended = "no", s.begun,
         NEW u, u.begun = s.begun, u.ended = s.ended,
         view'.begun = view.begun, view'.ends = view.ends,
         view'.faults = view.faults \cup Blames(FALSE)
  PROVE  Frame(u)'
<1>1. view.begun # 0 /\ view.ends = <<>>
  BY DEF Frame
<1>2. Blames(FALSE) = {}
  BY <1>1, NoBlame
<1> QED
  BY <1>1, <1>2 DEF Frame

LEMMA FrameBegins ==
  ASSUME view \in View, NEW s \in Spots, Frame(s), s.ended = "no",
         NEW e, NEW u, Begins(s, e, u), WriteBegin
  PROVE  Frame(u)' /\ view'.items = view.items /\ u \in Spots /\ u.open = s.open
         /\ SameAnswer(s, u)
<1>1. /\ u.begun = TRUE /\ u.ended = "no" /\ ~s.begun /\ u \in Spots /\ u.open = s.open
      /\ SameAnswer(s, u)
  BY BegunSpot DEF Begins, SameAnswer
<1>2. /\ view'.items = view.items /\ view'.begun = view.begun + 1 /\ view'.ends = view.ends
      /\ view'.faults = view.faults \cup (Blames(view.begun > 0) \ {"early"})
  BY DEF WriteBegin, View
<1>3. view.begun = 0 /\ view.ends = <<>>
  BY <1>1 DEF Frame
<1>4. view'.faults = view.faults
  BY <1>2, <1>3 DEF Blames
<1> QED
  BY <1>1, <1>2, <1>3, <1>4 DEF Frame

LEMMA FrameEnds ==
  ASSUME view \in View, NEW s \in Spots, Frame(s), s.ended = "no",
         pipe.to # "responses", pipe' = pipe,
         NEW e \in Event, NEW u, Stops(s, e, u), WriteEnd("completed", e.reason, <<>>)
  PROVE  Frame(u)' /\ view'.items = view.items /\ u \in Spots /\ u.open = s.open
         /\ SameAnswer(s, u)
<1>1. e.reason \in Reasons /\ s.begun /\ u = Stopping(s, e.reason)
  BY IndexOf DEF Stops
<1>2. /\ u.begun = s.begun /\ u.ended = "stop" /\ u.reason = e.reason /\ u.open = s.open
      /\ SameAnswer(s, u) /\ u \in Spots
  BY <1>1, StoppingSpot DEF SameAnswer
<1>3. view.begun = 1 /\ view.begun # 0 /\ view.ends = <<>> /\ view.faults = {}
  BY <1>1 DEF Frame
<1>4. /\ view'.items = view.items /\ view'.begun = view.begun
      /\ Len(view'.ends) = 1
      /\ view'.ends[1].status = "completed" /\ view'.ends[1].reason = e.reason
      /\ view'.faults = view.faults \cup Blames(FALSE)
  <2> DEFINE status == "completed"
             reason == e.reason
             output == <<>>
  <2>1. view \in View /\ view.ends = <<>> /\ WriteEnd(status, reason, output)
    BY <1>3
  <2> HIDE DEF status, reason, output
  <2>2. /\ view'.items = view.items /\ view'.begun = view.begun
        /\ Len(view'.ends) = 1 /\ DOMAIN view'.ends = {1}
        /\ view'.ends[1] = [status |-> status, reason |-> reason, output |-> output]
        /\ view'.faults = view.faults \cup Blames(FALSE)
    BY <2>1, EndWritten
  <2> QED
    BY <2>2 DEF status, reason, output
<1>5. view'.faults = {}
  BY <1>3, <1>4, NoBlame
<1>6. EndStatus(u)' = "completed"
  BY <1>2 DEF EndStatus
<1>7. Frame(u)'
  BY <1>1, <1>2, <1>3, <1>4, <1>5, <1>6 DEF Frame
<1> QED
  BY <1>2, <1>4, <1>7

-----------------------------------------------------------------------------

(* A Messages stream names each item by the index of its block.            *)
Named(s, k) ==
  /\ view.items[k].at \in Indexes
  /\ s.kind[view.items[k].at] # "none"
  /\ view.items[k].done <=> view.items[k].at \notin s.open
  /\ ~view.items[k].done => Stands(view.items, k, s, view.items[k].at)
  /\ \A j \in DOMAIN view.items : view.items[j].at = view.items[k].at => j = k

ShownByMessages(s) ==
  /\ \A k \in DOMAIN view.items : Named(s, k)
  /\ \A i \in s.open : \E k \in DOMAIN view.items : view.items[k].at = i
  /\ Tells(view.items, s)

LEMMA MessagesSame ==
  ASSUME NEW s, ShownByMessages(s), NEW u, SameAnswer(s, u), u.open = s.open,
         view'.items = view.items
  PROVE  ShownByMessages(u)'
<1>1. Tells(view'.items, u)
  BY TellsSame DEF ShownByMessages
<1>2. ASSUME NEW k \in DOMAIN view'.items
      PROVE  Named(u, k)'
  <2>1. Named(s, k)
    BY DEF ShownByMessages
  <2>2. ~view.items[k].done => Stands(view.items, k, u, view.items[k].at)
    BY <2>1, StandsSame DEF Named
  <2> QED
    BY <2>1, <2>2 DEF Named, SameAnswer
<1> QED
  BY <1>1, <1>2 DEF ShownByMessages

LEMMA MessagesOpens ==
  ASSUME view \in View, NEW e \in Event, e.kind \in Kinds, WriteItem(e.index, e.kind, <<>>),
         NEW s \in Spots, Frame(s), ShownByMessages(s), s.ended = "no",
         NEW u, Opens(s, e, u)
  PROVE  (Frame(u) /\ ShownByMessages(u))'
<1> DEFINE i == e.index
           x == Opened(i, e.kind, <<>>)
<1>1. /\ i \in Indexes /\ i \in Nat /\ Fresh(s, i) /\ u = Starting(s, i, e.kind) /\ s.begun
      /\ e.kind \in Kinds /\ e.kind \in Alike(e.kind) /\ e.kind \in Kinds \cup {"refusal"} /\ <<>> \in Seq(Nat)
  BY IndexOf, EventFields DEF Opens, Alike
<1>2. /\ view.items \in Seq(Block) /\ DOMAIN view.items = 1 .. Len(view.items)
      /\ Len(view.items) \in Nat
  BY ItemsTyped
<1>3. /\ x \in Block /\ view'.items = Append(view.items, x)
      /\ Len(view'.items) = Len(view.items) + 1
      /\ view'.items[Len(view.items) + 1] = x
      /\ \A j \in DOMAIN view.items : view'.items[j] = view.items[j]
      /\ view'.begun = view.begun /\ view'.ends = view.ends
      /\ view'.faults = view.faults \cup Blames(IsOpen(i))
  BY <1>1, ItemWritten
<1>4. x.kind = e.kind /\ x.data = <<>> /\ x.at = i /\ x.done = FALSE
  BY DEF Opened
<1> HIDE DEF x, i
<1>5. /\ Tells(view'.items, u) /\ Adds(s, u, i, e.kind) /\ u \in Spots
  BY <1>1, <1>2, <1>3, <1>4, TellsMore DEF ShownByMessages
<1>6. /\ u.begun = s.begun /\ u.ended = s.ended /\ u.open = s.open \cup {i}
      /\ u.kind[i] = e.kind /\ \A j \in Indexes : j # i => u.kind[j] = s.kind[j]
      /\ i \notin s.open /\ s.kind[i] = "none" /\ s.open \subseteq Indexes
      /\ e.kind # "none"
  <2>1. e.kind # "none"
    BY DEF Kinds
  <2>2. i \notin s.open /\ s.kind[i] = "none" /\ s.open \subseteq Indexes
    BY <1>1, SpotOpen, SpotParts
  <2>3. /\ u.begun = s.begun /\ u.ended = s.ended /\ u.reason = s.reason /\ u.open = s.open \cup {i}
        /\ u.kind[i] = e.kind /\ \A j \in Indexes : j # i => u.kind[j] = s.kind[j]
    <3>1. u.begun = s.begun
      BY <1>1 DEF Starting, Spots, Spot
    <3>2. u.ended = s.ended /\ u.reason = s.reason
      BY <1>1, StartingSpot
    <3>3. u.open = s.open \cup {i}
      BY <1>1, StartingSpot
    <3>4. u.kind[i] = e.kind /\ \A j \in Indexes : j # i => u.kind[j] = s.kind[j]
      BY <1>1, StartingSpot
    <3> QED
      BY <3>1, <3>2, <3>3, <3>4
  <2> QED
    BY <2>1, <2>2, <2>3
<1>7. \A k \in DOMAIN view.items : view.items[k].at # i /\ Named(s, k)
  BY <1>6 DEF ShownByMessages, Named
<1>8. IsOpen(i) = FALSE
  BY <1>7 DEF IsOpen
<1>9. Frame(u)'
  BY <1>1, <1>3, <1>6, <1>8, FrameGoesOn
<1>10. DOMAIN view'.items = 1 .. Len(view.items) + 1
  BY <1>2, <1>3, AppendProperties, LenProperties
<1>11. ASSUME NEW k \in DOMAIN view'.items
       PROVE  Named(u, k)'
  <2>1. CASE k = Len(view.items) + 1
    <3>1. ToolCalls(view.items) = s.calls
      BY DEF ShownByMessages, Tells
    <3>2. Stands(Append(view.items, x), Len(view.items) + 1, u, i)
      BY <1>1, <1>2, <1>3, <1>4, <1>5, <3>1, StandsAtEnd
    <3>3. view'.items[k].at = i /\ view'.items[k].done = FALSE
      BY <1>3, <1>4, <2>1
    <3>4. \A j \in DOMAIN view'.items : view'.items[j].at = i => j = k
      BY <1>2, <1>3, <1>7, <1>10, <2>1
    <3>5. Stands(view'.items, k, u, i)
      BY <1>3, <2>1, <3>2
    <3>6. i \in u.open
      BY <1>6
    <3> QED
      BY <1>1, <1>6, <3>3, <3>4, <3>5, <3>6 DEF Named
  <2>2. CASE k # Len(view.items) + 1
    <3>1. k \in DOMAIN view.items /\ view'.items[k] = view.items[k]
      BY <1>2, <1>3, <1>10, <2>2
    <3>2. Named(s, k) /\ view.items[k].at # i /\ view.items[k].at \in Indexes
      BY <1>7, <3>1 DEF Named
    <3>3. ~view.items[k].done => Stands(view'.items, k, u, view.items[k].at)
      <4>1. SUFFICES ASSUME ~view.items[k].done
                     PROVE  Stands(view'.items, k, u, view.items[k].at)
        OBVIOUS
      <4>2. Stands(view.items, k, s, view.items[k].at)
        BY <3>2, <4>1 DEF Named
      <4>3. Stands(Append(view.items, x), k, u, view.items[k].at)
        BY <1>1, <1>2, <1>3, <1>4, <1>5, <3>2, <4>2, StandsStill
      <4> QED
        BY <1>3, <4>3
    <3>4. \A j \in DOMAIN view'.items : view'.items[j].at = view.items[k].at => j = k
      <4> TAKE j \in DOMAIN view'.items
      <4>1. CASE j = Len(view.items) + 1
        BY <1>3, <1>4, <3>2, <4>1
      <4>2. CASE j # Len(view.items) + 1
        <5>1. j \in DOMAIN view.items /\ view'.items[j] = view.items[j]
          BY <1>2, <1>3, <1>10, <4>2
        <5> QED
          BY <3>2, <5>1 DEF Named
      <4> QED
        BY <4>1, <4>2
    <3> QED
      BY <1>6, <3>1, <3>2, <3>3, <3>4 DEF Named
  <2> QED
    BY <2>1, <2>2
<1>12. ASSUME NEW j \in u.open
       PROVE  \E k \in DOMAIN view'.items : view'.items[k].at = j
  <2>1. CASE j = i
    <3>1. Len(view.items) + 1 \in DOMAIN view'.items
      BY <1>2, <1>10
    <3> QED
      BY <1>3, <1>4, <2>1, <3>1
  <2>2. CASE j # i
    <3>1. PICK k \in DOMAIN view.items : view.items[k].at = j
      BY <1>6, <2>2 DEF ShownByMessages
    <3>2. k \in DOMAIN view'.items /\ view'.items[k] = view.items[k]
      BY <1>2, <1>3, <1>10
    <3> QED
      BY <3>1, <3>2
  <2> QED
    BY <2>1, <2>2
<1> QED
  BY <1>5, <1>9, <1>11, <1>12 DEF ShownByMessages

-----------------------------------------------------------------------------

(* Of the items named like block i of a reader at s, one is open.          *)
LEMMA NamedOnly ==
  ASSUME view \in View, NEW s \in Spots, ShownByMessages(s), NEW i \in s.open
  PROVE  \E k \in DOMAIN view.items : Only(i, k) /\ Stands(view.items, k, s, i)
<1>1. PICK k \in DOMAIN view.items : view.items[k].at = i
  BY DEF ShownByMessages
<1>2. Named(s, k)
  BY DEF ShownByMessages
<1>3. ~view.items[k].done /\ Stands(view.items, k, s, i)
  BY <1>1, <1>2 DEF Named
<1> QED
  BY <1>1, <1>2, <1>3 DEF Only, Named

LEMMA MessagesSpeaks ==
  ASSUME view \in View, NEW e \in Event, WriteDelta(e.index, e.piece),
         NEW s \in Spots, Frame(s), ShownByMessages(s), s.ended = "no",
         NEW u, Speaks(s, e, u)
  PROVE  (Frame(u) /\ ShownByMessages(u))'
<1> DEFINE i == e.index
           p == e.piece
<1>1. /\ i \in Indexes /\ i \in Nat /\ p \in Nat /\ i \in s.open /\ s.begun
      /\ Newest(s, i) \/ s.kind[i] = "tool"
      /\ u = Saying(s, i, p) /\ s.kind[i] # "none"
  BY IndexOf, EventFields, SpotParts DEF Speaks
<1>2. PICK k \in DOMAIN view.items : Only(i, k) /\ Stands(view.items, k, s, i)
  BY <1>1, NamedOnly
<1> HIDE DEF i, p
<1>3. WriteDelta(i, p)
  BY DEF i, p
<1>4. /\ view'.items \in Seq(Block)
      /\ Grows(view.items, view'.items, k, Pieces(p))
      /\ \A j \in DOMAIN view.items :
           /\ view'.items[j].at = view.items[j].at /\ view'.items[j].done = view.items[j].done
           /\ view'.items[j].whole = view.items[j].whole
      /\ view'.begun = view.begun /\ view'.ends = view.ends
      /\ view'.faults = view.faults \cup Blames(FALSE)
  BY <1>1, <1>2, <1>3, DeltaWritten
<1>5. /\ u \in Spots /\ u.begun = s.begun /\ u.ended = s.ended
      /\ u.kind = s.kind /\ u.open = s.open /\ u.call = s.call /\ SaidMore(s, u, i, p)
  BY <1>1, SayingSpot
<1>6. /\ view.items \in Seq(Block) /\ DOMAIN view.items = 1 .. Len(view.items)
  BY ItemsTyped
<1>7. Aligned(view.items, view'.items)
  BY <1>4, GrowsAligned
<1>8. DOMAIN view'.items = DOMAIN view.items
  BY <1>4, <1>6, <1>7, LenProperties DEF Aligned
<1>9. Tells(view'.items, u)
  <2>1. Takes(view.items, k, s, i)
    BY <1>1, <1>2, StandsTakes
  <2>2. Reads(view.items, s) /\ ToolCalls(view.items) = s.calls
    BY DEF ShownByMessages, Tells
  <2>3. Reads(view'.items, u) /\ ToolCalls(view'.items) = u.calls
    BY <1>1, <1>4, <1>5, <1>6, <2>1, <2>2, TakesGrows
  <2> QED
    BY <2>3 DEF Tells
<1>10. ASSUME NEW j \in DOMAIN view'.items
       PROVE  Named(u, j)'
  <2>1. j \in DOMAIN view.items /\ Named(s, j)
    BY <1>8 DEF ShownByMessages
  <2>2. ~view.items[j].done => Stands(view'.items, j, u, view.items[j].at)
    <3>1. SUFFICES ASSUME ~view.items[j].done
                   PROVE  Stands(view'.items, j, u, view.items[j].at)
      OBVIOUS
    <3>2. Stands(view.items, j, s, view.items[j].at)
      BY <2>1, <3>1 DEF Named
    <3> QED
      BY <1>4, <1>5, <1>6, <1>7, <3>2, StandsAligned
  <2>3. /\ view'.items[j].at = view.items[j].at /\ view'.items[j].done = view.items[j].done
    BY <1>4, <2>1
  <2>4. \A n \in DOMAIN view'.items : view'.items[n].at = view'.items[j].at => n = j
    BY <1>4, <1>8, <2>1 DEF Named
  <2> QED
    BY <1>5, <2>1, <2>2, <2>3, <2>4 DEF Named
<1>11. ASSUME NEW j \in u.open
       PROVE  \E n \in DOMAIN view'.items : view'.items[n].at = j
  BY <1>4, <1>5, <1>8 DEF ShownByMessages
<1>12. Frame(u)'
  BY <1>1, <1>4, <1>5, FrameGoesOn
<1> QED
  BY <1>9, <1>10, <1>11, <1>12 DEF ShownByMessages

LEMMA MessagesCloses ==
  ASSUME view \in View, NEW e \in Event, WriteDone(e.index, <<>>),
         NEW s \in Spots, Frame(s), ShownByMessages(s), s.ended = "no",
         NEW u, Closes(s, e, u)
  PROVE  (Frame(u) /\ ShownByMessages(u))'
<1> DEFINE i == e.index
           whole == <<>>
<1>1. /\ i \in Indexes /\ i \in Nat /\ i \in s.open /\ s.begun /\ u = Closing(s, i)
  BY IndexOf, EventFields DEF Closes
<1>2. PICK k \in DOMAIN view.items : Only(i, k) /\ Stands(view.items, k, s, i)
  BY <1>1, NamedOnly
<1>3. WriteDone(i, whole) /\ whole \in Seq(Nat)
  OBVIOUS
<1> HIDE DEF i, whole
<1>4. /\ view'.items \in Seq(Block) /\ Finishes(view.items, view'.items, k, whole)
      /\ view'.begun = view.begun /\ view'.ends = view.ends
      /\ view'.faults = view.faults \cup Blames(FALSE)
  BY <1>1, <1>2, <1>3, DoneWritten
<1>5. /\ u \in Spots /\ u.begun = s.begun /\ u.ended = s.ended /\ u.open = s.open \ {i}
      /\ u.kind = s.kind /\ u.call = s.call /\ SameAnswer(s, u)
  BY <1>1, ClosingSpot DEF SameAnswer
<1>6. /\ view.items \in Seq(Block) /\ DOMAIN view.items = 1 .. Len(view.items)
      /\ view.items[k].at = i
  BY <1>2, ItemsTyped DEF Only
<1>7. /\ Aligned(view.items, view'.items)
      /\ \A j \in 1 .. Len(view.items) : view'.items[j].data = view.items[j].data
      /\ \A j \in DOMAIN view.items : view'.items[j].at = view.items[j].at
      /\ \A j \in DOMAIN view.items : j # k => view'.items[j] = view.items[j]
      /\ view'.items[k].done = TRUE
  BY <1>4, <1>6 DEF Finishes
<1>8. DOMAIN view'.items = DOMAIN view.items
  BY <1>4, <1>6, <1>7, LenProperties DEF Aligned
<1>9. Tells(view'.items, u)
  <2>1. Tells(view'.items, s)
    BY <1>4, <1>6, <1>7, AnswersAligned DEF ShownByMessages, Tells, Reads
  <2> QED
    BY <1>5, <2>1, TellsSame
<1>10. ASSUME NEW j \in DOMAIN view'.items
       PROVE  Named(u, j)'
  <2>1. j \in DOMAIN view.items /\ Named(s, j)
    BY <1>8 DEF ShownByMessages
  <2>2. view'.items[j].at = view.items[j].at
    BY <1>7, <2>1
  <2>3. \A n \in DOMAIN view'.items : view'.items[n].at = view'.items[j].at => n = j
    BY <1>7, <1>8, <2>1 DEF Named
  <2>4. CASE j = k
    <3>1. view'.items[j].done = TRUE /\ view.items[j].at \notin u.open
      BY <1>5, <1>6, <1>7, <2>4
    <3> QED
      BY <1>5, <2>1, <2>2, <2>3, <3>1 DEF Named
  <2>5. CASE j # k
    <3>1. view'.items[j] = view.items[j] /\ view.items[j].at # i
      BY <1>2, <1>6, <1>7, <2>1, <2>5 DEF Named
    <3>2. view.items[j].at \in u.open <=> view.items[j].at \in s.open
      BY <1>5, <3>1
    <3>3. ~view.items[j].done => Stands(view'.items, j, u, view.items[j].at)
      <4>1. SUFFICES ASSUME ~view.items[j].done
                     PROVE  Stands(view'.items, j, u, view.items[j].at)
        OBVIOUS
      <4>2. Stands(view.items, j, s, view.items[j].at)
        BY <2>1, <4>1 DEF Named
      <4> QED
        BY <1>4, <1>5, <1>6, <1>7, <4>2, StandsAligned
    <3> QED
      BY <1>5, <2>1, <2>2, <2>3, <3>1, <3>2, <3>3 DEF Named
  <2> QED
    BY <2>4, <2>5
<1>11. ASSUME NEW j \in u.open
       PROVE  \E n \in DOMAIN view'.items : view'.items[n].at = j
  BY <1>5, <1>7, <1>8 DEF ShownByMessages
<1>12. Frame(u)'
  BY <1>1, <1>4, <1>5, FrameGoesOn
<1> QED
  BY <1>9, <1>10, <1>11, <1>12 DEF ShownByMessages

LEMMA MessagesShow ==
  ASSUME view \in View, pipe.to = "messages", pipe' = pipe,
         NEW e \in Event, e.type # "error", EncodeMessages(e),
         NEW s \in Spots, Frame(s), ShownByMessages(s),
         NEW u, Step(s, e, u)
  PROVE  (Frame(u) /\ ShownByMessages(u))'
<1>1. CASE e.type = "usage" /\ u = s
  <2>1. view' = view
    BY <1>1 DEF EncodeMessages
  <2>2. Frame(u)'
    BY <1>1, <2>1 DEF Frame, EndStatus
  <2>3. ShownByMessages(u)'
    BY <1>1, <2>1 DEF ShownByMessages, Named
  <2> QED
    BY <2>2, <2>3
<1>2. CASE s.ended = "no" /\ Begins(s, e, u)
  <2>1. WriteBegin
    BY <1>2 DEF EncodeMessages, Begins
  <2> QED
    BY <1>2, <2>1, FrameBegins, MessagesSame
<1>3. CASE s.ended = "no" /\ Opens(s, e, u)
  <2>1. e.kind \in Kinds /\ WriteItem(e.index, e.kind, <<>>)
    BY <1>3, EventFields DEF EncodeMessages, Opens, Starts
  <2> QED
    BY <1>3, <2>1, MessagesOpens
<1>4. CASE s.ended = "no" /\ Speaks(s, e, u)
  <2>1. WriteDelta(e.index, e.piece)
    BY <1>4 DEF EncodeMessages, MessagesRefuses, Speaks, Deltas
  <2> QED
    BY <1>4, <2>1, MessagesSpeaks
<1>5. CASE s.ended = "no" /\ Closes(s, e, u)
  <2>1. WriteDone(e.index, <<>>)
    BY <1>5 DEF EncodeMessages, Closes
  <2> QED
    BY <1>5, <2>1, MessagesCloses
<1>6. CASE s.ended = "no" /\ Stops(s, e, u)
  <2>1. WriteEnd("completed", e.reason, <<>>)
    BY <1>6 DEF EncodeMessages, Stops
  <2> QED
    BY <1>6, <2>1, FrameEnds, MessagesSame
<1> QED
  BY <1>1, <1>2, <1>3, <1>4, <1>5, <1>6 DEF Step, Breaks

-----------------------------------------------------------------------------

(* A Chat stream names an item by the number of its call; its only other   *)
(* item is its text.                                                       *)
Listed(k) ==
  /\ view.items[k].done = FALSE
  /\ \/ view.items[k].at = NoBlock /\ view.items[k].kind = "text"
     \/ /\ view.items[k].kind = "tool" /\ view.items[k].at < NoBlock
        /\ RankOf(view.items, k) = view.items[k].at + 1
  /\ \A j \in DOMAIN view.items : view.items[j].at = view.items[k].at => j = k

ShownByChat(s) ==
  /\ toChat.nextTool = Len(s.calls) /\ Len(s.calls) <= NoBlock
  /\ \A i \in Indexes :
       /\ s.kind[i] = "tool" => toChat.toolIndexes[i] + 1 = s.call[i]
       /\ s.kind[i] # "tool" => toChat.toolIndexes[i] = NoBlock
  /\ \A k \in DOMAIN view.items : Listed(k)
  /\ \A n \in 1 .. Len(s.calls) : \E k \in DOMAIN view.items : view.items[k].at = n - 1
  /\ Tells(view.items, s)

LEMMA RankStays ==
  ASSUME NEW b \in Seq(Block), NEW x \in Block, NEW k \in DOMAIN b
  PROVE  RankOf(Append(b, x), k) = RankOf(b, k)
<1>1. k \in 0 .. Len(b)
  BY LenProperties
<1> QED
  BY <1>1, DataOfMore DEF RankOf, Place

LEMMA RankBound ==
  ASSUME NEW b \in Seq(Block), NEW k \in DOMAIN b, b[k].kind = "tool"
  PROVE  RankOf(b, k) \in 1 .. Len(ToolCalls(b))
<1>1. k \in 1 .. Len(b) /\ Len(b) \in k .. Len(b) /\ b[k].kind \in {"tool"}
  BY LenProperties
<1>2. Len(DataUpTo(b, {"tool"})[k]) \in 1 .. Len(DataUpTo(b, {"tool"})[Len(b)])
  BY <1>1, PlaceOf
<1> QED
  BY <1>2 DEF RankOf, Place, ToolCalls, DataOf

LEMMA ChatSame ==
  ASSUME NEW s, ShownByChat(s), NEW u,
         u.text = s.text, u.reasoning = s.reasoning, u.calls = s.calls,
         \A i \in Indexes : /\ u.kind[i] = "tool" <=> s.kind[i] = "tool"
                            /\ s.kind[i] = "tool" => u.call[i] = s.call[i],
         toChat' = toChat, view'.items = view.items
  PROVE  ShownByChat(u)'
BY DEF ShownByChat, Listed, Tells, Reads

LEMMA ChatToolOpens ==
  ASSUME view \in View, toChat \in ChatEncoder, NEW e \in Event, StartChatTool(e),
         NEW s \in Spots, Frame(s), ShownByChat(s), s.ended = "no",
         NEW u, Opens(s, e, u), e.kind = "tool"
  PROVE  (Frame(u) /\ ShownByChat(u))'
<1> DEFINE i == e.index
           n == toChat.nextTool
           kind == "tool"
           x == Opened(n, kind, <<>>)
<1>1. /\ i \in Indexes /\ i \in Nat /\ Fresh(s, i) /\ u = Starting(s, i, kind) /\ s.begun
      /\ kind \in Kinds /\ kind \in Alike(kind) /\ kind \in Kinds \cup {"refusal"} /\ <<>> \in Seq(Nat)
  BY IndexOf, EventFields DEF Opens, Alike, Kinds
<1>2. /\ view.items \in Seq(Block) /\ DOMAIN view.items = 1 .. Len(view.items)
      /\ Len(view.items) \in Nat /\ Len(s.calls) \in Nat /\ s.calls \in Seq(Seq(Nat))
  BY ItemsTyped, SpotParts
<1>3. n \in Nat /\ n = Len(s.calls) /\ n <= i /\ n < NoBlock
  <2>1. Len(s.calls) <= i
    BY <1>1, SpotParts DEF Numbered
  <2> QED
    BY <1>1, <1>2, <2>1, StreamBounds DEF ShownByChat, Indexes, NoBlock
<1>4. s.kind[i] = "none" /\ toChat.toolIndexes[i] = NoBlock
  BY <1>1, SpotOpen DEF ShownByChat
<1>5. /\ toChat'.nextTool = n + 1
      /\ toChat'.toolIndexes[i] = n
      /\ \A j \in Indexes : j # i => toChat'.toolIndexes[j] = toChat.toolIndexes[j]
      /\ WriteItem(n, kind, <<>>)
  <2>1. /\ toChat' = [toChat EXCEPT !.toolIndexes[i] = n, !.nextTool = @ + 1]
        /\ WriteItem(n, kind, <<>>)
    BY <1>4 DEF StartChatTool
  <2>2. toChat.toolIndexes \in [Indexes -> Nat \cup {NoBlock}]
    BY DEF ChatEncoder
  <2> QED
    BY <1>1, <2>1, <2>2 DEF ChatEncoder
<1> HIDE DEF n, kind
<1>6. /\ x \in Block /\ view'.items = Append(view.items, x)
      /\ Len(view'.items) = Len(view.items) + 1
      /\ view'.items[Len(view.items) + 1] = x
      /\ \A j \in DOMAIN view.items : view'.items[j] = view.items[j]
      /\ view'.begun = view.begun /\ view'.ends = view.ends
      /\ view'.faults = view.faults \cup Blames(IsOpen(n))
  BY <1>1, <1>2, <1>3, <1>5, ItemWritten
<1>7. x.kind = "tool" /\ x.data = <<>> /\ x.at = n /\ x.done = FALSE
  BY DEF Opened, kind
<1> HIDE DEF x, i
<1>8. /\ Tells(view'.items, u) /\ Adds(s, u, i, kind) /\ u \in Spots
  <2>1. x.kind \in Alike(kind) /\ x.data = <<>>
    BY <1>7 DEF Alike, kind
  <2> QED
    BY <1>1, <1>2, <1>6, <2>1, TellsMore DEF ShownByChat
<1>9. /\ u.calls = Append(s.calls, <<>>)
      /\ u.kind[i] = "tool" /\ u.call[i] = Len(s.calls) + 1
      /\ \A j \in Indexes : j # i => u.kind[j] = s.kind[j] /\ u.call[j] = s.call[j]
  BY <1>1, <1>8, StartingSpot DEF Adds, kind
<1>10. Len(u.calls) = n + 1 /\ n + 1 <= NoBlock
  BY <1>2, <1>3, <1>9, StreamBounds, AppendProperties DEF NoBlock
<1>11. u.begun = s.begun
  BY <1>1 DEF Starting, Spots, Spot
<1>12. u.ended = s.ended
  BY <1>1, StartingSpot
<1>13. \A k \in DOMAIN view.items : view.items[k].at # n /\ Listed(k)
  <2> TAKE k \in DOMAIN view.items
  <2>1. Listed(k)
    BY DEF ShownByChat
  <2>2. CASE view.items[k].at = NoBlock
    BY <1>3, <2>1, <2>2, StreamBounds DEF NoBlock
  <2>3. CASE view.items[k].kind = "tool" /\ RankOf(view.items, k) = view.items[k].at + 1
    <3>1. RankOf(view.items, k) \in 1 .. Len(ToolCalls(view.items))
      BY <1>2, <2>3, RankBound
    <3>2. RankOf(view.items, k) <= n
      BY <1>2, <1>3, <3>1 DEF ShownByChat, Tells
    <3> QED
      BY <1>2, <1>3, <2>1, <2>3, <3>1, <3>2
  <2> QED
    BY <2>1, <2>2, <2>3 DEF Listed
<1>14. IsOpen(n) = FALSE
  BY <1>13 DEF IsOpen
<1>15. Frame(u)'
  BY <1>1, <1>6, <1>11, <1>12, <1>14, FrameGoesOn
<1>16. DOMAIN view'.items = 1 .. Len(view.items) + 1
  BY <1>2, <1>6, AppendProperties, LenProperties
<1>17. ASSUME NEW k \in DOMAIN view'.items
       PROVE  Listed(k)'
  <2>1. CASE k = Len(view.items) + 1
    <3>1. Stands(Append(view.items, x), Len(view.items) + 1, u, i)
      <4>1. ToolCalls(view.items) = s.calls /\ x.kind \in Alike(kind)
        BY <1>7 DEF ShownByChat, Tells, Alike, kind
      <4> QED
        BY <1>1, <1>2, <1>6, <1>8, <4>1, StandsAtEnd
    <3>2. RankOf(view'.items, k) = n + 1
      BY <1>3, <1>6, <1>9, <2>1, <3>1 DEF Stands
    <3>3. \A j \in DOMAIN view'.items : view'.items[j].at = n => j = k
      BY <1>2, <1>6, <1>13, <1>16, <2>1
    <3>4. view'.items[k] = x
      BY <1>6, <2>1
    <3> QED
      BY <1>3, <1>7, <3>2, <3>3, <3>4 DEF Listed
  <2>2. CASE k # Len(view.items) + 1
    <3>1. k \in DOMAIN view.items /\ view'.items[k] = view.items[k]
      BY <1>2, <1>6, <1>16, <2>2
    <3>2. Listed(k) /\ view.items[k].at # n
      BY <1>13, <3>1
    <3>3. RankOf(view'.items, k) = RankOf(view.items, k)
      BY <1>2, <1>6, <3>1, RankStays
    <3>4. \A j \in DOMAIN view'.items : view'.items[j].at = view.items[k].at => j = k
      <4> TAKE j \in DOMAIN view'.items
      <4>1. CASE j = Len(view.items) + 1
        BY <1>6, <1>7, <3>2, <4>1
      <4>2. CASE j # Len(view.items) + 1
        <5>1. j \in DOMAIN view.items /\ view'.items[j] = view.items[j]
          BY <1>2, <1>6, <1>16, <4>2
        <5> QED
          BY <3>2, <5>1 DEF Listed
      <4> QED
        BY <4>1, <4>2
    <3> QED
      BY <3>1, <3>2, <3>3, <3>4 DEF Listed
  <2> QED
    BY <2>1, <2>2
<1>18. ASSUME NEW m \in 1 .. Len(u.calls)
       PROVE  \E k \in DOMAIN view'.items : view'.items[k].at = m - 1
  <2>1. CASE m = n + 1
    <3>1. Len(view.items) + 1 \in DOMAIN view'.items /\ view'.items[Len(view.items) + 1].at = m - 1
      BY <1>2, <1>3, <1>6, <1>7, <1>16, <2>1
    <3> QED
      BY <3>1
  <2>2. CASE m # n + 1
    <3>1. m \in 1 .. Len(s.calls)
      BY <1>3, <1>10, <2>2
    <3>2. PICK k \in DOMAIN view.items : view.items[k].at = m - 1
      BY <3>1 DEF ShownByChat
    <3>3. k \in DOMAIN view'.items /\ view'.items[k] = view.items[k]
      BY <1>2, <1>6, <1>16
    <3> QED
      BY <3>2, <3>3
  <2> QED
    BY <2>1, <2>2
<1>19. ASSUME NEW j \in Indexes
       PROVE  /\ u.kind[j] = "tool" => toChat'.toolIndexes[j] + 1 = u.call[j]
              /\ u.kind[j] # "tool" => toChat'.toolIndexes[j] = NoBlock
  BY <1>3, <1>5, <1>9 DEF ShownByChat
<1> QED
  BY <1>5, <1>8, <1>10, <1>15, <1>17, <1>18, <1>19 DEF ShownByChat

-----------------------------------------------------------------------------

(* A piece of a text that has been read grows with the answer.             *)
LEMMA TellsNewText ==
  ASSUME NEW b \in Seq(Block), NEW x \in Block, NEW s \in Spots, NEW u, NEW i \in Indexes,
         NEW p \in Nat, SaidMore(s, u, i, p), s.kind[i] = "text",
         x.kind = "text", x.data = Pieces(p)
  PROVE  /\ Reads(b, s) => Reads(Append(b, x), u)
         /\ ToolCalls(Append(b, x)) = ToolCalls(b) /\ u.calls = s.calls
<1> DEFINE c == Append(b, x)
<1>1. /\ Text(c) = IF x.kind \in Alike("text") THEN Text(b) \o x.data ELSE Text(b)
      /\ Reasoning(c) = IF x.kind = "reasoning" THEN Reasoning(b) \o x.data ELSE Reasoning(b)
      /\ ToolCalls(c) = IF x.kind = "tool" THEN Append(ToolCalls(b), x.data) ELSE ToolCalls(b)
  BY AnswersMore
<1> HIDE DEF c
<1>2. x.kind \in Alike("text")
  BY DEF Alike
<1>3. u.text = s.text \o Pieces(p) /\ u.reasoning = s.reasoning /\ u.calls = s.calls
  BY DEF SaidMore
<1>4. Text(c) = Text(b) \o Pieces(p) /\ Reasoning(c) = Reasoning(b) /\ ToolCalls(c) = ToolCalls(b)
  BY <1>1, <1>2
<1>5. Reads(b, s) => Reads(c, u)
  BY <1>3, <1>4 DEF Reads
<1> QED
  BY <1>3, <1>4, <1>5 DEF c

LEMMA ChatGrows ==
  ASSUME view \in View, NEW at \in Nat, NEW p \in Nat, WriteDelta(at, p), toChat' = toChat,
         NEW s \in Spots, Frame(s), ShownByChat(s), s.ended = "no", s.begun,
         NEW i \in Indexes, s.kind[i] # "none",
         NEW k, Only(at, k), Takes(view.items, k, s, i)
  PROVE  (Frame(Saying(s, i, p)) /\ ShownByChat(Saying(s, i, p)))'
<1> DEFINE u == Saying(s, i, p)
<1>1. /\ view'.items \in Seq(Block)
      /\ Grows(view.items, view'.items, k, Pieces(p))
      /\ \A j \in DOMAIN view.items :
           /\ view'.items[j].at = view.items[j].at /\ view'.items[j].done = view.items[j].done
           /\ view'.items[j].whole = view.items[j].whole
      /\ view'.begun = view.begun /\ view'.ends = view.ends
      /\ view'.faults = view.faults \cup Blames(FALSE)
  BY DeltaWritten
<1>2. /\ u \in Spots /\ u.begun = s.begun /\ u.ended = s.ended
      /\ u.kind = s.kind /\ u.call = s.call /\ SaidMore(s, u, i, p)
  BY SayingSpot
<1> HIDE DEF u
<1>3. /\ view.items \in Seq(Block) /\ DOMAIN view.items = 1 .. Len(view.items)
  BY ItemsTyped
<1>4. Aligned(view.items, view'.items)
  BY <1>1, GrowsAligned
<1>5. DOMAIN view'.items = DOMAIN view.items
  BY <1>1, <1>3, <1>4, LenProperties DEF Aligned
<1>6. Reads(view'.items, u) /\ ToolCalls(view'.items) = u.calls
  <2>1. Reads(view.items, s) /\ ToolCalls(view.items) = s.calls
    BY DEF ShownByChat, Tells
  <2> QED
    BY <1>1, <1>2, <1>3, <2>1, TakesGrows
<1>7. Len(u.calls) = Len(s.calls)
  <2>1. s.calls \in Seq(Seq(Nat))
    BY SpotParts
  <2> QED
    BY <1>2, <2>1, LenProperties, ExceptSeq DEF SaidMore
<1>8. ASSUME NEW j \in DOMAIN view'.items
      PROVE  Listed(j)'
  <2>1. j \in DOMAIN view.items /\ Listed(j)
    BY <1>5 DEF ShownByChat
  <2>2. /\ view'.items[j].at = view.items[j].at /\ view'.items[j].done = view.items[j].done
    BY <1>1, <2>1
  <2>3. RankOf(view'.items, j) = RankOf(view.items, j) /\ view'.items[j].kind = view.items[j].kind
    BY <1>1, <1>3, <1>4, <2>1, AlignedRanks
  <2>4. \A n \in DOMAIN view'.items : view'.items[n].at = view'.items[j].at => n = j
    BY <1>1, <1>5, <2>1 DEF Listed
  <2> QED
    BY <2>1, <2>2, <2>3, <2>4 DEF Listed
<1>9. ASSUME NEW n \in 1 .. Len(u.calls)
      PROVE  \E j \in DOMAIN view'.items : view'.items[j].at = n - 1
  BY <1>1, <1>5, <1>7 DEF ShownByChat
<1>10. Frame(u)'
  BY <1>1, <1>2, FrameGoesOn
<1>11. ShownByChat(u)'
  <2>1. \A j \in Indexes :
          /\ u.kind[j] = "tool" => toChat'.toolIndexes[j] + 1 = u.call[j]
          /\ u.kind[j] # "tool" => toChat'.toolIndexes[j] = NoBlock
    BY <1>2 DEF ShownByChat
  <2>2. toChat'.nextTool = Len(u.calls) /\ Len(u.calls) <= NoBlock
    BY <1>7 DEF ShownByChat
  <2> QED
    BY <1>6, <1>8, <1>9, <2>1, <2>2 DEF ShownByChat, Tells
<1> QED
  BY <1>10, <1>11 DEF u

LEMMA ChatSpeaks ==
  ASSUME view \in View, toChat \in ChatEncoder, NEW e \in Event, toChat' = toChat,
         NEW s \in Spots, Frame(s), ShownByChat(s), s.ended = "no",
         NEW u, Speaks(s, e, u),
         \/ e.type = "text_delta" /\ WriteChatText(e.piece)
         \/ e.type = "tool_call_delta" /\ WriteDelta(toChat.toolIndexes[e.index], e.piece)
  PROVE  (Frame(u) /\ ShownByChat(u))'
<1> DEFINE i == e.index
           p == e.piece
<1>1. /\ i \in Indexes /\ i \in Nat /\ p \in Nat /\ i \in s.open /\ s.begun
      /\ u = Saying(s, i, p) /\ s.kind[i] # "none" /\ s.kind[i] = DeltaKind(e)
      /\ s.kind[i] \in Kinds
  BY IndexOf, EventFields, SpotParts DEF Speaks, DeltaKind, Kinds
<1>2. /\ view.items \in Seq(Block) /\ DOMAIN view.items = 1 .. Len(view.items)
      /\ Len(view.items) \in Nat /\ NoBlock \in Nat
  BY ItemsTyped, StreamBounds DEF NoBlock
<1>3. CASE e.type = "tool_call_delta" /\ WriteDelta(toChat.toolIndexes[i], p)
  <2> DEFINE at == toChat.toolIndexes[i]
  <2>1. s.kind[i] = "tool" /\ at + 1 = s.call[i] /\ s.call[i] \in 1 .. Len(s.calls) /\ at \in Nat
    BY <1>1, <1>2, <1>3, SpotParts DEF DeltaKind, ShownByChat, ChatEncoder, Numbered
  <2>2. PICK k \in DOMAIN view.items : view.items[k].at = s.call[i] - 1
    BY <2>1 DEF ShownByChat
  <2> HIDE DEF at
  <2>3. view.items[k].at = at
    BY <2>1, <2>2
  <2>4. Listed(k) /\ at < NoBlock
    <3>1. at + 1 <= Len(s.calls) /\ Len(s.calls) \in Nat
      BY <2>1, SpotParts
    <3>2. Len(s.calls) <= NoBlock /\ Listed(k)
      BY DEF ShownByChat
    <3> QED
      BY <1>2, <2>1, <3>1, <3>2
  <2>5. view.items[k].kind = "tool" /\ RankOf(view.items, k) = s.call[i]
    BY <1>2, <2>1, <2>3, <2>4 DEF Listed
  <2>6. Only(at, k)
    BY <2>3, <2>4 DEF Only, Listed
  <2>7. Takes(view.items, k, s, i)
    BY <1>1, <2>1, <2>5 DEF Takes, Alike
  <2>8. WriteDelta(at, p)
    BY <1>3 DEF at
  <2> HIDE DEF i, p
  <2> QED
    BY <1>1, <2>1, <2>6, <2>7, <2>8, ChatGrows
<1>4. CASE e.type = "text_delta" /\ WriteChatText(p) /\ IsOpen(NoBlock)
  <2>1. PICK k \in DOMAIN view.items : view.items[k].at = NoBlock
    BY <1>4 DEF IsOpen
  <2>2. Listed(k)
    BY DEF ShownByChat
  <2>3. view.items[k].kind = "text" /\ Only(NoBlock, k)
    BY <1>2, <2>1, <2>2 DEF Only, Listed
  <2>4. s.kind[i] = "text" /\ WriteDelta(NoBlock, p)
    BY <1>1, <1>4 DEF DeltaKind, WriteChatText
  <2>5. \A j \in DOMAIN view.items : j > k => view.items[j].kind \notin Alike("text")
    <3> TAKE j \in DOMAIN view.items
    <3>1. Listed(j)
      BY DEF ShownByChat
    <3> QED
      BY <1>2, <2>1, <2>2, <3>1 DEF Listed, Alike
  <2>6. Takes(view.items, k, s, i)
    BY <1>1, <2>3, <2>4, <2>5 DEF Takes, Alike
  <2> HIDE DEF i, p
  <2> QED
    BY <1>1, <1>2, <2>3, <2>4, <2>6, ChatGrows
<1>5. CASE e.type = "text_delta" /\ WriteChatText(p) /\ ~IsOpen(NoBlock)
  <2> DEFINE data == Pieces(p)
             x == Opened(NoBlock, "text", data)
  <2>1. /\ WriteItem(NoBlock, "text", data) /\ data \in Seq(Nat) /\ s.kind[i] = "text"
        /\ "text" \in Kinds \cup {"refusal"}
    BY <1>1, <1>5, PieceSeq DEF WriteChatText, DeltaKind
  <2> HIDE DEF data, i, p
  <2>2. /\ x \in Block /\ view'.items = Append(view.items, x)
        /\ Len(view'.items) = Len(view.items) + 1
        /\ view'.items[Len(view.items) + 1] = x
        /\ \A j \in DOMAIN view.items : view'.items[j] = view.items[j]
        /\ view'.begun = view.begun /\ view'.ends = view.ends
        /\ view'.faults = view.faults \cup Blames(IsOpen(NoBlock))
    BY <1>2, <2>1, ItemWritten
  <2>3. x.kind = "text" /\ x.data = data /\ x.at = NoBlock /\ x.done = FALSE
    BY DEF Opened
  <2> HIDE DEF x
  <2>4. /\ u \in Spots /\ u.begun = s.begun /\ u.ended = s.ended
        /\ u.kind = s.kind /\ u.call = s.call /\ SaidMore(s, u, i, p)
    BY <1>1, SayingSpot
  <2>5. Reads(view'.items, u) /\ ToolCalls(view'.items) = ToolCalls(view.items) /\ u.calls = s.calls
    <3>1. Reads(view.items, s)
      BY DEF ShownByChat, Tells
    <3> QED
      BY <1>1, <1>2, <2>1, <2>2, <2>3, <2>4, <3>1, TellsNewText DEF data
  <2>6. Frame(u)'
    <3>1. IsOpen(NoBlock) = FALSE
      BY <1>5 DEF IsOpen
    <3> QED
      BY <1>1, <2>2, <2>4, <3>1, FrameGoesOn
  <2>7. DOMAIN view'.items = 1 .. Len(view.items) + 1
    BY <1>2, <2>2, AppendProperties, LenProperties
  <2>8. \A k \in DOMAIN view.items : view.items[k].at # NoBlock /\ Listed(k)
    BY <1>5 DEF IsOpen, ShownByChat, Listed
  <2>9. ASSUME NEW k \in DOMAIN view'.items
        PROVE  Listed(k)'
    <3>1. CASE k = Len(view.items) + 1
      <4>1. \A j \in DOMAIN view'.items : view'.items[j].at = NoBlock => j = k
        BY <1>2, <2>2, <2>7, <2>8, <3>1
      <4> QED
        BY <2>2, <2>3, <3>1, <4>1 DEF Listed
    <3>2. CASE k # Len(view.items) + 1
      <4>1. k \in DOMAIN view.items /\ view'.items[k] = view.items[k]
        BY <1>2, <2>2, <2>7, <3>2
      <4>2. Listed(k) /\ view.items[k].at # NoBlock
        BY <2>8, <4>1
      <4>3. RankOf(view'.items, k) = RankOf(view.items, k)
        BY <1>2, <2>2, <4>1, RankStays
      <4>4. \A j \in DOMAIN view'.items : view'.items[j].at = view.items[k].at => j = k
        <5> TAKE j \in DOMAIN view'.items
        <5>1. CASE j = Len(view.items) + 1
          BY <2>2, <2>3, <4>2, <5>1
        <5>2. CASE j # Len(view.items) + 1
          <6>1. j \in DOMAIN view.items /\ view'.items[j] = view.items[j]
            BY <1>2, <2>2, <2>7, <5>2
          <6> QED
            BY <4>2, <6>1 DEF Listed
        <5> QED
          BY <5>1, <5>2
      <4> QED
        BY <4>1, <4>2, <4>3, <4>4 DEF Listed
    <3> QED
      BY <3>1, <3>2
  <2>10. ASSUME NEW n \in 1 .. Len(u.calls)
         PROVE  \E k \in DOMAIN view'.items : view'.items[k].at = n - 1
    <3>1. PICK k \in DOMAIN view.items : view.items[k].at = n - 1
      BY <2>5 DEF ShownByChat
    <3>2. k \in DOMAIN view'.items /\ view'.items[k] = view.items[k]
      BY <1>2, <2>2, <2>7
    <3> QED
      BY <3>1, <3>2
  <2>11. ShownByChat(u)'
    BY <2>4, <2>5, <2>9, <2>10 DEF ShownByChat, Tells
  <2> QED
    BY <2>6, <2>11
<1> QED
  BY <1>3, <1>4, <1>5 DEF i, p

LEMMA ChatShow ==
  ASSUME view \in View, toChat \in ChatEncoder, pipe.to = "chat", pipe' = pipe,
         NEW e \in Event, EncodeChat(e),
         NEW s \in Spots, Frame(s), ShownByChat(s),
         NEW u, Step(s, e, u)
  PROVE  (Frame(u) /\ ShownByChat(u))'
<1>0. e.type \notin {"reasoning_delta", "error"}
  BY DEF EncodeChat, ChatRefuses
<1>1. CASE e.type = "usage" /\ u = s
  <2>1. view' = view /\ toChat' = toChat
    BY <1>1 DEF EncodeChat
  <2>2. Frame(u)'
    BY <1>1, <2>1 DEF Frame, EndStatus
  <2> QED
    BY <1>1, <2>1, <2>2, ChatSame
<1>2. CASE s.ended = "no" /\ Begins(s, e, u)
  <2>1. WriteBegin /\ toChat' = toChat
    BY <1>2 DEF EncodeChat, Begins
  <2> QED
    BY <1>2, <2>1, FrameBegins, ChatSame DEF SameAnswer
<1>3. CASE s.ended = "no" /\ Opens(s, e, u) /\ e.kind = "tool"
  <2>1. StartChatTool(e)
    BY <1>3 DEF EncodeChat, Opens
  <2> QED
    BY <1>3, <2>1, ChatToolOpens
<1>4. CASE s.ended = "no" /\ Opens(s, e, u) /\ e.kind # "tool"
  <2>1. view' = view /\ toChat' = toChat
    BY <1>4 DEF EncodeChat, Opens, Starts
  <2>2. /\ e.index \in Indexes /\ e.kind \in Kinds /\ Fresh(s, e.index)
        /\ u = Starting(s, e.index, e.kind)
    BY <1>4, IndexOf DEF Opens
  <2>3. /\ u.text = s.text /\ u.reasoning = s.reasoning /\ u.calls = s.calls
        /\ s.kind[e.index] = "none" /\ u.kind[e.index] = e.kind
    BY <1>4, <2>2, StartingSpot, SpotOpen
  <2>4. \A j \in Indexes : j # e.index => u.kind[j] = s.kind[j] /\ u.call[j] = s.call[j]
    BY <2>2, StartingSpot
  <2>5. u.ended = s.ended
    BY <2>2, StartingSpot
  <2>6. u.begun = s.begun
    BY <2>2 DEF Starting, Spots, Spot
  <2>7. Frame(u)'
    BY <1>4, <2>1, <2>5, <2>6 DEF Frame
  <2> QED
    BY <1>4, <2>1, <2>3, <2>4, <2>7, ChatSame
<1>5. CASE s.ended = "no" /\ Speaks(s, e, u)
  <2>1. /\ toChat' = toChat
        /\ \/ e.type = "text_delta" /\ WriteChatText(e.piece)
           \/ e.type = "tool_call_delta" /\ WriteDelta(toChat.toolIndexes[e.index], e.piece)
    BY <1>0, <1>5 DEF EncodeChat, Speaks, Deltas
  <2> QED
    BY <1>5, <2>1, ChatSpeaks
<1>6. CASE s.ended = "no" /\ Closes(s, e, u)
  <2>1. view' = view /\ toChat' = toChat
    BY <1>6 DEF EncodeChat, Closes
  <2>2. /\ u.begun = s.begun /\ u.ended = s.ended /\ SameAnswer(s, u)
    BY <1>6, ClosingSpot DEF SameAnswer, Closes
  <2>3. Frame(u)'
    BY <1>6, <2>1, <2>2 DEF Frame
  <2> QED
    BY <2>1, <2>2, <2>3, ChatSame DEF SameAnswer
<1>7. CASE s.ended = "no" /\ Stops(s, e, u)
  <2>1. WriteEnd("completed", e.reason, <<>>) /\ toChat' = toChat
    BY <1>7 DEF EncodeChat, Stops
  <2> QED
    BY <1>7, <2>1, FrameEnds, ChatSame DEF SameAnswer
<1> QED
  BY <1>0, <1>1, <1>2, <1>3, <1>4, <1>5, <1>6, <1>7 DEF Step, Breaks

-----------------------------------------------------------------------------

(* A Gemini stream has parts in order, texts as they come and each call    *)
(* when it is complete; the encoder keeps the calls that are not.          *)
InPlace(k) ==
  view.items[k].at = k /\ view.items[k].done = FALSE /\ view.items[k].kind \in {"text", "tool"}

Called == ToolCalls(view.items)

Gathered(s) ==
  /\ \A i \in Indexes : i \in toGemini.tools <=> i \in s.open /\ s.kind[i] = "tool"
  /\ \A i \in toGemini.tools :
       toGemini.arguments[i] = s.calls[s.call[i]] /\ s.call[i] > Len(Called)
  /\ \A n \in 1 .. Len(s.calls) : n > Len(Called) => \E i \in toGemini.tools : s.call[i] = n

ShownByGemini(s) ==
  /\ \A k \in DOMAIN view.items : InPlace(k)
  /\ Gathered(s)
  /\ Len(Called) <= Len(s.calls)
  /\ \A n \in 1 .. Len(Called) : Called[n] = s.calls[n]
  /\ s.ended = "stop" => Called = s.calls
  /\ Reads(view.items, s)

LEMMA GeminiParts ==
  ASSUME view \in View, NEW s \in Spots, toGemini \in GeminiEncoder
  PROVE  /\ view.items \in Seq(Block) /\ DOMAIN view.items = 1 .. Len(view.items)
         /\ Len(view.items) \in Nat /\ Parts = Len(view.items)
         /\ Called \in Seq(Seq(Nat)) /\ Len(Called) \in Nat /\ DOMAIN Called = 1 .. Len(Called)
         /\ s.calls \in Seq(Seq(Nat)) /\ Len(s.calls) \in Nat
         /\ DOMAIN s.calls = 1 .. Len(s.calls)
         /\ s.open \subseteq Indexes /\ toGemini.tools \subseteq Indexes
         /\ toGemini.arguments \in [Indexes -> Seq(Nat)]
<1>1. view.items \in Seq(Block) /\ Called \in Seq(Seq(Nat))
  BY ItemsTyped, AnswerTypes DEF Called
<1> QED
  BY <1>1, ItemsTyped, SpotParts, LenProperties DEF Parts, GeminiEncoder

(* Nothing but the open blocks changes, and those that are calls do not.   *)
LEMMA GeminiSame ==
  ASSUME view \in View, NEW s \in Spots, ShownByGemini(s), toGemini \in GeminiEncoder,
         NEW u, u.text = s.text, u.reasoning = s.reasoning, u.calls = s.calls,
         \A i \in Indexes : s.kind[i] = "tool" => u.call[i] = s.call[i],
         \A i \in Indexes : i \in u.open /\ u.kind[i] = "tool" <=> i \in s.open /\ s.kind[i] = "tool",
         u.ended # "stop",
         toGemini'.tools = toGemini.tools, toGemini'.arguments = toGemini.arguments,
         view'.items = view.items
  PROVE  ShownByGemini(u)'
<1>1. toGemini.tools \subseteq Indexes
  BY GeminiParts
<1>2. Gathered(u)'
  BY <1>1 DEF ShownByGemini, Gathered, Called
<1> QED
  BY <1>2 DEF ShownByGemini, InPlace, Called, Reads

LEMMA GeminiToolOpens ==
  ASSUME view \in View, toGemini \in GeminiEncoder, NEW e \in Event,
         toGemini' = [toGemini EXCEPT !.tools = @ \cup {e.index}, !.arguments[e.index] = <<>>],
         view' = view,
         NEW s \in Spots, Frame(s), ShownByGemini(s), s.ended = "no",
         NEW u, Opens(s, e, u), e.kind = "tool"
  PROVE  (Frame(u) /\ ShownByGemini(u))'
<1> DEFINE i == e.index
           kind == "tool"
           m == Len(s.calls) + 1
<1>1. /\ i \in Indexes /\ Fresh(s, i) /\ u = Starting(s, i, kind) /\ kind \in Kinds
  BY IndexOf DEF Opens, Kinds
<1>2. i \notin s.open /\ s.kind[i] = "none"
  BY <1>1, SpotOpen
<1>3. u.begun = s.begun
  BY <1>1 DEF Starting, Spots, Spot
<1>4. u.ended = s.ended /\ u.text = s.text /\ u.reasoning = s.reasoning
      /\ u.open = s.open \cup {i}
  BY <1>1, StartingSpot
<1>5. u.calls = Append(s.calls, <<>>) /\ u.call[i] = m /\ u.kind[i] = "tool"
  <2> HIDE DEF i
  <2>1. u.calls = Append(s.calls, <<>>)
    BY ZenonT(40), <1>1, StartingSpot
  <2>2. u.call[i] = m
    BY <1>1, StartingSpot
  <2>3. u.kind[i] = "tool"
    BY <1>1, StartingSpot
  <2> QED
    BY <2>1, <2>2, <2>3
<1>6. \A j \in Indexes : j # i => u.kind[j] = s.kind[j] /\ u.call[j] = s.call[j]
  BY <1>1, StartingSpot
<1>7. Frame(u)'
  BY <1>3, <1>4 DEF Frame
<1>8. /\ toGemini.tools \subseteq Indexes /\ s.calls \in Seq(Seq(Nat)) /\ Len(s.calls) \in Nat
      /\ Len(Called) \in Nat /\ toGemini.arguments \in [Indexes -> Seq(Nat)]
      /\ <<>> \in Seq(Nat)
  BY GeminiParts
<1> HIDE DEF i, kind
<1>9. /\ Len(u.calls) = m /\ u.calls[m] = <<>> /\ m \in Nat /\ m = Len(s.calls) + 1
      /\ \A n \in 1 .. Len(s.calls) : u.calls[n] = s.calls[n]
  BY <1>5, <1>8, AppendProperties
<1> HIDE DEF m
<1>10. /\ toGemini'.tools = toGemini.tools \cup {i} /\ toGemini'.arguments[i] = <<>>
       /\ \A j \in Indexes : j # i => toGemini'.arguments[j] = toGemini.arguments[j]
  <2>1. toGemini' = [toGemini EXCEPT !.tools = @ \cup {i}, !.arguments[i] = <<>>]
    BY DEF i
  <2> QED
    BY ZenonT(40), <1>1, <1>8, <2>1 DEF GeminiEncoder
<1>11. i \notin toGemini.tools
  BY <1>1, <1>2 DEF ShownByGemini, Gathered
<1>12. Len(Called) <= Len(s.calls)
  BY DEF ShownByGemini
<1>13. Called' = Called
  BY DEF Called
<1>14. Gathered(u)'
  <2>1. \A j \in Indexes : j \in toGemini'.tools <=> j \in u.open /\ u.kind[j] = "tool"
    BY <1>1, <1>4, <1>5, <1>6, <1>10 DEF ShownByGemini, Gathered
  <2>2. ASSUME NEW j \in toGemini'.tools
        PROVE  toGemini'.arguments[j] = u.calls[u.call[j]] /\ u.call[j] > Len(Called)
    <3>1. CASE j = i
      BY <1>5, <1>8, <1>9, <1>10, <1>12, <3>1
    <3>2. CASE j # i
      <4>1. j \in toGemini.tools /\ j \in Indexes
        BY <1>8, <1>10, <3>2
      <4>2. s.kind[j] = "tool" /\ s.call[j] \in 1 .. Len(s.calls)
        BY <4>1, SpotParts DEF ShownByGemini, Gathered, Numbered
      <4>3. toGemini.arguments[j] = s.calls[s.call[j]] /\ s.call[j] > Len(Called)
        BY <4>1 DEF ShownByGemini, Gathered
      <4> QED
        BY <1>6, <1>9, <1>10, <3>2, <4>1, <4>2, <4>3
    <3> QED
      BY <3>1, <3>2
  <2>3. ASSUME NEW n \in 1 .. Len(u.calls), n > Len(Called)
        PROVE  \E j \in toGemini'.tools : u.call[j] = n
    <3>1. CASE n = m
      BY <1>5, <1>10, <3>1
    <3>2. CASE n # m
      <4>1. n \in 1 .. Len(s.calls)
        BY <1>8, <1>9, <3>2
      <4>2. PICK j \in toGemini.tools : s.call[j] = n
        BY <2>3, <4>1 DEF ShownByGemini, Gathered
      <4>3. j \in Indexes /\ j # i
        BY <1>8, <1>11
      <4> QED
        BY <1>6, <1>10, <4>2, <4>3
    <3> QED
      BY <3>1, <3>2
  <2> QED
    BY <1>13, <2>1, <2>2, <2>3 DEF Gathered
<1>15. \A n \in 1 .. Len(Called) : Called[n] = u.calls[n]
  BY <1>8, <1>9, <1>12 DEF ShownByGemini
<1>16. Len(Called) <= Len(u.calls)
  BY <1>8, <1>9, <1>12
<1>17. ShownByGemini(u)'
  BY <1>4, <1>13, <1>14, <1>15, <1>16 DEF ShownByGemini, InPlace, Reads
<1> QED
  BY <1>7, <1>17

LEMMA GeminiArguments ==
  ASSUME view \in View, toGemini \in GeminiEncoder, NEW e \in Event,
         toGemini' = [toGemini EXCEPT !.arguments[e.index] = @ \o Pieces(e.piece)],
         view' = view,
         NEW s \in Spots, Frame(s), ShownByGemini(s), s.ended = "no",
         NEW u, Speaks(s, e, u), s.kind[e.index] = "tool"
  PROVE  (Frame(u) /\ ShownByGemini(u))'
<1> DEFINE i == e.index
           more == Pieces(e.piece)
           said == toGemini.arguments[i] \o more
           c == s.call[i]
<1>1. /\ i \in Indexes /\ e.piece \in Nat /\ i \in s.open
      /\ u = Saying(s, i, e.piece) /\ s.kind[i] # "none" /\ more \in Seq(Nat)
  BY IndexOf, PieceSeq DEF Speaks
<1>2. /\ u \in Spots /\ u.begun = s.begun /\ u.ended = s.ended
      /\ u.kind = s.kind /\ u.open = s.open /\ u.call = s.call /\ SaidMore(s, u, i, e.piece)
  BY <1>1, SayingSpot
<1>3. u.text = s.text /\ u.reasoning = s.reasoning
      /\ u.calls = [s.calls EXCEPT ![c] = @ \o more]
  BY <1>2 DEF SaidMore
<1>4. Frame(u)'
  BY <1>2 DEF Frame
<1>5. /\ toGemini.tools \subseteq Indexes /\ s.calls \in Seq(Seq(Nat)) /\ Len(s.calls) \in Nat
      /\ DOMAIN s.calls = 1 .. Len(s.calls)
      /\ Len(Called) \in Nat /\ toGemini.arguments \in [Indexes -> Seq(Nat)]
  BY GeminiParts
<1>6. i \in toGemini.tools /\ c \in 1 .. Len(s.calls) /\ c > Len(Called)
      /\ toGemini.arguments[i] = s.calls[c]
  BY <1>1, SpotParts DEF ShownByGemini, Gathered, Numbered
<1> HIDE DEF i, more, c
<1>7. /\ u.calls[c] = s.calls[c] \o more
      /\ \A n \in 1 .. Len(s.calls) : n # c => u.calls[n] = s.calls[n]
      /\ Len(u.calls) = Len(s.calls)
  <2>1. \A n \in DOMAIN s.calls : u.calls[n] = IF n = c THEN s.calls[c] \o more ELSE s.calls[n]
    BY <1>3
  <2>2. DOMAIN u.calls = DOMAIN s.calls
    BY <1>3
  <2>3. u.calls \in Seq(Seq(Nat))
    BY <1>2, SpotParts
  <2>4. Len(u.calls) = Len(s.calls)
    BY <1>5, <2>2, <2>3, LenProperties
  <2>5. \A n \in 1 .. Len(s.calls) : n # c => u.calls[n] = s.calls[n]
    BY <1>5, <2>1
  <2>6. u.calls[c] = s.calls[c] \o more
    BY <1>5, <1>6, <2>1
  <2> QED
    BY <2>4, <2>5, <2>6
<1>8. /\ toGemini'.tools = toGemini.tools /\ toGemini'.arguments[i] = said
      /\ \A j \in Indexes : j # i => toGemini'.arguments[j] = toGemini.arguments[j]
  <2>1. toGemini' = [toGemini EXCEPT !.arguments[i] = said]
    BY DEF i, said, more
  <2> HIDE DEF said
  <2> QED
    BY <1>1, <1>5, <2>1 DEF GeminiEncoder
<1>9. Called' = Called
  BY DEF Called
<1>10. \A j \in toGemini.tools : j # i => s.call[j] # c
  <2> SUFFICES ASSUME NEW j \in toGemini.tools, j # i
               PROVE  s.call[j] # c
    OBVIOUS
  <2>1. j \in Indexes /\ s.kind[j] = "tool" /\ s.kind[i] = "tool" /\ j \in Nat /\ i \in Nat
    BY <1>1, <1>5, StreamBounds DEF ShownByGemini, Gathered, i, Indexes
  <2>2. i < j \/ j < i
    BY <2>1
  <2>3. s.call[i] < s.call[j] \/ s.call[j] < s.call[i]
    BY <1>1, <2>1, <2>2, SpotParts DEF Numbered
  <2>4. s.call[i] \in Nat /\ s.call[j] \in Nat
    BY <1>1, <2>1, SpotParts
  <2> QED
    BY <2>3, <2>4 DEF c
<1>11. Gathered(u)'
  <2>1. ASSUME NEW j \in toGemini'.tools
        PROVE  toGemini'.arguments[j] = u.calls[u.call[j]] /\ u.call[j] > Len(Called)
    <3>1. j \in toGemini.tools /\ j \in Indexes /\ u.call[j] = s.call[j]
      BY <1>2, <1>5, <1>8
    <3>2. s.call[j] \in 1 .. Len(s.calls) /\ s.call[j] > Len(Called)
          /\ toGemini.arguments[j] = s.calls[s.call[j]]
      BY <3>1, SpotParts DEF ShownByGemini, Gathered, Numbered
    <3>3. CASE j = i
      BY <1>6, <1>7, <1>8, <3>1, <3>2, <3>3 DEF c, said
    <3>4. CASE j # i
      BY <1>7, <1>8, <1>10, <3>1, <3>2, <3>4
    <3> QED
      BY <3>3, <3>4
  <2>2. \A j \in Indexes : j \in toGemini'.tools <=> j \in u.open /\ u.kind[j] = "tool"
    BY <1>2, <1>8 DEF ShownByGemini, Gathered
  <2>3. \A n \in 1 .. Len(u.calls) : n > Len(Called) => \E j \in toGemini'.tools : u.call[j] = n
    BY <1>2, <1>7, <1>8 DEF ShownByGemini, Gathered
  <2> QED
    BY <1>9, <2>1, <2>2, <2>3 DEF Gathered
<1>12. \A n \in 1 .. Len(Called) : Called[n] = u.calls[n]
  <2>1. \A n \in 1 .. Len(Called) : n # c /\ n \in 1 .. Len(s.calls)
    BY <1>5, <1>6 DEF ShownByGemini
  <2> QED
    BY <1>7, <2>1 DEF ShownByGemini
<1>13. ShownByGemini(u)'
  BY <1>2, <1>3, <1>7, <1>9, <1>11, <1>12 DEF ShownByGemini, InPlace, Reads
<1> QED
  BY <1>4, <1>13

-----------------------------------------------------------------------------

(* Gathered depends on little of the reader.                               *)
LEMMA GatheredSame ==
  ASSUME NEW s \in Spots, Gathered(s), toGemini \in GeminiEncoder, toGemini' = toGemini,
         NEW u, u.open = s.open, u.kind = s.kind, u.call = s.call, u.calls = s.calls,
         Called' = Called
  PROVE  Gathered(u)'
BY DEF Gathered

LEMMA GeminiGrows ==
  ASSUME view \in View, toGemini \in GeminiEncoder, NEW p \in Nat, WriteDelta(Parts, p),
         toGemini' = toGemini,
         NEW s \in Spots, Frame(s), ShownByGemini(s), s.ended = "no", s.begun,
         NEW i \in Indexes, s.kind[i] = "text",
         Parts # 0, view.items[Parts].kind = "text"
  PROVE  (Frame(Saying(s, i, p)) /\ ShownByGemini(Saying(s, i, p)))'
<1> DEFINE u == Saying(s, i, p)
           k == Parts
           at == Parts
<1>1. /\ view.items \in Seq(Block) /\ DOMAIN view.items = 1 .. Len(view.items)
      /\ Len(view.items) \in Nat /\ Parts = Len(view.items)
  BY GeminiParts
<1>2. \A j \in DOMAIN view.items : InPlace(j)
  BY DEF ShownByGemini
<1>3. k \in DOMAIN view.items /\ k \in Nat /\ Only(at, k)
  BY <1>1, <1>2 DEF Only, InPlace
<1>4. Takes(view.items, k, s, i)
  BY <1>1, <1>3 DEF Takes, Alike, Kinds
<1>5. WriteDelta(at, p) /\ at \in Nat
  BY <1>3
<1> HIDE DEF k, at
<1>6. /\ view'.items \in Seq(Block)
      /\ Grows(view.items, view'.items, k, Pieces(p))
      /\ \A j \in DOMAIN view.items :
           /\ view'.items[j].at = view.items[j].at /\ view'.items[j].done = view.items[j].done
           /\ view'.items[j].whole = view.items[j].whole
      /\ view'.begun = view.begun /\ view'.ends = view.ends
      /\ view'.faults = view.faults \cup Blames(FALSE)
  BY <1>3, <1>5, DeltaWritten
<1>7. /\ u \in Spots /\ u.begun = s.begun /\ u.ended = s.ended /\ u.open = s.open
      /\ u.kind = s.kind /\ u.call = s.call /\ SaidMore(s, u, i, p)
  BY SayingSpot
<1>8. u.calls = s.calls
  BY <1>7 DEF SaidMore
<1> HIDE DEF u
<1>9. Aligned(view.items, view'.items)
  BY <1>6, GrowsAligned
<1>10. DOMAIN view'.items = DOMAIN view.items
  BY <1>1, <1>6, <1>9, LenProperties DEF Aligned
<1>11. Reads(view'.items, u) /\ ToolCalls(view'.items) = ToolCalls(view.items)
  <2>1. Reads(view.items, s) /\ s.kind[i] # "tool"
    BY DEF ShownByGemini
  <2> QED
    BY <1>1, <1>4, <1>6, <1>7, <2>1, TakesGrows
<1>12. ASSUME NEW j \in DOMAIN view'.items
       PROVE  InPlace(j)'
  <2>1. j \in DOMAIN view.items /\ InPlace(j)
    BY <1>2, <1>10
  <2>2. /\ view'.items[j].at = view.items[j].at /\ view'.items[j].done = view.items[j].done
    BY <1>6, <2>1
  <2>3. view'.items[j].kind = view.items[j].kind
    BY <1>1, <1>6, <1>9, <2>1, AlignedRanks
  <2> QED
    BY <2>1, <2>2, <2>3 DEF InPlace
<1>13. Frame(u)'
  BY <1>6, <1>7, FrameGoesOn
<1>14. Called' = Called
  BY <1>11 DEF Called
<1>15. Gathered(u)'
  BY <1>7, <1>8, <1>14, GatheredSame DEF ShownByGemini
<1>16. ShownByGemini(u)'
  BY <1>7, <1>8, <1>11, <1>12, <1>14, <1>15 DEF ShownByGemini
<1> QED
  BY <1>13, <1>16 DEF u

LEMMA GeminiNewText ==
  ASSUME view \in View, toGemini \in GeminiEncoder, NEW p \in Nat,
         WriteItem(Parts + 1, "text", Pieces(p)), toGemini' = toGemini,
         NEW s \in Spots, Frame(s), ShownByGemini(s), s.ended = "no", s.begun,
         NEW i \in Indexes, s.kind[i] = "text"
  PROVE  (Frame(Saying(s, i, p)) /\ ShownByGemini(Saying(s, i, p)))'
<1> DEFINE u == Saying(s, i, p)
           at == Parts + 1
           data == Pieces(p)
           kind == "text"
           x == Opened(at, kind, data)
<1>1. /\ view.items \in Seq(Block) /\ DOMAIN view.items = 1 .. Len(view.items)
      /\ Len(view.items) \in Nat /\ Parts = Len(view.items)
      /\ data \in Seq(Nat) /\ kind \in Kinds \cup {"refusal"} /\ at \in Nat
      /\ at = Len(view.items) + 1 /\ WriteItem(at, kind, data)
  <2>1. /\ view.items \in Seq(Block) /\ DOMAIN view.items = 1 .. Len(view.items)
        /\ Len(view.items) \in Nat /\ Parts = Len(view.items)
    BY GeminiParts
  <2>2. data \in Seq(Nat)
    BY PieceSeq
  <2>3. WriteItem(at, kind, data)
    OBVIOUS
  <2>4. kind \in Kinds \cup {"refusal"}
    BY DEF Kinds
  <2>5. at \in Nat /\ at = Len(view.items) + 1
    BY <2>1
  <2> QED
    BY <2>1, <2>2, <2>3, <2>4, <2>5
<1>2. /\ u \in Spots /\ u.begun = s.begun /\ u.ended = s.ended /\ u.open = s.open
      /\ u.kind = s.kind /\ u.call = s.call /\ SaidMore(s, u, i, p)
  BY SayingSpot
<1> HIDE DEF u
<1>3. x.kind = "text" /\ x.at = at /\ x.done = FALSE /\ x.data = Pieces(p)
  BY DEF Opened
<1> HIDE DEF data, at, kind
<1>4. /\ x \in Block /\ view'.items = Append(view.items, x)
      /\ Len(view'.items) = Len(view.items) + 1
      /\ view'.items[Len(view.items) + 1] = x
      /\ \A j \in DOMAIN view.items : view'.items[j] = view.items[j]
      /\ view'.begun = view.begun /\ view'.ends = view.ends
      /\ view'.faults = view.faults \cup Blames(IsOpen(at))
  BY <1>1, ItemWritten
<1> HIDE DEF x
<1>5. \A k \in DOMAIN view.items : InPlace(k)
  BY DEF ShownByGemini
<1>6. IsOpen(at) = FALSE
  BY <1>1, <1>5 DEF IsOpen, InPlace
<1>7. Frame(u)'
  BY <1>2, <1>4, <1>6, FrameGoesOn
<1>8. DOMAIN view'.items = 1 .. Len(view.items) + 1
  BY <1>1, <1>4, AppendProperties, LenProperties
<1>9. Reads(view'.items, u) /\ ToolCalls(view'.items) = ToolCalls(view.items) /\ u.calls = s.calls
  <2>1. Reads(view.items, s)
    BY DEF ShownByGemini
  <2> QED
    BY <1>1, <1>2, <1>3, <1>4, <2>1, TellsNewText
<1>10. ASSUME NEW k \in DOMAIN view'.items
       PROVE  InPlace(k)'
  BY <1>1, <1>3, <1>4, <1>5, <1>8 DEF InPlace
<1>11. Called' = Called
  BY <1>9 DEF Called
<1>12. Gathered(u)'
  BY <1>2, <1>9, <1>11, GatheredSame DEF ShownByGemini
<1>13. ShownByGemini(u)'
  BY <1>2, <1>9, <1>10, <1>11, <1>12 DEF ShownByGemini
<1> QED
  BY <1>7, <1>13 DEF u

(* The calls are complete in the order in which they were started.         *)
LEMMA NextCall ==
  ASSUME NEW s \in Spots, view \in View, toGemini \in GeminiEncoder, ShownByGemini(s),
         NEW i \in Indexes, i \in s.open, s.kind[i] = "tool", \A j \in s.open : i <= j
  PROVE  s.call[i] = Len(Called) + 1 /\ s.call[i] \in 1 .. Len(s.calls) /\ i \in toGemini.tools
<1>1. /\ Len(Called) \in Nat /\ Len(s.calls) \in Nat /\ Len(Called) <= Len(s.calls)
      /\ s.open \subseteq Indexes /\ toGemini.tools \subseteq Indexes
  BY GeminiParts DEF ShownByGemini
<1>2. i \in toGemini.tools /\ s.call[i] > Len(Called) /\ s.call[i] \in 1 .. Len(s.calls)
  BY SpotParts DEF ShownByGemini, Gathered, Numbered
<1>3. Len(Called) + 1 \in 1 .. Len(s.calls)
  BY <1>1, <1>2
<1>4. PICK j \in toGemini.tools : s.call[j] = Len(Called) + 1
  BY <1>1, <1>3 DEF ShownByGemini, Gathered
<1>5. j \in Indexes /\ j \in s.open /\ s.kind[j] = "tool"
  BY <1>1 DEF ShownByGemini, Gathered
<1>6. i <= j /\ i \in Nat /\ j \in Nat
  BY <1>5, StreamBounds DEF Indexes
<1>7. i < j => s.call[i] < s.call[j]
  BY <1>5, SpotParts DEF Numbered
<1>8. i = j
  BY <1>1, <1>2, <1>4, <1>6, <1>7
<1> QED
  BY <1>2, <1>4, <1>8

LEMMA GeminiToolCloses ==
  ASSUME view \in View, toGemini \in GeminiEncoder, NEW e \in Event,
         toGemini' = [toGemini EXCEPT !.tools = @ \ {e.index}],
         WriteItem(Parts + 1, "tool", toGemini.arguments[e.index]),
         NEW s \in Spots, Frame(s), ShownByGemini(s), s.ended = "no",
         NEW u, Closes(s, e, u), s.kind[e.index] = "tool"
  PROVE  (Frame(u) /\ ShownByGemini(u))'
<1> DEFINE i == e.index
           at == Parts + 1
           data == toGemini.arguments[i]
           kind == "tool"
           x == Opened(at, kind, data)
<1>1. /\ i \in Indexes /\ i \in s.open /\ u = Closing(s, i) /\ s.begun
      /\ \A j \in s.open : i <= j
  BY IndexOf DEF Closes
<1>2. /\ view.items \in Seq(Block) /\ DOMAIN view.items = 1 .. Len(view.items)
      /\ Len(view.items) \in Nat /\ at = Len(view.items) + 1 /\ at \in Nat
      /\ Called \in Seq(Seq(Nat)) /\ Len(Called) \in Nat /\ Len(s.calls) \in Nat
      /\ s.open \subseteq Indexes /\ toGemini.tools \subseteq Indexes
      /\ toGemini.arguments \in [Indexes -> Seq(Nat)]
  BY SMTT(15), GeminiParts
<1>3. data \in Seq(Nat) /\ kind \in Kinds \cup {"refusal"} /\ WriteItem(at, kind, data)
  BY <1>1, <1>2 DEF Kinds
<1>4. /\ u \in Spots /\ u.begun = s.begun /\ u.ended = s.ended /\ u.kind = s.kind
      /\ u.open = s.open \ {i} /\ u.text = s.text /\ u.reasoning = s.reasoning
      /\ u.calls = s.calls /\ u.call = s.call
  BY <1>1, ClosingSpot
<1>5. s.call[i] = Len(Called) + 1 /\ s.call[i] \in 1 .. Len(s.calls) /\ i \in toGemini.tools
  BY <1>1, NextCall
<1>6. data = s.calls[Len(Called) + 1]
  BY <1>5 DEF ShownByGemini, Gathered
<1>7. x.kind = "tool" /\ x.at = at /\ x.done = FALSE /\ x.data = data
  BY DEF Opened
<1>8. /\ toGemini'.tools = toGemini.tools \ {i} /\ toGemini'.arguments = toGemini.arguments
  BY DEF GeminiEncoder
<1> HIDE DEF data, at, kind, i
<1>9. /\ x \in Block /\ view'.items = Append(view.items, x)
      /\ Len(view'.items) = Len(view.items) + 1
      /\ view'.items[Len(view.items) + 1] = x
      /\ \A j \in DOMAIN view.items : view'.items[j] = view.items[j]
      /\ view'.begun = view.begun /\ view'.ends = view.ends
      /\ view'.faults = view.faults \cup Blames(IsOpen(at))
  BY <1>2, <1>3, ItemWritten
<1> HIDE DEF x
<1>10. \A k \in DOMAIN view.items : InPlace(k)
  BY DEF ShownByGemini
<1>11. IsOpen(at) = FALSE
  BY <1>2, <1>10 DEF IsOpen, InPlace
<1>12. Frame(u)'
  BY <1>1, <1>4, <1>9, <1>11, FrameGoesOn
<1>13. DOMAIN view'.items = 1 .. Len(view.items) + 1
  BY <1>2, <1>9, AppendProperties, LenProperties
<1>14. ASSUME NEW k \in DOMAIN view'.items
       PROVE  InPlace(k)'
  BY <1>2, <1>7, <1>9, <1>10, <1>13 DEF InPlace
<1>15. /\ ToolCalls(view'.items) = Append(ToolCalls(view.items), data)
       /\ Text(view'.items) = Text(view.items) /\ Reasoning(view'.items) = Reasoning(view.items)
  <2>1. x.kind \notin Alike("text") /\ x.kind # "reasoning"
    BY <1>7 DEF Alike
  <2> QED
    BY <1>2, <1>7, <1>9, <2>1, AnswersMore
<1>16. Called' = Append(Called, data)
  BY <1>15 DEF Called
<1>17. /\ Len(Called') = Len(Called) + 1 /\ Called'[Len(Called) + 1] = data
       /\ \A n \in 1 .. Len(Called) : Called'[n] = Called[n]
  BY <1>2, <1>3, <1>16, AppendProperties
<1>18. Len(Called') <= Len(s.calls) /\ Len(Called') \in Nat
  BY <1>2, <1>5, <1>17
<1>19. \A n \in 1 .. Len(Called') : Called'[n] = s.calls[n]
  BY SMTT(15), <1>2, <1>6, <1>17 DEF ShownByGemini
<1>20. ASSUME NEW j \in toGemini'.tools
       PROVE  toGemini'.arguments[j] = s.calls[s.call[j]] /\ s.call[j] > Len(Called')
  <2>1. j \in toGemini.tools /\ j \in Indexes /\ j # i /\ j \in s.open /\ s.kind[j] = "tool"
    BY <1>2, <1>8 DEF ShownByGemini, Gathered
  <2>2. i < j /\ s.kind[i] = "tool"
    BY <1>1, <2>1, StreamBounds DEF Indexes, i
  <2>3. s.call[i] < s.call[j] /\ s.call[j] \in Nat
    BY <1>1, <2>1, <2>2, SpotParts DEF Numbered
  <2>4. toGemini.arguments[j] = s.calls[s.call[j]]
    BY <2>1 DEF ShownByGemini, Gathered
  <2> QED
    BY <1>2, <1>5, <1>8, <1>17, <2>3, <2>4
<1>21. ASSUME NEW n \in 1 .. Len(s.calls), n > Len(Called')
       PROVE  \E j \in toGemini'.tools : s.call[j] = n
  <2>1. n > Len(Called) /\ n # s.call[i]
    BY <1>2, <1>5, <1>17, <1>21
  <2>2. PICK j \in toGemini.tools : s.call[j] = n
    BY <2>1 DEF ShownByGemini, Gathered
  <2> QED
    BY <1>8, <2>1, <2>2
<1>22. \A j \in Indexes : j \in toGemini'.tools <=> j \in u.open /\ u.kind[j] = "tool"
  BY <1>4, <1>8 DEF ShownByGemini, Gathered
<1>23. Gathered(u)'
  BY <1>4, <1>20, <1>21, <1>22 DEF Gathered
<1>24. ShownByGemini(u)'
  BY <1>4, <1>14, <1>15, <1>18, <1>19, <1>23 DEF ShownByGemini, Reads
<1> QED
  BY <1>12, <1>24

-----------------------------------------------------------------------------

LEMMA GeminiSpeaks ==
  ASSUME view \in View, toGemini \in GeminiEncoder, pipe.to = "gemini",
         NEW e \in Event, EncodeGemini(e),
         NEW s \in Spots, Frame(s), ShownByGemini(s), s.ended = "no",
         NEW u, Speaks(s, e, u)
  PROVE  (Frame(u) /\ ShownByGemini(u))'
<1>1. /\ e.index \in Indexes /\ e.piece \in Nat /\ u = Saying(s, e.index, e.piece) /\ s.begun
      /\ s.kind[e.index] = DeltaKind(e)
  BY IndexOf DEF Speaks
<1>2. CASE /\ e.type = "tool_call_delta"
           /\ toGemini' = [toGemini EXCEPT !.arguments[e.index] = @ \o Pieces(e.piece)]
           /\ view' = view
  <2>1. s.kind[e.index] = "tool"
    BY <1>1, <1>2 DEF DeltaKind
  <2> QED
    BY <1>2, <2>1, GeminiArguments
<1>3. CASE e.type = "text_delta" /\ WriteGeminiText(e.piece) /\ toGemini' = toGemini
  <2>1. s.kind[e.index] = "text"
    BY <1>1, <1>3 DEF DeltaKind
  <2>2. CASE Parts # 0 /\ view.items[Parts].kind = "text"
    <3>1. WriteDelta(Parts, e.piece)
      BY <1>3, <2>2 DEF WriteGeminiText
    <3> QED
      BY <1>1, <1>3, <2>1, <2>2, <3>1, GeminiGrows
  <2>3. CASE ~(Parts # 0 /\ view.items[Parts].kind = "text")
    <3>1. WriteItem(Parts + 1, "text", Pieces(e.piece))
      BY <1>3, <2>3 DEF WriteGeminiText
    <3> QED
      BY <1>1, <1>3, <2>1, <3>1, GeminiNewText
  <2> QED
    BY <2>2, <2>3
<1> QED
  BY <1>2, <1>3 DEF Speaks, Deltas, EncodeGemini, GeminiRefuses

LEMMA GeminiShow ==
  ASSUME view \in View, toGemini \in GeminiEncoder, pipe.to = "gemini", pipe' = pipe,
         NEW e \in Event, EncodeGemini(e),
         NEW s \in Spots, Frame(s), ShownByGemini(s),
         NEW u, Step(s, e, u)
  PROVE  (Frame(u) /\ ShownByGemini(u))'
<1>0. e.type \notin {"reasoning_delta", "error"} /\ ~GeminiRefuses(e)
  BY DEF EncodeGemini, GeminiRefuses
<1>1. CASE e.type = "usage" /\ u = s
  <2>1. view' = view /\ toGemini' = toGemini
    BY <1>1 DEF EncodeGemini
  <2>2. Frame(u)'
    BY <1>1, <2>1 DEF Frame, EndStatus
  <2>3. ShownByGemini(u)'
    BY <1>1, <2>1 DEF ShownByGemini, InPlace, Gathered, Called, Reads
  <2> QED
    BY <2>2, <2>3
<1>2. CASE s.ended = "no" /\ Begins(s, e, u)
  <2>1. WriteBegin /\ toGemini' = [toGemini EXCEPT !.started = TRUE]
    BY <1>2 DEF EncodeGemini, Begins
  <2>2. toGemini'.tools = toGemini.tools /\ toGemini'.arguments = toGemini.arguments
    BY <2>1 DEF GeminiEncoder
  <2>3. Frame(u)' /\ view'.items = view.items /\ u.open = s.open /\ SameAnswer(s, u)
    BY <1>2, <2>1, FrameBegins
  <2>4. u.ended # "stop"
    BY <1>2, BegunSpot DEF Begins
  <2> QED
    BY <2>2, <2>3, <2>4, GeminiSame DEF SameAnswer
<1>3. CASE s.ended = "no" /\ Opens(s, e, u) /\ e.kind = "tool"
  <2>1. /\ toGemini' = [toGemini EXCEPT !.tools = @ \cup {e.index}, !.arguments[e.index] = <<>>]
        /\ view' = view
    BY <1>3 DEF EncodeGemini, Opens
  <2> QED
    BY <1>3, <2>1, GeminiToolOpens
<1>4. CASE s.ended = "no" /\ Opens(s, e, u) /\ e.kind # "tool"
  <2>1. view' = view /\ toGemini' = toGemini
    BY <1>4 DEF EncodeGemini, Opens, Starts
  <2>2. /\ e.index \in Indexes /\ e.kind \in Kinds /\ Fresh(s, e.index)
        /\ u = Starting(s, e.index, e.kind)
    BY <1>4, IndexOf DEF Opens
  <2>3. /\ u.text = s.text /\ u.reasoning = s.reasoning /\ u.calls = s.calls
        /\ s.kind[e.index] = "none" /\ u.kind[e.index] = e.kind
    BY <1>4, <2>2, StartingSpot, SpotOpen
  <2>4. \A j \in Indexes : j # e.index => u.kind[j] = s.kind[j] /\ u.call[j] = s.call[j]
    BY <2>2, StartingSpot
  <2>5. u.ended = s.ended
    BY <2>2, StartingSpot
  <2>6. u.begun = s.begun
    BY <2>2 DEF Starting, Spots, Spot
  <2>7. u.open = s.open \cup {e.index}
    BY <2>2, StartingSpot
  <2>8. Frame(u)'
    BY <1>4, <2>1, <2>5, <2>6 DEF Frame
  <2>9. \A i \in Indexes : i \in u.open /\ u.kind[i] = "tool" <=> i \in s.open /\ s.kind[i] = "tool"
    BY <1>4, <2>3, <2>4, <2>7
  <2>10. \A i \in Indexes : s.kind[i] = "tool" => u.call[i] = s.call[i]
    BY <2>3, <2>4
  <2> QED
    BY <1>4, <2>1, <2>3, <2>5, <2>8, <2>9, <2>10, GeminiSame
<1>5. CASE s.ended = "no" /\ Speaks(s, e, u)
  BY <1>5, GeminiSpeaks
<1>6. CASE s.ended = "no" /\ Closes(s, e, u)
  <2>1. /\ e.index \in Indexes /\ e.index \in s.open /\ u = Closing(s, e.index)
        /\ e.type = "content_stop"
    BY <1>6, IndexOf DEF Closes
  <2>2. CASE e.index \in toGemini.tools
    <3>1. /\ toGemini' = [toGemini EXCEPT !.tools = @ \ {e.index}]
          /\ WriteItem(Parts + 1, "tool", toGemini.arguments[e.index])
      BY <2>1, <2>2 DEF EncodeGemini
    <3>2. s.kind[e.index] = "tool"
      BY <2>1, <2>2 DEF ShownByGemini, Gathered
    <3> QED
      BY <1>6, <3>1, <3>2, GeminiToolCloses
  <2>3. CASE e.index \notin toGemini.tools
    <3>1. view' = view /\ toGemini' = toGemini
      BY <2>1, <2>3 DEF EncodeGemini
    <3>2. s.kind[e.index] # "tool"
      BY <2>1, <2>3 DEF ShownByGemini, Gathered
    <3>3. /\ u.begun = s.begun /\ u.ended = s.ended /\ SameAnswer(s, u)
          /\ u.open = s.open \ {e.index}
      BY <2>1, ClosingSpot DEF SameAnswer
    <3>4. Frame(u)'
      BY <1>6, <3>1, <3>3 DEF Frame
    <3> QED
      BY <1>6, <3>1, <3>2, <3>3, <3>4, GeminiSame DEF SameAnswer
  <2> QED
    BY <2>2, <2>3
<1>7. CASE s.ended = "no" /\ Stops(s, e, u)
  <2>1. WriteEnd("completed", e.reason, <<>>) /\ toGemini' = toGemini
    BY <1>7 DEF EncodeGemini, Stops
  <2>2. Frame(u)' /\ view'.items = view.items /\ u.open = s.open /\ SameAnswer(s, u)
    BY <1>7, <2>1, FrameEnds
  <2>3. s.open = {} /\ toGemini.tools = {}
    BY <1>7, GeminiParts DEF Stops, ShownByGemini, Gathered
  <2>4. Called = s.calls
    <3>1. Len(Called) = Len(s.calls)
      <4>1. ~(Len(Called) + 1 \in 1 .. Len(s.calls))
        BY <2>3, GeminiParts DEF ShownByGemini, Gathered
      <4> QED
        BY <4>1, GeminiParts DEF ShownByGemini
    <3> QED
      BY <3>1, GeminiParts, SeqEqual DEF ShownByGemini
  <2>5. Called' = Called
    BY <2>2 DEF Called
  <2>6. Gathered(u)'
    BY <2>1, <2>2, <2>5, GatheredSame DEF ShownByGemini, SameAnswer
  <2>7. ShownByGemini(u)'
    BY <2>2, <2>4, <2>5, <2>6 DEF ShownByGemini, SameAnswer, InPlace, Reads
  <2> QED
    BY <2>2, <2>7
<1> QED
  BY <1>0, <1>1, <1>2, <1>3, <1>4, <1>5, <1>6, <1>7 DEF Step, Breaks

-----------------------------------------------------------------------------

LEMMA ResponsesShow ==
  ASSUME EncodersTyped, Counted, Mirrored, pipe.to = "responses", pipe' = pipe,
         NEW e \in Event, EncodeResponses(e),
         NEW s \in Spots, Frame(s), ShownByResponses(s),
         NEW u, Step(s, e, u)
  PROVE  (Frame(u) /\ ShownByResponses(u))'
<1>1. CASE e.type = "usage" /\ u = s
  <2>1. view' = view /\ toResponses' = toResponses
    BY <1>1 DEF EncodeResponses
  <2>2. Frame(u)'
    BY <1>1, <2>1 DEF Frame, EndStatus
  <2>3. ShownByResponses(u)'
    BY <1>1, <2>1 DEF ShownByResponses, Tells, Reads, BlockOf
  <2> QED
    BY <2>2, <2>3
<1> QED
  BY <1>1, ResponsesOpens, ResponsesSpeaks, ResponsesCloses, ResponsesTurns DEF Step

(* What the client has read is what a reader at s has.                     *)
Shows(s) ==
  /\ Frame(s)
  /\ pipe.to = "responses" => ShownByResponses(s)
  /\ pipe.to = "messages" => ShownByMessages(s)
  /\ pipe.to = "chat" => ShownByChat(s)
  /\ pipe.to = "gemini" => ShownByGemini(s)

LEMMA EncodeShows ==
  ASSUME EncodersTyped, Framed, pipe' = pipe, NEW e \in Event, EncodeEvent(e),
         pipe.to = "messages" => e.type # "error",
         NEW s \in Spots, Shows(s),
         NEW u, Step(s, e, u)
  PROVE  Shows(u)'
<1>1. /\ view \in View /\ toChat \in ChatEncoder /\ toGemini \in GeminiEncoder /\ Frame(s)
  BY DEF EncodersTyped, Shows
<1>2. CASE pipe.to = "responses" /\ EncodeResponses(e)
  <2>1. (Frame(u) /\ ShownByResponses(u))'
    BY <1>1, <1>2, ResponsesShow DEF Shows, Framed
  <2> QED
    BY <1>2, <2>1 DEF Shows
<1>3. CASE pipe.to = "messages" /\ EncodeMessages(e)
  <2>1. (Frame(u) /\ ShownByMessages(u))'
    BY <1>1, <1>3, MessagesShow DEF Shows
  <2> QED
    BY <1>3, <2>1 DEF Shows
<1>4. CASE pipe.to = "chat" /\ EncodeChat(e)
  <2>1. (Frame(u) /\ ShownByChat(u))'
    BY <1>1, <1>4, ChatShow DEF Shows
  <2> QED
    BY <1>4, <2>1 DEF Shows
<1>5. CASE pipe.to = "gemini" /\ EncodeGemini(e)
  <2>1. (Frame(u) /\ ShownByGemini(u))'
    BY <1>1, <1>5, GeminiShow DEF Shows
  <2> QED
    BY <1>5, <2>1 DEF Shows
<1> QED
  BY <1>2, <1>3, <1>4, <1>5, Zenon DEF EncodeEvent
=============================================================================
