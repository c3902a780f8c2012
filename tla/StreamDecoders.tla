--------------------------- MODULE StreamDecoders ---------------------------
(***************************************************************************)
(* The decoders of the upstream formats: DecodeMessagesStream,             *)
(* DecodeChatStream and DecodeGenerateContentStream.  One action per kind  *)
(* of upstream event.  A chunk that carries several things (a usage record *)
(* and text and a finish reason, say) is decoded like chunks that carry    *)
(* them one by one in the order the decoder looks at them, and is modelled *)
(* as those.  Pings, comments and signatures change nothing.               *)
(***************************************************************************)
EXTENDS StreamEvents

CONSTANT MaxCalls   \* bound on the tool calls of an OpenAI stream

ASSUME CallBound == MaxCalls \in Nat

(* The tool indexes of a chunk, and what to call its text among them.      *)
Calls == 0 .. MaxCalls - 1
ChatText == MaxCalls

VARIABLES
  fromAnthropic,   \* the locals of DecodeMessagesStream
  fromOpenAI,      \* the locals of DecodeChatStream
  fromGemini       \* geminiStreamDecoder

decoders == <<fromAnthropic, fromOpenAI, fromGemini>>

Pending == Reasons \cup {"none"}

(* The canonical reasons each format's own reasons stand for.              *)
MessagesReasons == Reasons
ChatReasons == Reasons
GeminiReasons == Reasons \ {"tool_use"}

AnthropicDecoder ==
  [started : BOOLEAN, stopped : BOOLEAN, pendingStop : Pending,
   thinkingBlocks : SUBSET Indexes, thinkingStarted : SUBSET Indexes]

OpenAIDecoder ==
  [started : BOOLEAN, done : BOOLEAN, pendingStop : Pending, closing : BOOLEAN,
   textBlock : Indexes \cup {NoBlock}, toolBlocks : [Calls -> Indexes \cup {NoBlock}],
   nextBlock : 0 .. MaxBlocks, openBlocks : SUBSET Indexes]

GeminiDecoder ==
  [started : BOOLEAN, stopped : BOOLEAN, sawTool : BOOLEAN,
   active : Indexes \cup {NoBlock}, kind : Kinds \cup {"none"},
   nextBlock : 0 .. MaxBlocks]

InitDecoders ==
  /\ fromAnthropic = [started |-> FALSE, stopped |-> FALSE, pendingStop |-> "none",
                      thinkingBlocks |-> {}, thinkingStarted |-> {}]
  /\ fromOpenAI = [started |-> FALSE, done |-> FALSE, pendingStop |-> "none",
                   closing |-> FALSE, textBlock |-> NoBlock,
                   toolBlocks |-> [c \in Calls |-> NoBlock],
                   nextBlock |-> 0, openBlocks |-> {}]
  /\ fromGemini = [started |-> FALSE, stopped |-> FALSE, sawTool |-> FALSE,
                   active |-> NoBlock, kind |-> "none", nextBlock |-> 0]

(* What every format can hold that its decoder does not know: an event or  *)
(* block of an unknown type, a second choice or candidate, an unknown      *)
(* reason, broken JSON, more than 8 MiB.                                   *)
Garbage ==
  /\ ~pipe.lawful
  /\ Reading(pipe.from)
  /\ Says(up.phase)
  /\ Fail
  /\ UNCHANGED decoders

-----------------------------------------------------------------------------
(* Anthropic Messages.                                                     *)

MessageStart(counts) ==
  /\ Reading("anthropic") /\ Lawful({"idle"})
  /\ Says("message")
  /\ fromAnthropic' = [fromAnthropic EXCEPT !.started = TRUE]
  /\ Emit(<<ResponseStart, Usage(counts)>>)
  /\ UNCHANGED <<fromOpenAI, fromGemini>>

BlockStart(i, kind, p) ==
  /\ Reading("anthropic") /\ Lawful({"message"})
  /\ pipe.lawful => up.open = "none" /\ i = up.next /\ p = Empty
  /\ Sends([Adding(i, kind, p) EXCEPT !.open = kind, !.next = @ + 1])

(* A text that is already in the start is passed on twice: in the start    *)
(* and as a delta.                                                         *)
TextBlockStart(i, p) ==
  /\ BlockStart(i, "text", p)
  /\ Emit(<<ContentStart(i, "text", p)>> \o
          (IF p = Empty THEN <<>> ELSE <<Delta(i, "text", p)>>))
  /\ UNCHANGED decoders

ToolBlockStart(i, p) ==
  /\ BlockStart(i, "tool", p)
  /\ Emit(<<ContentStart(i, "tool", p)>>)
  /\ UNCHANGED decoders

(* Redacted thinking, and thinking before its first text, stay silent.     *)
ThinkingBlockStart(i, p) ==
  /\ BlockStart(i, "reasoning", p)
  /\ fromAnthropic' =
       [fromAnthropic EXCEPT
          !.thinkingBlocks = @ \cup {i},
          !.thinkingStarted = IF p = Empty THEN @ ELSE @ \cup {i}]
  /\ Emit(IF p = Empty THEN <<>>
          ELSE <<ContentStart(i, "reasoning", Empty), Delta(i, "reasoning", p)>>)
  /\ UNCHANGED <<fromOpenAI, fromGemini>>

BlockDelta(i, kind, p) ==
  /\ Reading("anthropic") /\ Lawful({"message"})
  /\ pipe.lawful => up.open = kind /\ i + 1 = up.next
  /\ Sends(Adding(i, kind, p))

TextOrInputDelta(i, kind, p) ==
  /\ BlockDelta(i, kind, p)
  /\ Emit(<<Delta(i, kind, p)>>)
  /\ UNCHANGED decoders

ThinkingDelta(i, p) ==
  /\ BlockDelta(i, "reasoning", p)
  /\ IF i \in fromAnthropic.thinkingBlocks
     THEN /\ fromAnthropic' = [fromAnthropic EXCEPT !.thinkingStarted = @ \cup {i}]
          /\ Emit((IF i \in fromAnthropic.thinkingStarted THEN <<>>
                   ELSE <<ContentStart(i, "reasoning", Empty)>>) \o
                  (IF p = Empty THEN <<>> ELSE <<Delta(i, "reasoning", p)>>))
     ELSE /\ Fail
          /\ UNCHANGED fromAnthropic
  /\ UNCHANGED <<fromOpenAI, fromGemini>>

BlockStop(i) ==
  /\ Reading("anthropic") /\ Lawful({"message"})
  /\ pipe.lawful => up.open # "none" /\ i + 1 = up.next
  /\ Sends([up EXCEPT !.open = "none"])
  /\ fromAnthropic' = [fromAnthropic EXCEPT !.thinkingBlocks = @ \ {i},
       !.thinkingStarted = IF i \in fromAnthropic.thinkingBlocks THEN @ \ {i} ELSE @]
  /\ Emit(IF i \in fromAnthropic.thinkingBlocks \ fromAnthropic.thinkingStarted
          THEN <<>> ELSE <<ContentStop(i)>>)
  /\ UNCHANGED <<fromOpenAI, fromGemini>>

MessageDelta(reason, counts) ==
  /\ Reading("anthropic") /\ Lawful({"message"})
  /\ pipe.lawful => up.open = "none" /\ reason # "none"
  /\ Says("stopping")
  /\ fromAnthropic' = [fromAnthropic EXCEPT !.pendingStop = IF reason = "none" THEN @ ELSE reason]
  /\ Emit(<<Usage(counts)>>)
  /\ UNCHANGED <<fromOpenAI, fromGemini>>

MessageStop ==
  /\ Reading("anthropic") /\ Lawful({"stopping"})
  /\ Says("over")
  /\ IF fromAnthropic.pendingStop = "none"
     THEN /\ Fail
          /\ UNCHANGED fromAnthropic
     ELSE /\ fromAnthropic' = [fromAnthropic EXCEPT !.stopped = TRUE]
          /\ Emit(<<ResponseStop(fromAnthropic.pendingStop)>>)
  /\ UNCHANGED <<fromOpenAI, fromGemini>>

MessageError ==
  /\ Reading("anthropic") /\ Lawful(Phases \ {"over"})
  /\ Sends([up EXCEPT !.phase = "over", !.reported = TRUE])
  /\ fromAnthropic' = [fromAnthropic EXCEPT !.stopped = TRUE]
  /\ Emit(<<StreamError>>)
  /\ UNCHANGED <<fromOpenAI, fromGemini>>

DecodeMessages ==
  \/ \E counts \in {"plain", "cache_write"} : MessageStart(counts)
  \/ \E i \in Indexes, p \in NextPiece :
       \/ TextBlockStart(i, p)
       \/ ToolBlockStart(i, p)
       \/ ThinkingBlockStart(i, p)
       \/ ThinkingDelta(i, p)
       \/ \E kind \in {"text", "tool"} : TextOrInputDelta(i, kind, p)
  \/ \E i \in Indexes : BlockStop(i)
  \/ \E reason \in MessagesReasons \cup {"none"}, counts \in {"plain", "cache_write"} :
       MessageDelta(reason, counts)
  \/ MessageStop
  \/ MessageError

-----------------------------------------------------------------------------
(* OpenAI Chat Completions.                                                *)

ReadingChunk(phases) ==
  /\ Reading("openai") /\ Lawful(phases)
  /\ ~fromOpenAI.closing

ChatStarts == IF fromOpenAI.started THEN <<>> ELSE <<ResponseStart>>

ChatUsage(counts) ==
  /\ ReadingChunk(Phases \ {"over"})
  /\ Says(up.phase)
  /\ fromOpenAI' = [fromOpenAI EXCEPT !.started = TRUE]
  /\ Emit(ChatStarts \o <<Usage(counts)>>)
  /\ UNCHANGED <<fromAnthropic, fromGemini>>

ChatContent(p) ==
  LET opens == fromOpenAI.textBlock = NoBlock
      block == IF opens THEN fromOpenAI.nextBlock ELSE fromOpenAI.textBlock IN
  /\ ReadingChunk({"idle", "message"})
  /\ block \in Indexes
  /\ Sends(Adding(ChatText, "text", p))
  /\ fromOpenAI' =
       [fromOpenAI EXCEPT !.started = TRUE, !.textBlock = block,
          !.nextBlock = IF opens THEN @ + 1 ELSE @,
          !.openBlocks = IF opens THEN @ \cup {block} ELSE @]
  /\ Emit(ChatStarts \o
          (IF opens THEN <<ContentStart(block, "text", Empty)>> ELSE <<>>) \o
          (IF p = Empty THEN <<>> ELSE <<Delta(block, "text", p)>>))
  /\ UNCHANGED <<fromAnthropic, fromGemini>>

ChatToolCall(call, p) ==
  LET opens == fromOpenAI.toolBlocks[call] = NoBlock
      block == IF opens THEN fromOpenAI.nextBlock ELSE fromOpenAI.toolBlocks[call] IN
  /\ ReadingChunk({"idle", "message"})
  /\ block \in Indexes
  /\ Sends(Adding(call, "tool", p))
  /\ fromOpenAI' =
       [fromOpenAI EXCEPT !.started = TRUE, !.toolBlocks[call] = block,
          !.nextBlock = IF opens THEN @ + 1 ELSE @,
          !.openBlocks = IF opens THEN @ \cup {block} ELSE @]
  /\ Emit(ChatStarts \o
          (IF opens THEN <<ContentStart(block, "tool", Empty)>> ELSE <<>>) \o
          (IF p = Empty THEN <<>> ELSE <<Delta(block, "tool", p)>>))
  /\ UNCHANGED <<fromAnthropic, fromGemini>>

ChatFinish(reason) ==
  /\ ReadingChunk({"idle", "message"})
  /\ Says("stopping")
  /\ fromOpenAI' = [fromOpenAI EXCEPT !.started = TRUE, !.pendingStop = reason]
  /\ Emit(ChatStarts)
  /\ UNCHANGED <<fromAnthropic, fromGemini>>

ChatDone ==
  /\ ReadingChunk({"stopping"})
  /\ Says("over")
  /\ fromOpenAI' = [fromOpenAI EXCEPT !.done = TRUE,
                      !.closing = fromOpenAI.pendingStop # "none"]
  /\ IF fromOpenAI.pendingStop = "none" THEN Fail ELSE UNCHANGED <<stage, queue>>
  /\ UNCHANGED <<fromAnthropic, fromGemini>>

(* closeOpenBlocks, lowest index first, then the stop.                     *)
CloseOpenBlock ==
  /\ stage = "read" /\ fromOpenAI.closing
  /\ \E i \in fromOpenAI.openBlocks :
       /\ \A j \in fromOpenAI.openBlocks : i <= j
       /\ fromOpenAI' = [fromOpenAI EXCEPT !.openBlocks = @ \ {i}]
       /\ Emit(<<ContentStop(i)>>)
  /\ UNCHANGED <<up, fromAnthropic, fromGemini>>

ChatStops ==
  /\ stage = "read" /\ fromOpenAI.closing /\ fromOpenAI.openBlocks = {}
  /\ fromOpenAI' = [fromOpenAI EXCEPT !.closing = FALSE]
  /\ Emit(<<ResponseStop(fromOpenAI.pendingStop)>>)
  /\ UNCHANGED <<up, fromAnthropic, fromGemini>>

DecodeChat ==
  \/ \E counts \in {"plain", "reasoning_tokens"} : ChatUsage(counts)
  \/ \E p \in NextPiece :
       \/ ChatContent(p)
       \/ \E call \in Calls : ChatToolCall(call, p)
  \/ \E reason \in ChatReasons : ChatFinish(reason)
  \/ ChatDone
  \/ CloseOpenBlock
  \/ ChatStops

-----------------------------------------------------------------------------
(* Gemini generateContent.                                                 *)

GeminiStarts == IF fromGemini.started THEN <<>> ELSE <<ResponseStart>>

CloseActive ==
  IF fromGemini.active = NoBlock THEN <<>> ELSE <<ContentStop(fromGemini.active)>>

(* ensureText and ensureReasoning, and the start of a function call.       *)
Activates(kind) == fromGemini.kind # kind

Activated(kind) ==
  [fromGemini EXCEPT !.started = TRUE, !.kind = kind, !.active = fromGemini.nextBlock,
                     !.nextBlock = @ + 1, !.sawTool = @ \/ kind = "tool"]

(* A chunk without a candidate, or whose part only has a signature.        *)
EmptyChunk(counts) ==
  /\ Reading("gemini")
  /\ Says(IF up.phase = "idle" THEN "message" ELSE up.phase)
  /\ fromGemini' = [fromGemini EXCEPT !.started = TRUE]
  /\ Emit(GeminiStarts \o <<Usage(counts)>>)
  /\ UNCHANGED <<fromAnthropic, fromOpenAI>>

(* An empty thought is skipped, an empty text is not.                      *)
GeminiText(kind, p) ==
  LET opens == Activates(kind)
      block == IF opens THEN fromGemini.nextBlock ELSE fromGemini.active IN
  /\ Reading("gemini") /\ Lawful({"idle", "message"})
  /\ kind = "reasoning" => p # Empty
  /\ block \in Indexes
  /\ Sends(Adding(block, kind, p))
  /\ fromGemini' = IF opens THEN Activated(kind) ELSE fromGemini
  /\ Emit(GeminiStarts \o
          (IF opens THEN CloseActive \o <<ContentStart(block, kind, Empty)>> ELSE <<>>) \o
          (IF p = Empty THEN <<>> ELSE <<Delta(block, kind, p)>>))
  /\ UNCHANGED <<fromAnthropic, fromOpenAI>>

(* A call that is not the active one starts a block, with all of its       *)
(* arguments.                                                              *)
FunctionCall(p) ==
  LET block == fromGemini.nextBlock IN
  /\ Reading("gemini") /\ Lawful({"idle", "message"})
  /\ p # Empty
  /\ block \in Indexes
  /\ Sends(Adding(block, "tool", p))
  /\ fromGemini' = Activated("tool")
  /\ Emit(GeminiStarts \o CloseActive \o
          <<ContentStart(block, "tool", Empty), Delta(block, "tool", p)>>)
  /\ UNCHANGED <<fromAnthropic, fromOpenAI>>

(* The active call again, by its id or, without one, by its name.  One     *)
(* JSON object never continues another: other arguments are an error.      *)
FunctionCallAgain(changed) ==
  /\ Reading("gemini") /\ Lawful({"message"})
  /\ fromGemini.kind = "tool"
  /\ Says(up.phase)
  /\ IF changed THEN Fail ELSE Emit(<<>>)
  /\ UNCHANGED decoders

GeminiFinish(reason) ==
  /\ Reading("gemini") /\ Lawful({"idle", "message"})
  /\ Says("over")
  /\ fromGemini' = [fromGemini EXCEPT !.started = TRUE, !.stopped = TRUE,
                                      !.active = NoBlock, !.kind = "none"]
  /\ Emit(GeminiStarts \o CloseActive \o
          <<ResponseStop(IF fromGemini.sawTool /\ reason = "end_turn"
                         THEN "tool_use" ELSE reason)>>)
  /\ UNCHANGED <<fromAnthropic, fromOpenAI>>

DecodeGenerateContent ==
  \/ \E counts \in {"plain", "reasoning_tokens"} : EmptyChunk(counts)
  \/ \E p \in NextPiece :
       \/ \E kind \in {"text", "reasoning"} : GeminiText(kind, p)
       \/ FunctionCall(p)
  \/ \E changed \in BOOLEAN : FunctionCallAgain(changed)
  \/ \E reason \in GeminiReasons : GeminiFinish(reason)

-----------------------------------------------------------------------------

Decode ==
  /\ DecodeMessages \/ DecodeChat \/ DecodeGenerateContent \/ Garbage
  /\ UNCHANGED <<pipe, view>>

(* Mutant: a stream cut off after its start is taken for a whole one.      *)
EvenTruncated == TRUE

(* The decoder returned at the end of the upstream's body without an       *)
(* error: it never started, or it stopped.                                 *)
DecodedWhole ==
  CASE pipe.from = "anthropic" -> ~fromAnthropic.started \/ fromAnthropic.stopped
    [] pipe.from = "openai" -> ~fromOpenAI.started \/ fromOpenAI.done
    [] OTHER -> ~fromGemini.started \/ fromGemini.stopped
=============================================================================
