--------------------------- MODULE StreamEncoders ---------------------------
(***************************************************************************)
(* The encoders of the client formats: ResponsesStreamEncoder,             *)
(* ChatStreamEncoder, MessagesStreamEncoder (which keeps no state that     *)
(* matters) and GenerateContentStreamEncoder.  Each has the events it      *)
(* refuses with an error, and for every other event what it writes.  An    *)
(* encoder keeps what the code keeps; what the client makes of the frames  *)
(* is the view of StreamEvents.                                            *)
(***************************************************************************)
EXTENDS StreamEvents

VARIABLES toResponses, toChat, toGemini

encoders == <<toResponses, toChat, toGemini>>

(* blocks: the position in output of an open block, 0 when there is none.  *)
ResponsesEncoder ==
  [started : BOOLEAN, stopped : BOOLEAN, refusalMode : BOOLEAN,
   blocks : [Indexes -> Nat], text : [Indexes -> Seq(Nat)], output : Seq(Block)]

(* toolIndexes: the tool index of a block, 0 for the first.                *)
ChatEncoder == [toolIndexes : [Indexes -> Nat \cup {NoBlock}], nextTool : Nat]

GeminiEncoder ==
  [started : BOOLEAN, tools : SUBSET Indexes, arguments : [Indexes -> Seq(Nat)]]

InitEncoders ==
  /\ toResponses = [started |-> FALSE, stopped |-> FALSE, refusalMode |-> FALSE,
                    blocks |-> [i \in Indexes |-> 0],
                    text |-> [i \in Indexes |-> <<>>], output |-> <<>>]
  /\ toChat = [toolIndexes |-> [i \in Indexes |-> NoBlock], nextTool |-> 0]
  /\ toGemini = [started |-> FALSE, tools |-> {}, arguments |-> [i \in Indexes |-> <<>>]]

-----------------------------------------------------------------------------
(* OpenAI Responses.                                                       *)

Active == toResponses.started /\ ~toResponses.stopped

BlockOf(i) == toResponses.blocks[i]

OpenWithKind(e, kinds) ==
  BlockOf(e.index) # 0 /\ toResponses.output[BlockOf(e.index)].kind \in kinds

ResponsesRefuses(e) ==
  \/ e.type = "response_start" /\ toResponses.started
  \/ e.type \in {"content_start", "tool_call_start"} /\ (~Active \/ BlockOf(e.index) # 0)
  \/ e.type = "text_delta" /\ ~OpenWithKind(e, {"text", "refusal"})
  \/ e.type = "reasoning_delta" /\ ~OpenWithKind(e, {"reasoning"})
  \/ e.type = "tool_call_delta" /\ ~OpenWithKind(e, {"tool"})
  \/ e.type = "content_stop" /\ BlockOf(e.index) = 0
  \/ e.type = "response_stop" /\ (~Active \/ \E i \in Indexes : BlockOf(i) # 0)
  \/ e.type = "error" /\ ~Active
  \/ /\ e.type = "response_stop"
     /\ e.reason = "content_block" /\ ~toResponses.refusalMode

StartResponse ==
  /\ toResponses' = [toResponses EXCEPT !.started = TRUE]
  /\ WriteBegin

(* startContent and startToolCall: the arguments of a call that are        *)
(* already in its start are left out.                                      *)
StartContent(e) ==
  LET position == Len(toResponses.output) + 1
      kind == IF e.kind = "text" /\ toResponses.refusalMode THEN "refusal" ELSE e.kind
      text == IF kind = "tool" THEN <<>> ELSE Pieces(e.piece) IN
  /\ toResponses' = [toResponses EXCEPT
       !.blocks[e.index] = position,
       !.text[e.index] = text,
       !.output = Append(@, Opened(position, kind, <<>>))]
  /\ WriteItem(position, kind, text)

WriteContentDelta(e) ==
  /\ toResponses' = [toResponses EXCEPT !.text[e.index] = @ \o Pieces(e.piece)]
  /\ WriteDelta(BlockOf(e.index), e.piece)

StopContent(e) ==
  LET text == toResponses.text[e.index] IN
  /\ toResponses' = [toResponses EXCEPT
       !.blocks[e.index] = 0,
       !.output[BlockOf(e.index)].done = TRUE,
       !.output[BlockOf(e.index)].whole = text]
  /\ WriteDone(BlockOf(e.index), text)

StopResponse(e) ==
  /\ toResponses' = [toResponses EXCEPT !.stopped = TRUE]
  /\ WriteEnd(IF e.reason = "max_tokens" THEN "incomplete" ELSE "completed",
              e.reason, toResponses.output)

(* Mutant: a failed response may still be stopped.                         *)
FailResponseGoesOn ==
  /\ WriteEnd("failed", "none", toResponses.output)
  /\ UNCHANGED toResponses

FailResponse ==
  /\ toResponses' = [toResponses EXCEPT !.stopped = TRUE]
  /\ WriteEnd("failed", "none", toResponses.output)

EncodeResponses(e) ==
  /\ ~ResponsesRefuses(e)
  /\ \/ e.type = "response_start" /\ StartResponse
     \/ e.type \in {"content_start", "tool_call_start"} /\ StartContent(e)
     \/ /\ e.type \in {"text_delta", "reasoning_delta", "tool_call_delta"}
        /\ WriteContentDelta(e)
     \/ e.type = "content_stop" /\ StopContent(e)
     \/ e.type = "response_stop" /\ StopResponse(e)
     \/ e.type = "error" /\ FailResponse
     \/ e.type = "usage" /\ UNCHANGED <<toResponses, view>>
  /\ UNCHANGED <<toChat, toGemini>>

-----------------------------------------------------------------------------
(* OpenAI Chat Completions: a choice has one text and a list of tool calls.*)

ChatRefuses(e) ==
  \/ e.type = "tool_call_delta" /\ toChat.toolIndexes[e.index] = NoBlock
  \/ e.type \in {"reasoning_delta", "error"}

WriteChatText(p) ==
  IF IsOpen(NoBlock) THEN WriteDelta(NoBlock, p) ELSE WriteItem(NoBlock, "text", Pieces(p))

(* Mutant: the tool index is not counted up.                               *)
StartChatToolAtZero(e) ==
  /\ toChat' = [toChat EXCEPT !.toolIndexes[e.index] = 0]
  /\ WriteItem(0, "tool", <<>>)

StartChatTool(e) ==
  IF toChat.toolIndexes[e.index] = NoBlock
  THEN /\ toChat' = [toChat EXCEPT !.toolIndexes[e.index] = toChat.nextTool,
                                   !.nextTool = @ + 1]
       /\ WriteItem(toChat.nextTool, "tool", <<>>)
  ELSE UNCHANGED <<toChat, view>>

EncodeChat(e) ==
  /\ ~ChatRefuses(e)
  /\ \/ e.type = "response_start" /\ WriteBegin /\ UNCHANGED toChat
     \/ e.type = "text_delta" /\ WriteChatText(e.piece) /\ UNCHANGED toChat
     \/ e.type = "tool_call_start" /\ StartChatTool(e)
     \/ /\ e.type = "tool_call_delta"
        /\ WriteDelta(toChat.toolIndexes[e.index], e.piece)
        /\ UNCHANGED toChat
     \/ /\ e.type = "response_stop"
        /\ WriteEnd("completed", e.reason, <<>>)
        /\ UNCHANGED toChat
     \/ e.type \in {"content_start", "content_stop", "usage"} /\ UNCHANGED <<toChat, view>>
  /\ UNCHANGED <<toResponses, toGemini>>

-----------------------------------------------------------------------------
(* Anthropic Messages: an event becomes a frame, whatever came before.     *)

MessagesRefuses(e) ==
  \/ e.type = "content_start" /\ e.kind # "text"
  \/ e.type = "reasoning_delta"

EncodeMessages(e) ==
  /\ ~MessagesRefuses(e)
  /\ \/ e.type = "response_start" /\ WriteBegin
     \/ e.type \in {"content_start", "tool_call_start"} /\ WriteItem(e.index, e.kind, <<>>)
     \/ e.type \in {"text_delta", "tool_call_delta"} /\ WriteDelta(e.index, e.piece)
     \/ e.type = "content_stop" /\ WriteDone(e.index, <<>>)
     \/ e.type = "response_stop" /\ WriteEnd("completed", e.reason, <<>>)
     \/ e.type = "error" /\ WriteEnd("failed", "none", <<>>)
     \/ e.type = "usage" /\ UNCHANGED view
  /\ UNCHANGED <<toResponses, toChat, toGemini>>

-----------------------------------------------------------------------------
(* Gemini generateContent: texts are written as they come, calls when they *)
(* are complete.  There is no frame for the start of a response.           *)

GeminiRefuses(e) ==
  \/ e.type = "response_start" /\ toGemini.started
  \/ e.type = "tool_call_delta" /\ e.index \notin toGemini.tools
  \/ /\ e.type = "content_stop" /\ e.index \in toGemini.tools \cap pipe.broken
     /\ toGemini.arguments[e.index] # <<>>
  \/ e.type = "response_stop" /\ toGemini.tools # {}
  \/ e.type \in {"reasoning_delta", "error"}

(* The parts a client has so far; a text continues the text before it.     *)
Parts == Len(view.items)

WriteGeminiText(p) ==
  IF Parts # 0 /\ view.items[Parts].kind = "text"
  THEN WriteDelta(Parts, p) ELSE WriteItem(Parts + 1, "text", Pieces(p))

EncodeGemini(e) ==
  /\ ~GeminiRefuses(e)
  /\ \/ /\ e.type = "response_start"
        /\ toGemini' = [toGemini EXCEPT !.started = TRUE]
        /\ WriteBegin
     \/ e.type = "text_delta" /\ WriteGeminiText(e.piece) /\ UNCHANGED toGemini
     \/ /\ e.type = "tool_call_start"
        /\ toGemini' = [toGemini EXCEPT !.tools = @ \cup {e.index},
                                        !.arguments[e.index] = <<>>]
        /\ UNCHANGED view
     \/ /\ e.type = "tool_call_delta"
        /\ toGemini' = [toGemini EXCEPT !.arguments[e.index] = @ \o Pieces(e.piece)]
        /\ UNCHANGED view
     \/ /\ e.type = "content_stop" /\ e.index \in toGemini.tools
        /\ toGemini' = [toGemini EXCEPT !.tools = @ \ {e.index}]
        /\ WriteItem(Parts + 1, "tool", toGemini.arguments[e.index])
     \/ /\ e.type = "response_stop"
        /\ WriteEnd("completed", e.reason, <<>>)
        /\ UNCHANGED toGemini
     \/ /\ \/ e.type \in {"content_start", "usage"}
           \/ e.type = "content_stop" /\ e.index \notin toGemini.tools
        /\ UNCHANGED <<toGemini, view>>
  /\ UNCHANGED <<toResponses, toChat>>

-----------------------------------------------------------------------------

EncoderRefuses(e) ==
  CASE pipe.to = "responses" -> ResponsesRefuses(e)
    [] pipe.to = "chat" -> ChatRefuses(e)
    [] pipe.to = "messages" -> MessagesRefuses(e)
    [] OTHER -> GeminiRefuses(e)

(* Events that an encoder only takes note of, or ignores.                  *)
Writes(e) ==
  /\ e.type # "usage"
  /\ pipe.to = "responses" =>
       ~(e.type \in {"tool_call_delta", "reasoning_delta"} /\ e.piece = Empty)
  /\ pipe.to = "chat" => e.type \notin {"content_start", "content_stop"}
  /\ pipe.to = "gemini" =>
       \/ e.type \in {"text_delta", "response_stop"}
       \/ e.type = "content_stop" /\ e.index \in toGemini.tools

EncodeEvent(e) ==
  \/ pipe.to = "responses" /\ EncodeResponses(e)
  \/ pipe.to = "chat" /\ EncodeChat(e)
  \/ pipe.to = "messages" /\ EncodeMessages(e)
  \/ pipe.to = "gemini" /\ EncodeGemini(e)
=============================================================================
