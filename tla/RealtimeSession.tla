--------------------------- MODULE RealtimeSession ---------------------------
(***************************************************************************)
(* RealtimeSessionBridge: an OpenAI Realtime session translated to a Gemini*)
(* Live session and back (translator/realtime_session.go and the codecs it *)
(* is built from).  What each message says does not matter here, only what *)
(* it does to the session; pieces of text and audio are numbered as Gemini *)
(* sends them, and so are the client's messages.                           *)
(***************************************************************************)
EXTENDS Naturals, Sequences

CONSTANT Calls   \* the ids Gemini gives to its tool calls

NoCall == "no call"

ASSUME CallIds == NoCall \notin Calls

VARIABLES
  session,   \* RealtimeSessionBridge's own fields
  decoder,   \* LiveStreamDecoder
  encoder    \* RealtimeServerEncoder

Media == {"text", "audio"}
ItemKinds == Media \cup {"tool"}

Session == [setupSent : BOOLEAN, setupComplete : BOOLEAN, toolCalls : SUBSET Calls]

Decoder == [open : BOOLEAN, content : Media \cup {"none"}]

Encoder == [live : BOOLEAN, item : ItemKinds \cup {"none"}, output : Seq(ItemKinds)]

InitSession ==
  /\ session = [setupSent |-> FALSE, setupComplete |-> FALSE, toolCalls |-> {}]
  /\ decoder = [open |-> FALSE, content |-> "none"]
  /\ encoder = [live |-> FALSE, item |-> "none", output |-> <<>>]

-----------------------------------------------------------------------------
(* From the client.  "content" stands for messages, audio and turn ends;   *)
(* "foreign" is what the decoder or the portability rules refuse, "empty"  *)
(* a message without text, which only LiveClientEncoder refuses.  Any event*)
(* may carry the output of a call (DecodeRealtimeEvent decodes an item     *)
(* whatever the type, and only an item.create becomes a "result").         *)

ClientMessage ==
  {m \in [kind : {"setup", "content", "result", "foreign", "empty"},
          call : Calls \cup {NoCall}, n : Nat] :
     /\ m.kind = "result" => m.call # NoCall
     /\ m.kind = "empty" => m.call = NoCall}

(* Mutant: content is let through while the setup is under way.            *)
NeverPending(m) == FALSE

Unknown(m) == m.call \notin session.toolCalls \cup {NoCall}

(* ErrRealtimeSetupPending: the same message is tried again later.         *)
Pending(m) ==
  /\ m.kind \notin {"foreign", "setup"} /\ ~Unknown(m)
  /\ session.setupSent /\ ~session.setupComplete

Refused(m) ==
  \/ m.kind = "foreign" \/ Unknown(m)
  \/ m.kind # "setup" /\ ~session.setupSent
  \/ m.kind = "setup" /\ session.setupSent
  \/ m.kind = "empty" /\ session.setupComplete

Translated(m) ==
  [session EXCEPT !.setupSent = @ \/ m.kind = "setup",
                  !.toolCalls = @ \ {m.call}]

-----------------------------------------------------------------------------
(* From Gemini.  "foreign" is what has no mapping: goAway, resumption,     *)
(* cancellations, metadata, and what cannot be decoded.                    *)

ServerMessage ==
  {m \in [type : {"setupComplete", "content", "toolCall", "usage", "foreign"},
          media : SUBSET Media, complete : {"no", "generation", "turn", "interrupted"},
          calls : Seq(Calls), usage : BOOLEAN, piece : Nat] :
     /\ m.type # "content" => m.media = {} /\ m.complete = "no"
     /\ m.type = "toolCall" <=> m.calls # <<>>
     /\ m.type = "usage" => m.usage}

EventTypes == {"response_start", "content_start", "delta", "content_stop",
               "usage", "response_stop"}

Event == [type : EventTypes, kind : ItemKinds \cup {"none"},
          call : Calls \cup {NoCall}, piece : Nat, unknown : BOOLEAN]

Plain(type) ==
  [type |-> type, kind |-> "none", call |-> NoCall, piece |-> 0, unknown |-> FALSE]

Says(m) == m.media # {} \/ m.complete # "no"

EndsTurn(m) == m.complete \in {"turn", "interrupted"}

(* The three checks of ServerMessage, then those of Decode.                *)
Unportable(m) ==
  \/ m.type = "foreign"
  \/ m.type = "setupComplete" /\ ~session.setupSent
  \/ m.media = Media
  \/ m.media # {} /\ decoder.content # "none" /\ m.media # {decoder.content}
  \/ m.type = "toolCall" /\ decoder.content # "none"

Opening(open) == IF open THEN <<>> ELSE <<Plain("response_start")>>

MediaEvents(m) ==
  LET kind == CHOOSE k \in m.media : TRUE
      delta == [Plain("delta") EXCEPT !.kind = kind, !.piece = m.piece]
  IN IF m.media = {} THEN <<>>
     ELSE IF decoder.content = "none"
          THEN <<[Plain("content_start") EXCEPT !.kind = kind], delta>>
          ELSE <<delta>>

(* Each call is an item of its own, opened, filled and closed.             *)
CallEvent(calls, k) ==
  [Plain(CASE k % 3 = 1 -> "content_start" [] k % 3 = 2 -> "delta"
           [] OTHER -> "content_stop")
     EXCEPT !.kind = "tool", !.call = calls[(k + 2) \div 3]]

ToolEvents(calls) ==
  [k \in 1 .. 3 * Len(calls) |-> CallEvent(calls, k)] \o <<Plain("response_stop")>>

EndEvents(m, content) ==
  (IF content THEN <<Plain("content_stop")>> ELSE <<>>)
    \o <<[Plain("response_stop") EXCEPT !.unknown = m.complete = "interrupted"]>>

(* LiveStreamDecoder.Decode: a usage record may open a response, also one  *)
(* that comes with a tool call, whose response is over by then.            *)
UsageEvents(m, open) ==
  IF m.usage THEN Opening(open) \o <<Plain("usage")>> ELSE <<>>

Decoded(m) ==
  CASE m.type = "toolCall" ->
         Opening(decoder.open) \o ToolEvents(m.calls) \o UsageEvents(m, FALSE)
    [] m.type = "content" /\ Says(m) ->
         Opening(decoder.open) \o MediaEvents(m) \o UsageEvents(m, TRUE)
           \o (IF EndsTurn(m) THEN EndEvents(m, decoder.content # "none" \/ m.media # {})
                          ELSE <<>>)
    [] OTHER -> UsageEvents(m, decoder.open)

DecoderAfter(m) ==
  [open |-> CASE m.type = "toolCall" -> m.usage
              [] EndsTurn(m) -> FALSE
              [] OTHER -> decoder.open \/ Says(m) \/ m.usage,
   content |-> IF EndsTurn(m) THEN "none"
               ELSE IF m.media # {} THEN CHOOSE k \in m.media : TRUE
               ELSE decoder.content]

SessionAfter(m) ==
  [session EXCEPT !.setupComplete = @ \/ m.type = "setupComplete",
                  !.toolCalls = @ \cup {m.calls[k] : k \in DOMAIN m.calls}]

-----------------------------------------------------------------------------
(* RealtimeServerEncoder: what it refuses, what it becomes, and what it    *)
(* writes (the two or three frames of one event count as one).             *)

EncoderRefuses(e) ==
  CASE e.type = "response_start" -> encoder.live
    [] e.type = "content_start" -> ~encoder.live \/ encoder.item # "none"
    [] e.type = "delta" -> encoder.item # e.kind
    [] e.type = "content_stop" -> encoder.item = "none"
    [] e.type = "response_stop" -> ~encoder.live \/ encoder.item # "none" \/ e.unknown
    [] OTHER -> FALSE

EncoderAfter(e) ==
  CASE e.type = "response_start" -> [live |-> TRUE, item |-> "none", output |-> <<>>]
    [] e.type = "content_start" -> [encoder EXCEPT !.item = e.kind]
    [] e.type = "content_stop" ->
         [encoder EXCEPT !.item = "none", !.output = Append(@, encoder.item)]
    [] e.type = "response_stop" -> [encoder EXCEPT !.live = FALSE]
    [] OTHER -> encoder

Payload == [event : Event, at : Nat, output : Seq(ItemKinds)]

Encoded(e) ==
  IF e.type = "usage" THEN <<>>
  ELSE <<[event |-> e, at |-> Len(encoder.output), output |-> encoder.output]>>
=============================================================================
