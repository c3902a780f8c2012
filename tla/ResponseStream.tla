--------------------------- MODULE ResponseStream ---------------------------
(***************************************************************************)
(* A translated stream from the upstream's first event to the client's     *)
(* last: the goroutine of translateStream decodes an upstream event,       *)
(* checks each canonical event against the pair of formats, keeps the turn *)
(* and encodes the event for the client; with buffer_refusals it holds the *)
(* events back until the upstream has ended.  The first error ends it, and *)
(* with it the client's stream.                                            *)
(***************************************************************************)
EXTENDS StreamDecoders, StreamEncoders, SequencesExt

CONSTANT MaxBuffered   \* maxBufferedResponsesEvents

ASSUME BufferBound == MaxBuffered \in Nat

VARIABLES
  kept,       \* responseStateStreamAccumulator: what Observe has seen
  buffer,     \* responsesEventBuffer, and whether it was let go
  stored,     \* the turn as it was stored
  listening   \* the client still reads

vars == <<pipe, up, stage, queue, view, decoders, encoders,
          kept, buffer, stored, listening>>

Accumulator ==
  [named : BOOLEAN, texts : SUBSET Indexes, tools : SUBSET Indexes,
   text : [Indexes -> Seq(Nat)], arguments : [Indexes -> Seq(Nat)],
   initial : [Indexes -> Seq(Nat)], nonportable : BOOLEAN,
   stopReason : Reasons \cup {"none"}]

Buffer == [events : Seq(Event), released : BOOLEAN]

Nothing == [status |-> "nothing"]

Turn == [status : {"completed", "incomplete"}, content : Accumulator]

-----------------------------------------------------------------------------
(* The compatibility rules of application/translation/*_stream.go.         *)

(* Every format but Responses lacks some count of the usage record, and    *)
(* Gemini's rules refuse one that its upstream never sends.                *)
LacksCount(e) ==
  CASE pipe.to = "messages" -> e.kind = "reasoning_tokens"
    [] pipe.from = "anthropic" /\ pipe.to = "responses" -> FALSE
    [] OTHER -> e.kind = "cache_write"

(* Reasoning reaches Responses only; for Chat Completions its first text   *)
(* is refused, not its start.                                              *)
LacksReasoning(e) ==
  /\ pipe.to # "responses"
  /\ \/ e.type = "reasoning_delta"
     \/ /\ e.type = "content_start" /\ e.kind = "reasoning"
        /\ <<pipe.from, pipe.to>> # <<"anthropic", "chat">>

LacksError(e) == e.type = "error" /\ (pipe.to = "gemini" \/ pipe.from = "gemini")

(* A Responses stream can only be a refusal from its start.                *)
LacksRefusal(e) ==
  /\ e.type = "response_stop" /\ e.reason = "content_block"
  /\ \/ pipe.to = "responses" /\ ~pipe.held
     \/ pipe.from = "gemini" /\ pipe.to = "messages"

Incompatible(e) ==
  \/ e.type = "usage" /\ LacksCount(e)
  \/ LacksReasoning(e)
  \/ LacksError(e)
  \/ LacksRefusal(e)

-----------------------------------------------------------------------------
(* The accumulator of the turn.                                            *)

Unobservable(e) ==
  \/ e.type = "text_delta" /\ e.index \notin kept.texts
  \/ e.type = "tool_call_delta" /\ e.index \notin kept.tools

Observed(e) ==
  CASE e.type = "response_start" -> [kept EXCEPT !.named = pipe.named]
    [] e.type = "content_start" /\ e.kind = "text" ->
         [kept EXCEPT !.texts = @ \cup {e.index}, !.text[e.index] = Pieces(e.piece)]
    [] e.type = "text_delta" -> [kept EXCEPT !.text[e.index] = @ \o Pieces(e.piece)]
    [] e.type = "tool_call_start" ->
         [kept EXCEPT !.tools = @ \cup {e.index}, !.arguments[e.index] = <<>>,
                      !.initial[e.index] = Pieces(e.piece)]
    [] e.type = "tool_call_delta" ->
         [kept EXCEPT !.arguments[e.index] = @ \o Pieces(e.piece)]
    [] e.type = "response_stop" -> [kept EXCEPT !.stopReason = e.reason]
    [] \/ e.type = "content_start" /\ e.kind # "text"
       \/ e.type = "reasoning_delta" -> [kept EXCEPT !.nonportable = TRUE]
    [] OTHER -> kept

(* Persist refuses a turn it could not continue.                           *)
Unkeepable ==
  \/ ~kept.named
  \/ kept.stopReason = "none"
  \/ \E i \in (kept.tools \ kept.texts) \cap pipe.broken : kept.arguments[i] # <<>>

-----------------------------------------------------------------------------

Init ==
  /\ pipe \in Pipes
  /\ up = [reads |-> 0, pieces |-> 0, phase |-> "idle", next |-> 0,
           open |-> "none", reported |-> FALSE, sent |-> <<>>]
  /\ stage = "read"
  /\ queue = <<>>
  /\ view = [begun |-> 0, items |-> <<>>, faults |-> {}, ends |-> <<>>]
  /\ InitDecoders
  /\ InitEncoders
  /\ kept = [named |-> FALSE, texts |-> {}, tools |-> {},
             text |-> [i \in Indexes |-> <<>>], arguments |-> [i \in Indexes |-> <<>>],
             initial |-> [i \in Indexes |-> <<>>], nonportable |-> FALSE,
             stopReason |-> "none"]
  /\ buffer = [events |-> <<>>, released |-> FALSE]
  /\ stored = Nothing
  /\ listening = TRUE

Read ==
  /\ Decode
  /\ UNCHANGED <<encoders, kept, buffer, stored, listening>>

(* Mutant: the buffer has no limit.                                        *)
NeverFull == FALSE

(* The count limit of responsesEventBuffer.Append; its limit in bytes may  *)
(* be reached at any event.                                                *)
Full == Len(buffer.events) >= MaxBuffered

(* The next canonical event, up to the point where it is encoded or held.  *)
Accept ==
  LET e == Head(queue) IN
  /\ stage = "accept"
  /\ kept' = IF pipe.to = "responses" /\ ~Incompatible(e) /\ ~Unobservable(e)
             THEN Observed(e) ELSE kept
  /\ \/ /\ Incompatible(e) \/ (pipe.to = "responses" /\ Unobservable(e))
        /\ Fail
        /\ UNCHANGED buffer
     \/ /\ ~Incompatible(e) /\ ~(pipe.to = "responses" /\ Unobservable(e))
        /\ ~pipe.held
        /\ stage' = IF e.type = "response_stop" /\ pipe.stores THEN "persist" ELSE "encode"
        /\ UNCHANGED <<queue, buffer>>
     \/ /\ ~Incompatible(e) /\ ~Unobservable(e)
        /\ pipe.held
        /\ ~Full
        /\ buffer' = [buffer EXCEPT !.events = Append(@, e)]
        /\ Emit(Tail(queue))
     \/ /\ ~Incompatible(e) /\ ~Unobservable(e)
        /\ pipe.held
        /\ Fail
        /\ UNCHANGED buffer
  /\ UNCHANGED <<pipe, up, view, decoders, encoders, stored, listening>>

(* Mutant: an answer cut short is stored as a whole one.                   *)
AlwaysCompleted == "completed"

TurnStatus == IF kept.stopReason = "max_tokens" THEN "incomplete" ELSE "completed"

Persist ==
  /\ stage = "persist"
  /\ ~Unkeepable
  /\ stored' = [status |-> TurnStatus, content |-> kept]
  /\ stage' = IF pipe.held THEN "release" ELSE "encode"
  /\ UNCHANGED <<pipe, up, queue, view, decoders, encoders, kept, buffer, listening>>

(* The turn cannot be kept, or the store fails.                            *)
PersistFails ==
  /\ stage = "persist"
  /\ Fail
  /\ UNCHANGED <<pipe, up, view, decoders, encoders, kept, buffer, stored, listening>>

Encode ==
  LET e == Head(queue) IN
  /\ stage = "encode"
  /\ Writes(e) => listening
  /\ EncodeEvent(e)
  /\ queue' = Tail(queue)
  /\ stage' = IF Tail(queue) = <<>> THEN IF pipe.held THEN "ended" ELSE "read"
                                   ELSE IF pipe.held THEN "encode" ELSE "accept"
  /\ UNCHANGED <<pipe, up, decoders, kept, buffer, stored, listening>>

EncodeFails ==
  LET e == Head(queue) IN
  /\ stage = "encode"
  /\ EncoderRefuses(e) \/ (Writes(e) /\ ~listening)
  /\ Fail
  /\ UNCHANGED <<pipe, up, view, decoders, encoders, kept, buffer, stored, listening>>

(* The upstream's body ends.  What was held back is kept and let go now.   *)
UpstreamEnds ==
  /\ stage = "read" /\ ~fromOpenAI.closing
  /\ queue' = queue
  /\ stage' = IF ~DecodedWhole THEN "failed"
              ELSE IF ~pipe.held THEN "ended"
              ELSE IF pipe.stores THEN "persist" ELSE "release"
  /\ UNCHANGED <<pipe, up, view, decoders, encoders, kept, buffer, stored, listening>>

(* Or it breaks off: the connection is lost, or an event is cut in two.    *)
UpstreamBreaks ==
  /\ stage = "read" /\ ~fromOpenAI.closing
  /\ Fail
  /\ UNCHANGED <<pipe, up, view, decoders, encoders, kept, buffer, stored, listening>>

(* Mutant: whatever was held back is taken for a refusal.                  *)
WheneverHeld == pipe.held

(* bufferedResponsesRefusal                                                *)
Refusal ==
  \E k \in DOMAIN buffer.events :
    /\ buffer.events[k].type = "response_stop"
    /\ buffer.events[k].reason = "content_block"
    /\ \A j \in DOMAIN buffer.events : buffer.events[j].type = "response_stop" => j <= k

Release ==
  /\ stage = "release"
  /\ toResponses' = [toResponses EXCEPT !.refusalMode = Refusal]
  /\ buffer' = [buffer EXCEPT !.released = TRUE]
  /\ queue' = buffer.events
  /\ stage' = IF buffer.events = <<>> THEN "ended" ELSE "encode"
  /\ UNCHANGED <<pipe, up, view, decoders, toChat, toGemini, kept, stored, listening>>

ClientLeaves ==
  /\ listening /\ stage \notin {"ended", "failed"}
  /\ listening' = FALSE
  /\ UNCHANGED <<pipe, up, stage, queue, view, decoders, encoders, kept, buffer, stored>>

Closed ==
  /\ stage \in {"ended", "failed"}
  /\ UNCHANGED vars

Next ==
  \/ Read \/ Accept
  \/ Persist \/ PersistFails
  \/ Encode \/ EncodeFails
  \/ UpstreamEnds \/ UpstreamBreaks
  \/ Release
  \/ ClientLeaves
  \/ Closed

Spec == Init /\ [][Next]_vars

-----------------------------------------------------------------------------
(* Properties.                                                             *)

(* The state keeps its shape.  The pipeline's fields are those of          *)
(* translateStream's closures.                                             *)
TypeOK ==
  /\ pipe \in Pipes
  /\ up \in Upstream
  /\ stage \in Stages
  /\ queue \in Seq(Event)
  /\ stage \in {"accept", "encode"} => queue # <<>>
  /\ view \in View
  /\ fromAnthropic \in AnthropicDecoder
  /\ fromOpenAI \in OpenAIDecoder
  /\ fromGemini \in GeminiDecoder
  /\ toResponses \in ResponsesEncoder
  /\ toChat \in ChatEncoder
  /\ toGemini \in GeminiEncoder
  /\ kept \in Accumulator
  /\ buffer \in Buffer /\ Len(buffer.events) <= MaxBuffered
  /\ stored \in Turn \cup {Nothing}
  /\ listening \in BOOLEAN

Untouched == view.begun = 0 /\ view.items = <<>> /\ view.ends = <<>>

Succeeded == \E k \in DOMAIN view.ends : view.ends[k].status # "failed"

(* What a reader of the client's format can place: the stream begins once, *)
(* items are opened, filled and closed in order, it ends once, and nothing *)
(* follows.  A Responses stream keeps this for any upstream (encoder state *)
(* of responses_stream.go), except that deltas may follow response.failed; *)
(* what it repeats in closing and in its terminal event is what it sent.   *)
ResponsesFrames ==
  pipe.to = "responses" =>
    /\ view.begun <= 1 /\ Len(view.ends) <= 1
    /\ view.faults \subseteq {"late"}
    /\ Succeeded => view.faults = {}
    /\ \A k \in DOMAIN view.items :
         view.items[k].done => view.items[k].whole = view.items[k].data
    /\ Succeeded =>
         /\ Len(view.ends[1].output) = Len(view.items)
         /\ \A k \in DOMAIN view.items :
              /\ view.items[k].done
              /\ view.ends[1].output[k].whole = view.items[k].data

WellFormed ==
  /\ pipe.lawful => view.faults = {} /\ view.begun <= 1 /\ Len(view.ends) <= 1
  /\ ResponsesFrames

(* The data of the first n blocks of these kinds, and the same joined up.  *)
DataUpTo(blocks, kinds) ==
  LET upTo[n \in 0 .. Len(blocks)] ==
        IF n = 0 THEN <<>>
        ELSE IF blocks[n].kind \in kinds THEN Append(upTo[n - 1], blocks[n].data)
                                         ELSE upTo[n - 1]
  IN upTo

JoinedUpTo(blocks, kinds) ==
  LET upTo[n \in 0 .. Len(blocks)] ==
        IF n = 0 THEN <<>>
        ELSE IF blocks[n].kind \in kinds THEN upTo[n - 1] \o blocks[n].data
                                         ELSE upTo[n - 1]
  IN upTo

DataOf(blocks, kinds) == DataUpTo(blocks, kinds)[Len(blocks)]
Joined(blocks, kinds) == JoinedUpTo(blocks, kinds)[Len(blocks)]

Text(blocks) == Joined(blocks, {"text", "refusal"})
Reasoning(blocks) == Joined(blocks, {"reasoning"})
ToolCalls(blocks) == DataOf(blocks, {"tool"})

(* The client reads what the upstream sent, piece by piece and in order,   *)
(* through any decoder and encoder; a stream that ends in success is whole *)
(* and was ended by the upstream (no truncated answer looks complete).     *)
Faithful ==
  pipe.lawful =>
    /\ IsPrefix(Text(view.items), Text(up.sent))
    /\ IsPrefix(Reasoning(view.items), Reasoning(up.sent))
    /\ \A k \in DOMAIN ToolCalls(view.items) :
         /\ k \in DOMAIN ToolCalls(up.sent)
         /\ IsPrefix(ToolCalls(view.items)[k], ToolCalls(up.sent)[k])
    /\ Succeeded =>
         /\ up.phase = "over" /\ ~up.reported
         /\ Text(view.items) = Text(up.sent)
         /\ Reasoning(view.items) = Reasoning(up.sent)
         /\ ToolCalls(view.items) = ToolCalls(up.sent)

(* The turn a later request continues is the one the client was shown: the *)
(* accumulator of response_state_stream.go and the encoder build their     *)
(* copies apart from each other, and the turn is stored before the client  *)
(* reads that the response is complete.                                    *)
StoredBlock(turn, i) ==
  CASE i \in turn.texts -> Opened(i, "text", turn.text[i])
    [] i \in turn.tools \ turn.texts ->
         Opened(i, "tool", IF turn.arguments[i] = <<>> THEN turn.initial[i]
                                                      ELSE turn.arguments[i])
    [] OTHER -> Opened(i, "reasoning", <<>>)

StoredBlocks(turn) == [k \in 1 .. MaxBlocks |-> StoredBlock(turn, k - 1)]

StoredAsShown ==
  pipe.stores /\ pipe.lawful /\ Succeeded =>
    /\ stored # Nothing
    /\ stored.status = view.ends[1].status
    /\ Text(StoredBlocks(stored.content)) = Text(view.items)
    /\ ToolCalls(StoredBlocks(stored.content)) = ToolCalls(view.items)
    /\ stored.content.nonportable <=>
         \E k \in DOMAIN view.items : view.items[k].kind = "reasoning"

(* translateStream closes its pipe without an error only when the client   *)
(* has read an end, the failure the upstream reported included; the reader *)
(* cannot tell an error of the pipe from its end (flushCopy's is dropped), *)
(* so the frames themselves must say that a stream is complete.  (Only     *)
(* DecodeMessagesStream lets content through that no message_start opened, *)
(* and only the Responses encoder then refuses it.)                        *)
NoSilentEnd ==
  stage = "ended" /\ (pipe.lawful \/ pipe.from # "anthropic" \/ pipe.to = "responses") =>
    \/ Untouched
    \/ /\ view.ends # <<>>
       /\ pipe.lawful => (up.reported <=> view.ends[1].status = "failed")

(* COMPATIBILITY.md 78-80: with buffer_refusals nothing is written before  *)
(* the upstream's stop reason is known, and the text is then either all    *)
(* refusal or none of it; without, a late refusal never ends a stream that *)
(* showed its text as an answer.                                           *)
HeldBack == pipe.held /\ ~buffer.released => Untouched

RefusalExact ==
  pipe.to = "responses" =>
    /\ HeldBack
    /\ pipe.lawful =>
         \A k \in DOMAIN view.ends, n \in DOMAIN view.items :
           /\ view.ends[k].reason = "content_block" => view.items[n].kind # "text"
           /\ view.ends[k].reason # "content_block" => view.items[n].kind # "refusal"

(* README.md 25 and COMPATIBILITY.md 33: failures that the provider's      *)
(* stream reports are mapped to response.failed.  So once an answer has    *)
(* begun, a failure that ends it does not keep its held events from being  *)
(* sent, the failure among them, when the turn is to be stored.  The code  *)
(* does not keep this: Persist refuses a turn without a stop reason.       *)
FailureMapped ==
  stage = "persist" /\ pipe.lawful /\ kept.named /\ pipe.broken = {} /\ up.reported =>
    ~Unkeepable
=============================================================================
