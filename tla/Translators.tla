----------------------------- MODULE Translators ----------------------------
(***************************************************************************)
(* The translator's functions (internal/translator/runtime*.go), one per   *)
(* pair of protocols and way of answering.  Each is a straight line of     *)
(* steps that may fail around one call of the upstream: what it does       *)
(* before the call, the call, and what it does with the reply.  Only the   *)
(* marks an error carries tell the handlers what to do next, so a step is  *)
(* its name and the marks of its error (an error may carry several:        *)
(* WrapResponse of a CompatibilityError still Is ErrUnsupported).          *)
(***************************************************************************)
EXTENDS Sequences

Protocols == {"openai", "anthropic", "gemini"}
Marks == {"request", "unsupported", "response"}

Fallible(name, marks) == [name |-> name, marks |-> marks]

(* An error without a mark: transport failures and the like.               *)
Unmarked == {}

\* Before the call.
Decode == Fallible("decode", {"request"})
Resolve == Fallible("resolve", {"request"})
Compat == Fallible("compat", {"unsupported"})
Encode == Fallible("encode", {"request"})
Path == Fallible("path", {"request"})

\* After the upstream succeeded.
DecodeReply == Fallible("decodeReply", {"response"})
CompatReply == Fallible("compatReply", {"response", "unsupported"})
PersistReply == Fallible("persist", {"response"})
EncodeReply == Fallible("encodeReply", {"response"})
Prime == Fallible("prime", {"response", "unsupported"})

BeforeSteps == {Decode, Resolve, Compat, Encode, Path}
AfterSteps == {DecodeReply, CompatReply, PersistReply, EncodeReply, Prime}

(* Client.Do reads the whole reply, Client.Stream only its headers; queue  *)
(* starts a background job instead of a call.                              *)
Calls == {"do", "stream", "queue"}

Translator(before, call, after) ==
  [before |-> before, call |-> call, after |-> after]

Reply == <<DecodeReply, CompatReply, EncodeReply>>
StoredReply == <<DecodeReply, CompatReply, PersistReply, EncodeReply>>

-----------------------------------------------------------------------------

OpenAIChatToAnthropic ==
  Translator(<<Decode, Compat, Encode>>, "do", Reply)

OpenAIChatToAnthropicStream ==
  Translator(<<Decode, Compat, Encode>>, "stream", <<Prime>>)

OpenAIResponsesToAnthropic(background) ==
  IF background
  THEN Translator(<<Decode, Resolve, Compat, Encode>>, "queue", <<>>)
  ELSE Translator(<<Decode, Resolve, Compat, Encode>>, "do", StoredReply)

OpenAIResponsesToAnthropicStream ==
  Translator(<<Decode, Resolve, Compat, Encode>>, "stream", <<Prime>>)

OpenAIChatToGemini ==
  Translator(<<Decode, Compat, Encode, Path>>, "do", Reply)

OpenAIChatToGeminiStream ==
  Translator(<<Decode, Compat, Encode, Path>>, "stream", <<Prime>>)

OpenAIResponsesToGemini(background) ==
  IF background
  THEN Translator(<<Decode, Resolve, Compat, Encode, Path>>, "queue", <<>>)
  ELSE Translator(<<Decode, Resolve, Compat, Encode, Path>>, "do", StoredReply)

OpenAIResponsesToGeminiStream ==
  Translator(<<Decode, Resolve, Compat, Encode, Path>>, "stream", <<Prime>>)

AnthropicMessagesToOpenAI ==
  Translator(<<Decode, Compat, Encode>>, "do", Reply)

AnthropicMessagesToOpenAIStream ==
  Translator(<<Decode, Compat, Encode>>, "stream", <<Prime>>)

AnthropicMessagesToGemini ==
  Translator(<<Decode, Compat, Encode, Path>>, "do", Reply)

AnthropicMessagesToGeminiStream ==
  Translator(<<Decode, Compat, Encode, Path>>, "stream", <<Prime>>)

GeminiGenerateContentToOpenAI ==
  Translator(<<Decode, Compat, Encode>>, "do", Reply)

GeminiStreamGenerateContentToOpenAI ==
  Translator(<<Decode, Compat, Encode>>, "stream", <<Prime>>)

GeminiGenerateContentToAnthropic ==
  Translator(<<Decode, Compat, Encode>>, "do", Reply)

GeminiStreamGenerateContentToAnthropic ==
  Translator(<<Decode, Compat, Encode>>, "stream", <<Prime>>)

-----------------------------------------------------------------------------

(* Which function the handlers call for an operation and a target.         *)
ChatTranslator(protocol, stream) ==
  CASE protocol = "anthropic" /\ ~stream -> OpenAIChatToAnthropic
    [] protocol = "anthropic" /\ stream -> OpenAIChatToAnthropicStream
    [] protocol # "anthropic" /\ ~stream -> OpenAIChatToGemini
    [] OTHER -> OpenAIChatToGeminiStream

(* A background request that also asks for a stream is refused by Decode;  *)
(* the choice between the functions is made on stream alone.               *)
ResponsesTranslator(protocol, stream, background) ==
  CASE protocol = "anthropic" /\ ~stream -> OpenAIResponsesToAnthropic(background)
    [] protocol = "anthropic" /\ stream -> OpenAIResponsesToAnthropicStream
    [] protocol # "anthropic" /\ ~stream -> OpenAIResponsesToGemini(background)
    [] OTHER -> OpenAIResponsesToGeminiStream

MessagesTranslator(protocol, stream) ==
  CASE protocol = "openai" /\ ~stream -> AnthropicMessagesToOpenAI
    [] protocol = "openai" /\ stream -> AnthropicMessagesToOpenAIStream
    [] protocol # "openai" /\ ~stream -> AnthropicMessagesToGemini
    [] OTHER -> AnthropicMessagesToGeminiStream

GenerateTranslator(protocol, stream) ==
  CASE protocol = "openai" /\ ~stream -> GeminiGenerateContentToOpenAI
    [] protocol = "openai" /\ stream -> GeminiStreamGenerateContentToOpenAI
    [] protocol # "openai" /\ ~stream -> GeminiGenerateContentToAnthropic
    [] OTHER -> GeminiStreamGenerateContentToAnthropic
=============================================================================
