--------------------------- MODULE AttemptsProofs ---------------------------
(***************************************************************************)
(* The safety properties of Attempts for any requests, plans and lengths   *)
(* of a body.                                                              *)
(***************************************************************************)
EXTENDS Attempts, SequenceTheorems, TLAPS

(* Before an attempt has a reply it keeps, nothing of it remains.          *)
Early == {"begin", "try", "native", "proxied", "before", "call", "read"}

Unended == \A n \in 1 .. Len(out) : out[n].what \notin {"end", "abort"}

(* What TypeOK and the properties need to be inductive: how far the        *)
(* handler is decides what it may have said, kept and left open.           *)
Control ==
  /\ pc = "begin" => i = 1
  /\ pc \notin {"begin", "try", "done"} => i <= Len(plan)
  /\ pc \in Early \cup {"after", "write"} => out = <<>>
  /\ pc \in Early \cup {"relay"} => kept = {} /\ worker = "off"
  /\ pc \in Early \ {"read"} => open = {}
  /\ pc = "after" => reply = "ok" /\ i \in generated
  /\ pc \in {"read", "write"} => reply # "none"
  /\ pc = "write" /\ reply = "ok" => i \in generated \cup kept
  /\ pc = "write" /\ reply # "ok" => kept = {} /\ worker = "off"
  /\ pc \in {"relay", "copy"} => out # <<>> /\ out[1].by = i /\ Unended
  /\ pc = "copy" => out[1].what = "answer"
  /\ open \subseteq {i}
  /\ kept \subseteq {i}

IInv == TypeOK /\ Control /\ OneVoice /\ VerdictJustified

Word == [by : 1 .. Gateway, what : Heads \cup Tails]

-----------------------------------------------------------------------------
(* The translators.                                                        *)

Shaped(t) ==
  /\ t.before \in Seq(BeforeSteps)
  /\ t.call \in Calls
  /\ t.after \in Seq(AfterSteps)

LEMMA ShapedTranslators ==
  ASSUME NEW b \in Seq(BeforeSteps), NEW c \in Calls, NEW a \in Seq(AfterSteps)
  PROVE  Shaped(Translator(b, c, a))
  BY DEF Shaped, Translator

(* Every translator fails only in known ways before and after its call.    *)
LEMMA CurrentShaped == Shaped(Current)
  <1> USE DEF BeforeSteps, AfterSteps, Calls
  <1>1. /\ <<Decode, Compat, Encode>> \in Seq(BeforeSteps)
        /\ <<Decode, Resolve, Compat, Encode>> \in Seq(BeforeSteps)
        /\ <<Decode, Compat, Encode, Path>> \in Seq(BeforeSteps)
        /\ <<Decode, Resolve, Compat, Encode, Path>> \in Seq(BeforeSteps)
    OBVIOUS
  <1>2. /\ Reply \in Seq(AfterSteps)
        /\ StoredReply \in Seq(AfterSteps)
        /\ <<Prime>> \in Seq(AfterSteps)
        /\ <<>> \in Seq(AfterSteps)
    BY DEF Reply, StoredReply
  <1> HIDE DEF BeforeSteps, AfterSteps
  <1>3. /\ Shaped(OpenAIChatToAnthropic) /\ Shaped(OpenAIChatToAnthropicStream)
        /\ Shaped(OpenAIChatToGemini) /\ Shaped(OpenAIChatToGeminiStream)
    BY <1>1, <1>2, ShapedTranslators DEF OpenAIChatToAnthropic,
       OpenAIChatToAnthropicStream, OpenAIChatToGemini, OpenAIChatToGeminiStream
  <1>4. /\ \A background : Shaped(OpenAIResponsesToAnthropic(background))
        /\ Shaped(OpenAIResponsesToAnthropicStream)
        /\ \A background : Shaped(OpenAIResponsesToGemini(background))
        /\ Shaped(OpenAIResponsesToGeminiStream)
    BY <1>1, <1>2, ShapedTranslators DEF OpenAIResponsesToAnthropic,
       OpenAIResponsesToAnthropicStream, OpenAIResponsesToGemini,
       OpenAIResponsesToGeminiStream
  <1>5. /\ Shaped(AnthropicMessagesToOpenAI) /\ Shaped(AnthropicMessagesToOpenAIStream)
        /\ Shaped(AnthropicMessagesToGemini) /\ Shaped(AnthropicMessagesToGeminiStream)
    BY <1>1, <1>2, ShapedTranslators DEF AnthropicMessagesToOpenAI,
       AnthropicMessagesToOpenAIStream, AnthropicMessagesToGemini,
       AnthropicMessagesToGeminiStream
  <1>6. /\ Shaped(GeminiGenerateContentToOpenAI)
        /\ Shaped(GeminiStreamGenerateContentToOpenAI)
        /\ Shaped(GeminiGenerateContentToAnthropic)
        /\ Shaped(GeminiStreamGenerateContentToAnthropic)
    BY <1>1, <1>2, ShapedTranslators DEF GeminiGenerateContentToOpenAI,
       GeminiStreamGenerateContentToOpenAI, GeminiGenerateContentToAnthropic,
       GeminiStreamGenerateContentToAnthropic
  <1>7. \A protocol, stream : Shaped(ChatTranslator(protocol, stream))
    BY <1>3 DEF ChatTranslator
  <1>8. \A protocol, stream, background :
          Shaped(ResponsesTranslator(protocol, stream, background))
    BY <1>4 DEF ResponsesTranslator
  <1>9. \A protocol, stream : Shaped(MessagesTranslator(protocol, stream))
    BY <1>5 DEF MessagesTranslator
  <1>10. \A protocol, stream : Shaped(GenerateTranslator(protocol, stream))
    BY <1>6 DEF GenerateTranslator
  <1> QED
    BY <1>7, <1>8, <1>9, <1>10 DEF Current

LEMMA StepMarks ==
  /\ \A s \in BeforeSteps : "response" \notin s.marks
  /\ \A s \in AfterSteps : "response" \in s.marks
  BY DEF BeforeSteps, AfterSteps, Decode, Resolve, Compat, Encode, Path,
     DecodeReply, CompatReply, PersistReply, EncodeReply, Prime, Fallible

LEMMA PrepareMarks ==
  ASSUME k \in 1 .. Len(Current.before)
  PROVE  "response" \notin Current.before[k].marks
  <1>1. Current.before[k] \in BeforeSteps
    BY CurrentShaped DEF Shaped
  <1> QED
    BY <1>1, StepMarks

LEMMA UnderstandMarks ==
  ASSUME k \in 1 .. Len(Current.after)
  PROVE  "response" \in Current.after[k].marks
  <1>1. Current.after[k] \in AfterSteps
    BY CurrentShaped DEF Shaped
  <1> QED
    BY <1>1, StepMarks

(* What an error without the mark of a reply can lead to.                  *)
LEMMA RequestErrors ==
  ASSUME NEW marks, HandleError(marks), "response" \notin marks
  PROVE  \/ PassOver
         \/ Refuse(i, "badRequest")
         \/ ~allowFallback /\ Refuse(i, "unsupported")
  BY DEF HandleError

LEMMA ReplyErrors ==
  ASSUME NEW marks, HandleError(marks), "response" \in marks
  PROVE  Refuse(i, "translation")
  BY DEF HandleError

-----------------------------------------------------------------------------
(* The ways a step can end.                                                *)

LEMMA NonEmptyPlans ==
  ASSUME TypeOK
  PROVE  /\ plan \in Seq(Target) /\ Len(plan) \in Nat \ {0}
         /\ Gateway \in Nat /\ Gateway = Len(plan) + 1
  BY PlansAssumption, EmptySeq, LenProperties DEF TypeOK, Gateway

(* As long as nothing is said there is nothing to justify.                 *)
LEMMA Silence ==
  ASSUME out = <<>>
  PROVE  OneVoice /\ VerdictJustified
  BY DEF OneVoice, VerdictJustified

(* The attempt is given up.                                                *)
LEMMA Passed ==
  ASSUME TypeOK, Control, PassOver, out = <<>>, i <= Len(plan),
         kept' = {}, worker' = "off", open' = {},
         generated' \subseteq 1 .. Len(plan), UNCHANGED <<fixed, reply>>
  PROVE  IInv'
  <1> USE DEF PassOver, fixed
  <1>1. TypeOK'
    BY NonEmptyPlans DEF TypeOK, Handler, Gateway
  <1>2. Control'
    BY DEF Control, Early, Unended, TypeOK
  <1> QED
    BY <1>1, <1>2, Silence DEF IInv, OneVoice, VerdictJustified

(* One word is the whole response.                                         *)
LEMMA Refused ==
  ASSUME NEW author \in 1 .. Gateway, NEW what \in Heads,
         TypeOK, Refuse(author, what), out = <<>>,
         kept' \subseteq {i}, open' \subseteq {i}, open' \subseteq 1 .. Len(plan),
         kept' \subseteq 1 .. Len(plan), worker' = worker,
         generated' \subseteq 1 .. Len(plan), UNCHANGED <<fixed, reply>>,
         what = "exhausted" => i = Gateway,
         what \in {"unsupported", "retryable"} => author = Len(plan),
         what = "answer" => author \in generated' \cup kept',
         what = "translation" => author \in generated',
         kept' # {} => author = i /\ what \in {"answer", "translation"}
  PROVE  IInv'
  <1> DEFINE word == [by |-> author, what |-> what]
  <1> USE DEF Refuse, Say, fixed
  <1>1. /\ word \in Word /\ out' = Append(<<>>, word)
    BY DEF Word
  <1>2. out' = <<word>> /\ Len(out') = 1 /\ out'[1] = word /\ out' \in Seq(Word)
    BY <1>1
  <1>3. Gateway' = Gateway
    BY DEF Gateway
  <1>4. TypeOK'
    BY <1>2, <1>3 DEF TypeOK, Handler, Word
  <1>5. Control'
    BY DEF Control, Early
  <1>6. OneVoice'
    <2>1. "end" \notin Heads /\ "abort" \notin Heads
      BY DEF Heads
    <2> QED
      BY <1>2, <2>1 DEF OneVoice
  <1>7. VerdictJustified'
    <2>1. /\ i' = i /\ plan' = plan
          /\ out'[1].by = author /\ out'[1].what = what
      BY <1>2
    <2>2. what = "exhausted" => kept' = {}
      OBVIOUS
    <2>3. kept' # {} => kept' = {author}
      OBVIOUS
    <2> HIDE DEF word, Refuse, Say
    <2> QED
      BY <2>1, <2>2, <2>3, <1>3 DEF VerdictJustified
  <1> QED
    BY <1>4, <1>5, <1>6, <1>7 DEF IInv

(* The first word of a response that goes on.                              *)
LEMMA Started ==
  ASSUME NEW what \in {"answer", "retryable", "error"},
         IInv, out = <<>>, Say(i, what), i <= Len(plan),
         pc' \in {"relay", "copy"}, pc' = "copy" => what = "answer",
         pc' = "relay" => worker' = "off" /\ kept' = {},
         kept' \subseteq {i}, open' \subseteq {i}, open' \subseteq 1 .. Len(plan),
         kept' \subseteq 1 .. Len(plan), worker' = worker,
         generated' \subseteq 1 .. Len(plan), UNCHANGED <<fixed, reply, i, k>>,
         what = "retryable" => i = Len(plan),
         what = "answer" => i \in generated' \cup kept',
         kept' # {} => what = "answer"
  PROVE  IInv'
  <1> DEFINE word == [by |-> i, what |-> what]
  <1> USE DEF fixed
  <1>1. /\ i \in 1 .. Gateway /\ i \in 1 .. Len(plan)
        /\ TypeOK
    BY NonEmptyPlans DEF IInv, TypeOK
  <1>2. what \in Heads /\ what \notin {"end", "abort"}
        /\ "end" \notin Heads /\ "abort" \notin Heads
        /\ what \notin {"exhausted", "unsupported", "translation"}
    BY DEF Heads
  <1>3. word \in Word /\ out' = Append(<<>>, word)
    BY <1>1, <1>2 DEF Word, Say
  <1>4. out' = <<word>> /\ Len(out') = 1 /\ out'[1] = word /\ out' \in Seq(Word)
    BY <1>3
  <1>5. Gateway' = Gateway
    BY DEF Gateway
  <1>6. TypeOK'
    BY <1>1, <1>4, <1>5 DEF TypeOK, Handler, Word
  <1>7. Unended'
    BY <1>2, <1>4 DEF Unended
  <1>8. Control'
    BY <1>4, <1>7 DEF Control, Early
  <1>9. OneVoice'
    BY <1>2, <1>4 DEF OneVoice
  <1>10. VerdictJustified'
    <2>1. /\ i' = i /\ plan' = plan
          /\ out'[1].by = i /\ out'[1].what = what
      BY <1>4
    <2>2. kept' # {} => kept' = {i}
      OBVIOUS
    <2> HIDE DEF word
    <2> QED
      BY <2>1, <2>2, <1>2, <1>5 DEF VerdictJustified
  <1> QED
    BY <1>6, <1>8, <1>9, <1>10 DEF IInv

(* The attempt that speaks goes on speaking.                               *)
LEMMA Continued ==
  ASSUME NEW what \in Tails,
         IInv, pc \in {"relay", "copy"}, Say(i, what),
         \/ pc' = pc /\ what = "piece"
         \/ pc' = "done",
         open' \subseteq open,
         UNCHANGED <<fixed, i, k, reply, worker, generated, kept>>
  PROVE  IInv'
  <1> DEFINE word == [by |-> i, what |-> what]
  <1> USE DEF fixed
  <1>1. /\ TypeOK /\ Control /\ OneVoice /\ VerdictJustified
        /\ i \in 1 .. Gateway
    BY DEF IInv, TypeOK, Gateway
  <1>2. what \notin Heads /\ word \in Word
    BY <1>1 DEF Heads, Tails, Word
  <1>3. /\ out \in Seq(Word) /\ Len(out) \in Nat \ {0}
        /\ out[1].by = i /\ Unended
    BY <1>1, EmptySeq, LenProperties DEF TypeOK, Control, Word
  <1>4. /\ out' \in Seq(Word)
        /\ Len(out') = Len(out) + 1
        /\ \A n \in 1 .. Len(out) : out'[n] = out[n]
        /\ out'[Len(out) + 1] = word
    BY <1>2, <1>3, AppendProperties DEF Say
  <1>5. out'[1] = out[1]
    BY <1>3, <1>4
  <1>6. Gateway' = Gateway
    BY DEF Gateway
  <1>7. TypeOK'
    BY <1>1, <1>4, <1>6 DEF TypeOK, Handler, Word
  <1>8. pc' = pc => Unended'
    <2> SUFFICES ASSUME pc' = pc, NEW n \in 1 .. Len(out')
                 PROVE  out'[n].what \notin {"end", "abort"}
      BY DEF Unended
    <2>1. CASE n \in 1 .. Len(out)
      BY <2>1, <1>3, <1>4 DEF Unended
    <2>2. CASE n = Len(out) + 1
      <3>1. what = "piece"
        BY <1>1 DEF IInv
      <3> QED
        BY <2>2, <3>1, <1>4
    <2> QED
      BY <2>1, <2>2, <1>3, <1>4
  <1>9. Control'
    BY <1>1, <1>3, <1>4, <1>5, <1>8 DEF Control, Early
  <1>10. OneVoice'
    <2> SUFFICES ASSUME NEW n \in 1 .. Len(out')
                 PROVE  /\ out'[n].by = out'[1].by
                        /\ out'[n].what \in Heads <=> n = 1
                        /\ out'[n].what \in {"end", "abort"} => n = Len(out')
      BY DEF OneVoice
    <2>1. CASE n \in 1 .. Len(out)
      BY <2>1, <1>1, <1>3, <1>4, <1>5 DEF OneVoice, Unended
    <2>2. CASE n = Len(out) + 1
      BY <2>2, <1>2, <1>3, <1>4, <1>5
    <2> QED
      BY <2>1, <2>2, <1>3, <1>4
  <1>11. VerdictJustified'
    <2>1. i' = i /\ plan' = plan /\ kept' = kept /\ generated' = generated
      OBVIOUS
    <2>2. out # <<>>
      BY <1>3
    <2> QED
      BY <2>1, <2>2, <1>1, <1>5, <1>6 DEF VerdictJustified
  <1> QED
    BY <1>7, <1>9, <1>10, <1>11 DEF IInv

(* A step of the handler that says nothing yet.                            *)
LEMMA Silent ==
  ASSUME TypeOK', Control', out' = <<>>
  PROVE  IInv'
  BY DEF IInv, OneVoice, VerdictJustified

-----------------------------------------------------------------------------
(* Every step keeps the invariant.                                         *)

LEMMA InitIInv == Init => IInv
  <1> SUFFICES ASSUME Init PROVE IInv
    OBVIOUS
  <1>1. plan \in Seq(Target) /\ Len(plan) \in Nat \ {0}
    BY PlansAssumption, EmptySeq, LenProperties DEF Init
  <1>2. TypeOK
    BY <1>1 DEF Init, TypeOK, Handler, Gateway
  <1>3. Control
    BY <1>1 DEF Init, Control
  <1> QED
    BY <1>2, <1>3, Silence DEF Init, IInv

(* Who passes over, is refused, or goes on without a word in an early      *)
(* state.                                                                  *)
LEMMA EarlyState ==
  ASSUME IInv, pc \in Early
  PROVE  /\ TypeOK /\ Control
         /\ out = <<>> /\ kept = {} /\ worker = "off" /\ open \ {i} = {}
         /\ pc # "read" => open = {}
         /\ pc \notin {"begin", "try"} => i <= Len(plan)
         /\ i \in 1 .. Gateway
  BY DEF IInv, Control, TypeOK, Early, Gateway

LEMMA EarlyError ==
  ASSUME NEW marks, IInv, pc \in Early, i <= Len(plan), HandleError(marks),
         "response" \notin marks, worker' = worker, kept' = kept, open' = open \ {i},
         generated' \subseteq 1 .. Len(plan), UNCHANGED <<fixed, reply>>
  PROVE  IInv'
  <1>1. /\ TypeOK /\ Control /\ out = <<>> /\ kept = {} /\ worker = "off"
        /\ open \ {i} = {} /\ i \in 1 .. Gateway
    BY EarlyState
  <1>2. CASE PassOver
    BY <1>1, <1>2, Passed
  <1>3. CASE Refuse(i, "badRequest")
    BY <1>1, <1>3, Refused DEF Heads
  <1>4. CASE ~allowFallback /\ Refuse(i, "unsupported")
    <2>1. i = Len(plan)
      BY <1>1, <1>4, NonEmptyPlans DEF allowFallback
    <2> QED
      BY <2>1, <1>1, <1>4, Refused DEF Heads
  <1> QED
    BY <1>2, <1>3, <1>4, RequestErrors

LEMMA LoopSteps ==
  ASSUME IInv,
         \/ Begin \/ BodyUnreadable \/ TryNative \/ RewriteFails \/ Untranslatable
         \/ StreamFlagMalformed \/ TryTranslated \/ Exhausted
  PROVE  IInv'
  <1>1. pc \in {"begin", "try"} /\ pc \in Early
    BY DEF Begin, BodyUnreadable, TryNative, RewriteFails, Untranslatable,
       StreamFlagMalformed, TryTranslated, Exhausted, Early
  <1>2. /\ TypeOK /\ Control /\ out = <<>> /\ kept = {} /\ worker = "off"
        /\ open = {} /\ i \in 1 .. Gateway
    BY <1>1, EarlyState
  <1>3. /\ Len(plan) \in Nat \ {0} /\ Gateway = Len(plan) + 1
        /\ generated \subseteq 1 .. Len(plan)
    BY <1>2, NonEmptyPlans DEF TypeOK
  <1>4. Begin => IInv'
    <2> SUFFICES ASSUME Begin PROVE IInv'
      OBVIOUS
    <2>1. pc' \in {"native", "try"} /\ i' = 1 /\ i = 1 /\ out' = <<>>
      BY <1>2 DEF Begin, Control
    <2>2. TypeOK'
      BY <2>1, <1>2 DEF Begin, fixed, TypeOK, Handler, Gateway
    <2>3. Control'
      BY <2>1, <1>2, <1>3 DEF Begin, fixed, Control, Early
    <2> QED
      BY <2>1, <2>2, <2>3, Silent
  <1>5. BodyUnreadable => IInv'
    <2> SUFFICES ASSUME BodyUnreadable PROVE IInv'
      OBVIOUS
    <2>1. /\ Refuse(Gateway, "badRequest") /\ UNCHANGED <<fixed, reply>>
          /\ worker' = worker /\ kept' = {} /\ open' = {} /\ generated' = generated
      BY <1>2 DEF BodyUnreadable
    <2>2. Gateway \in 1 .. Gateway /\ "badRequest" \in Heads
      BY <1>3 DEF Heads
    <2> QED
      BY <2>1, <2>2, <1>2, <1>3, Refused
  <1>6. TryNative \/ TryTranslated => IInv'
    <2> SUFFICES ASSUME TryNative \/ TryTranslated PROVE IInv'
      OBVIOUS
    <2>1. TypeOK'
      <3>1. pc' \in Handler /\ k' \in Nat \ {0}
        BY <1>2 DEF TryNative, TryTranslated, Handler, TypeOK
      <3> QED
        BY <3>1, <1>2 DEF TryNative, TryTranslated, fixed, TypeOK, Gateway
    <2>2. Control' /\ out' = <<>>
      BY <1>2, <1>3 DEF TryNative, TryTranslated, fixed, Control, Early
    <2> QED
      BY <2>1, <2>2, Silent
  <1>7. RewriteFails \/ StreamFlagMalformed => IInv'
    BY <1>2, <1>3, Refused DEF RewriteFails, StreamFlagMalformed, Heads
  <1>8. Untranslatable => IInv'
    BY <1>1, <1>2, <1>3, EarlyError DEF Untranslatable
  <1>9. Exhausted => IInv'
    <2> SUFFICES ASSUME Exhausted PROVE IInv'
      OBVIOUS
    <2>1. i = Gateway
      BY <1>2, <1>3 DEF Exhausted
    <2> QED
      BY <2>1, <1>2, <1>3, Refused DEF Exhausted, Heads
  <1> QED
    BY <1>4, <1>5, <1>6, <1>7, <1>8, <1>9

LEMMA NativeSteps ==
  ASSUME IInv,
         \/ Unreachable \/ Forward \/ ProxyBreaks \/ ProxyRetryable
         \/ RelayPiece \/ RelayEnds \/ RelayBreaks
         \/ \E status \in Statuses : ProxyAnswered(status)
  PROVE  IInv'
  <1>1. TypeOK /\ Control
    BY DEF IInv
  <1>2. Unreachable \/ ProxyBreaks \/ ProxyRetryable => IInv'
    <2> SUFFICES ASSUME Unreachable \/ ProxyBreaks \/ ProxyRetryable PROVE IInv'
      OBVIOUS
    <2>1. pc \in {"native", "proxied"} /\ pc \in Early
      BY DEF Unreachable, ProxyBreaks, ProxyRetryable, Early
    <2> QED
      BY <2>1, <1>1, EarlyState, Passed
         DEF Unreachable, ProxyBreaks, ProxyRetryable, TypeOK
  <1>3. Forward => IInv'
    <2> SUFFICES ASSUME Forward PROVE IInv'
      OBVIOUS
    <2>1. TypeOK'
      BY <1>1 DEF Forward, fixed, TypeOK, Handler, Gateway
    <2>2. Control' /\ out' = <<>>
      BY <1>1 DEF Forward, fixed, Control, Early
    <2> QED
      BY <2>1, <2>2, Silent
  <1>4. ASSUME NEW status \in Statuses, ProxyAnswered(status)
        PROVE  IInv'
    <2>1. pc = "proxied" /\ pc \in Early
      BY <1>4 DEF ProxyAnswered, Early
    <2>2. /\ out = <<>> /\ kept = {} /\ worker = "off" /\ open = {}
          /\ i \in 1 .. Gateway /\ i <= Len(plan)
      BY <2>1, EarlyState
    <2>3. Len(plan) \in Nat /\ i \in 1 .. Len(plan)
      BY <2>2, <1>1, NonEmptyPlans
    <2> DEFINE said == IF status = "ok" THEN "answer" ELSE status
    <2>4. /\ said \in {"answer", "retryable", "error"}
          /\ said = "answer" => i \in generated'
          /\ generated' \subseteq 1 .. Len(plan)
      BY <1>1, <1>4, <2>3 DEF ProxyAnswered, Statuses, Generated, TypeOK
    <2>5. said = "retryable" => i = Len(plan)
      BY <1>4, <2>3 DEF ProxyAnswered, allowFallback, Statuses
    <2>6. /\ Say(i, said) /\ pc' = "relay" /\ kept' = {} /\ worker' = "off"
          /\ worker' = worker
          /\ open' = {i} /\ UNCHANGED <<fixed, reply, i, k>>
      BY <1>4, <2>2 DEF ProxyAnswered
    <2> HIDE DEF said
    <2> QED
      BY <2>2, <2>3, <2>4, <2>5, <2>6, Started
  <1>5. RelayPiece \/ RelayEnds \/ RelayBreaks => IInv'
    BY Continued DEF RelayPiece, RelayEnds, RelayBreaks, Refuse, Tails
  <1> QED
    BY <1>2, <1>3, <1>4, <1>5

LEMMA CallSteps ==
  ASSUME IInv,
         \/ Prepare \/ PrepareFails \/ StartJob \/ CallRefused \/ CallUpstream
         \/ CallBreaks \/ ReadBody \/ ReadBreaks \/ TooLarge
         \/ \E status \in Statuses : CallAnswered(status)
  PROVE  IInv'
  <1>1. pc \in {"before", "call", "read"} /\ pc \in Early
    BY DEF Prepare, PrepareFails, StartJob, CallRefused, CallUpstream, CallBreaks,
       ReadBody, ReadBreaks, TooLarge, CallAnswered, Early
  <1>2. /\ TypeOK /\ Control /\ out = <<>> /\ kept = {} /\ worker = "off"
        /\ open \ {i} = {} /\ i \in 1 .. Gateway /\ i <= Len(plan)
        /\ pc # "read" => open = {}
    BY <1>1, EarlyState
  <1>3. /\ Len(plan) \in Nat /\ Gateway = Len(plan) + 1 /\ i \in 1 .. Len(plan)
        /\ generated \subseteq 1 .. Len(plan) /\ k \in Nat \ {0}
        /\ open \subseteq 1 .. Len(plan)
    BY <1>2, NonEmptyPlans DEF TypeOK
  <1>4. Prepare \/ CallUpstream => IInv'
    <2> SUFFICES ASSUME Prepare \/ CallUpstream PROVE IInv'
      OBVIOUS
    <2>1. TypeOK'
      <3>1. pc' \in Handler /\ k' \in Nat \ {0}
        BY <1>2, <1>3 DEF Prepare, CallUpstream, Handler, TypeOK
      <3> QED
        BY <3>1, <1>2 DEF Prepare, CallUpstream, fixed, TypeOK, Gateway
    <2>2. Control' /\ out' = <<>>
      BY <1>2 DEF Prepare, CallUpstream, fixed, Control, Early
    <2> QED
      BY <2>1, <2>2, Silent
  <1>5. PrepareFails => IInv'
    <2> SUFFICES ASSUME PrepareFails PROVE IInv'
      OBVIOUS
    <2>1. k \in 1 .. Len(Current.before)
      BY <1>3, CurrentShaped DEF PrepareFails, Shaped
    <2>2. "response" \notin Current.before[k].marks
      BY <2>1, PrepareMarks
    <2> QED
      BY <2>2, <1>1, <1>2, <1>3, EarlyError DEF PrepareFails
  <1>6. StartJob => IInv'
    <2> SUFFICES ASSUME StartJob PROVE IInv'
      OBVIOUS
    <2>1. TypeOK'
      BY <1>2, <1>3 DEF StartJob, fixed, TypeOK, Handler, Gateway, Statuses
    <2>2. Control' /\ out' = <<>>
      BY <1>2 DEF StartJob, fixed, Control, Early
    <2> QED
      BY <2>1, <2>2, Silent
  <1>7. CallRefused \/ CallBreaks => IInv'
    BY <1>1, <1>2, <1>3, EarlyError DEF CallRefused, CallBreaks, Unmarked
  <1>8. ReadBreaks \/ TooLarge => IInv'
    BY <1>1, <1>2, <1>3, EarlyError DEF ReadBreaks, TooLarge, Unmarked, Generated
  <1>9. ReadBody => IInv'
    <2> SUFFICES ASSUME ReadBody PROVE IInv'
      OBVIOUS
    <2>1. TypeOK'
      <3>1. pc' \in Handler
        BY DEF ReadBody, Handler
      <3>2. k' \in Nat \ {0}
        BY DEF ReadBody
      <3>3. open' \subseteq 1 .. Len(plan)
        BY <1>3 DEF ReadBody
      <3>4. generated' \subseteq 1 .. Len(plan)
        BY <1>3 DEF ReadBody, Generated
      <3> QED
        BY <3>1, <3>2, <3>3, <3>4, <1>2 DEF ReadBody, fixed, TypeOK, Gateway
    <2>2. reply # "none"
      BY <1>2 DEF ReadBody, Control
    <2>3. Control' /\ out' = <<>>
      BY <2>2, <1>2 DEF ReadBody, fixed, Control, Early, Generated
    <2> QED
      BY <2>1, <2>3, Silent
  <1>10. ASSUME NEW status \in Statuses, CallAnswered(status)
         PROVE  IInv'
    <2>1. TypeOK'
      <3>1. pc' \in Handler
        BY <1>10 DEF CallAnswered, Handler
      <3>2. k' \in Nat \ {0}
        BY <1>3, <1>10 DEF CallAnswered
      <3>3. open' \subseteq 1 .. Len(plan)
        BY <1>3, <1>10 DEF CallAnswered
      <3>4. generated' \subseteq 1 .. Len(plan)
        BY <1>3, <1>10 DEF CallAnswered, Generated
      <3>5. /\ reply' \in Statuses \cup {"none"}
            /\ worker' \in {"off", "running", "failed", "finished"}
        BY <1>2, <1>10 DEF CallAnswered
      <3> QED
        BY <3>1, <3>2, <3>3, <3>4, <3>5, <1>2, <1>10
           DEF CallAnswered, fixed, TypeOK, Gateway
    <2>2. Control' /\ out' = <<>>
      BY <1>2, <1>10 DEF CallAnswered, fixed, Control, Early, Generated, Statuses
    <2> QED
      BY <2>1, <2>2, Silent
  <1> QED
    BY <1>4, <1>5, <1>6, <1>7, <1>8, <1>9, <1>10

(* The state in which a reply is translated or written.                    *)
LEMMA ReplyState ==
  ASSUME IInv, pc \in {"after", "write"}
  PROVE  /\ TypeOK /\ Control /\ out = <<>>
         /\ Len(plan) \in Nat /\ i \in 1 .. Len(plan) /\ i \in 1 .. Gateway
         /\ open \subseteq {i} /\ open \ {i} = {} /\ open \subseteq 1 .. Len(plan)
         /\ kept \subseteq {i} /\ kept \subseteq 1 .. Len(plan)
         /\ generated \subseteq 1 .. Len(plan) /\ k \in Nat \ {0}
  BY NonEmptyPlans DEF IInv, Control, TypeOK

LEMMA ReplySteps ==
  ASSUME IInv, Understand \/ UnderstandFails \/ Understood \/ Primed \/ PrimeFails
  PROVE  IInv'
  <1>1. pc = "after"
    BY DEF Understand, UnderstandFails, Understood, Primed, PrimeFails
  <1>2. /\ TypeOK /\ Control /\ out = <<>> /\ i \in generated
        /\ Len(plan) \in Nat /\ i \in 1 .. Len(plan) /\ i \in 1 .. Gateway
        /\ open \subseteq {i} /\ open \subseteq 1 .. Len(plan)
        /\ kept \subseteq {i} /\ kept \subseteq 1 .. Len(plan)
        /\ generated \subseteq 1 .. Len(plan) /\ k \in Nat \ {0}
    BY <1>1, ReplyState DEF Control
  <1>3. Understand \/ Understood \/ Primed => IInv'
    <2> SUFFICES ASSUME Understand \/ Understood \/ Primed PROVE IInv'
      OBVIOUS
    <2>1. /\ pc' \in {"after", "write"} /\ k' \in Nat \ {0}
          /\ kept' \subseteq {i} /\ kept' \subseteq 1 .. Len(plan)
          /\ UNCHANGED <<fixed, i, reply, worker, open, out, generated>>
      <3>1. CASE Understand
        <4>1. kept' \subseteq kept \cup {i}
          BY <3>1 DEF Understand
        <4>2. pc' = pc /\ k' = k + 1
          BY <3>1 DEF Understand
        <4> QED
          BY <3>1, <4>1, <4>2, <1>1, <1>2 DEF Understand
      <3>2. CASE Understood \/ Primed
        BY <3>2, <1>1, <1>2 DEF Understood, Primed
      <3> QED
        BY <3>1, <3>2
    <2>2. TypeOK'
      BY <2>1, <1>2 DEF fixed, TypeOK, Handler, Gateway
    <2>3. Control' /\ out' = <<>>
      BY <2>1, <1>1, <1>2 DEF fixed, Control, Early
    <2> QED
      BY <2>2, <2>3, Silent
  <1>4. ASSUME NEW marks, HandleError(marks), "response" \in marks,
               kept' \subseteq {i}, kept' \subseteq 1 .. Len(plan),
               UNCHANGED <<fixed, reply, worker, open, generated>>
        PROVE  IInv'
    <2>1. Refuse(i, "translation")
      BY <1>4, ReplyErrors
    <2>2. "translation" \in Heads
      BY DEF Heads
    <2>3. kept' # {} => i = i /\ "translation" \in {"answer", "translation"}
      OBVIOUS
    <2> QED
      BY <2>1, <2>2, <2>3, <1>2, <1>4, Refused
  <1>5. UnderstandFails => IInv'
    <2> SUFFICES ASSUME UnderstandFails PROVE IInv'
      OBVIOUS
    <2>1. k \in 1 .. Len(Current.after)
      BY <1>2, CurrentShaped DEF UnderstandFails, Shaped
    <2>2. "response" \in Current.after[k].marks
      BY <2>1, UnderstandMarks
    <2>3. /\ HandleError(Current.after[k].marks)
          /\ kept' \subseteq {i} /\ kept' \subseteq 1 .. Len(plan)
          /\ UNCHANGED <<fixed, reply, worker, open, generated>>
      BY <1>2 DEF UnderstandFails
    <2> QED
      BY <2>2, <2>3, <1>4
  <1>6. PrimeFails => IInv'
    <2> SUFFICES ASSUME PrimeFails PROVE IInv'
      OBVIOUS
    <2>1. "response" \in Prime.marks
      BY DEF Prime, Fallible
    <2>2. /\ HandleError(Prime.marks)
          /\ kept' \subseteq {i} /\ kept' \subseteq 1 .. Len(plan)
          /\ UNCHANGED <<fixed, reply, worker, open, generated>>
      BY <1>2 DEF PrimeFails
    <2> QED
      BY <2>1, <2>2, <1>4
  <1> QED
    BY <1>3, <1>5, <1>6

LEMMA WriteSteps ==
  ASSUME IInv, RetryableReply \/ RelayError \/ ErrorUnreadable \/ WriteAnswer
  PROVE  IInv'
  <1>1. pc = "write"
    BY DEF RetryableReply, RelayError, ErrorUnreadable, WriteAnswer
  <1>2. /\ TypeOK /\ Control /\ out = <<>>
        /\ Len(plan) \in Nat /\ i \in 1 .. Len(plan) /\ i \in 1 .. Gateway
        /\ open \subseteq {i} /\ open \ {i} = {} /\ open \subseteq 1 .. Len(plan)
        /\ kept \subseteq {i} /\ kept \subseteq 1 .. Len(plan)
        /\ generated \subseteq 1 .. Len(plan)
    BY <1>1, ReplyState
  <1>3. /\ reply \in Statuses
        /\ reply = "ok" => i \in generated \cup kept
        /\ reply # "ok" => kept = {} /\ worker = "off"
    BY <1>1, <1>2 DEF Control, TypeOK
  <1>4. RetryableReply \/ ErrorUnreadable => IInv'
    <2> SUFFICES ASSUME RetryableReply \/ ErrorUnreadable PROVE IInv'
      OBVIOUS
    <2>1. /\ PassOver /\ kept' = {} /\ worker' = "off" /\ open' = {}
          /\ generated' = generated /\ UNCHANGED <<fixed, reply>>
      BY <1>2, <1>3 DEF RetryableReply, ErrorUnreadable
    <2> QED
      BY <2>1, <1>2, Passed
  <1>5. RelayError => IInv'
    <2> SUFFICES ASSUME RelayError PROVE IInv'
      OBVIOUS
    <2>1. /\ Refuse(i, reply) /\ kept' = {} /\ worker' = worker /\ open' = {}
          /\ generated' = generated /\ UNCHANGED <<fixed, reply>>
          /\ reply \in {"retryable", "error"}
      BY <1>2, <1>3 DEF RelayError, Statuses
    <2>2. reply = "retryable" => i = Len(plan)
      BY <1>2 DEF RelayError, allowFallback
    <2>3. reply \in Heads
      BY <2>1 DEF Heads
    <2> QED
      BY <2>1, <2>2, <2>3, <1>2, Refused
  <1>6. WriteAnswer => IInv'
    <2> SUFFICES ASSUME WriteAnswer PROVE IInv'
      OBVIOUS
    <2>1. /\ Say(i, "answer") /\ i \in generated \cup kept
          /\ UNCHANGED <<fixed, i, k, reply, worker, open, generated, kept>>
      BY <1>3 DEF WriteAnswer
    <2>2. CASE pc' = "copy"
      <3>1. /\ "answer" \in {"answer", "retryable", "error"}
            /\ pc' \in {"relay", "copy"} /\ pc' # "relay"
            /\ IInv /\ i <= Len(plan)
        BY <2>2, <1>2
      <3>2. /\ kept' \subseteq {i} /\ kept' \subseteq 1 .. Len(plan)
            /\ open' \subseteq {i} /\ open' \subseteq 1 .. Len(plan)
            /\ generated' \subseteq 1 .. Len(plan)
            /\ i \in generated' \cup kept'
        BY <2>1, <1>2
      <3>3. UNCHANGED <<fixed, reply, i, k>> /\ worker' = worker
        BY <2>1
      <3> QED
        BY <3>1, <3>2, <3>3, <2>1, <1>2, Started
    <2>3. CASE pc' = "done"
      <3>1. Refuse(i, "answer") /\ "answer" \in Heads
        BY <2>1, <2>3 DEF Refuse, Heads
      <3>2. kept' # {} => "answer" \in {"answer", "translation"}
        OBVIOUS
      <3> QED
        BY <3>1, <3>2, <2>1, <1>2, Refused
    <2> QED
      BY <2>2, <2>3 DEF WriteAnswer
  <1> QED
    BY <1>4, <1>5, <1>6

LEMMA CopySteps ==
  ASSUME IInv, CopyPiece \/ CopyEnds \/ CopyFails
  PROVE  IInv'
  BY Continued DEF CopyPiece, CopyEnds, CopyFails, Refuse, Tails

(* What neither speaks nor moves the handler.                              *)
LEMMA Beside ==
  ASSUME IInv, TypeOK', Control', VerdictJustified', UNCHANGED out
  PROVE  IInv'
  BY DEF IInv, OneVoice

LEMMA WorkerSteps ==
  ASSUME IInv, Worker
  PROVE  IInv'
  <1>1. TypeOK /\ Control /\ VerdictJustified
    BY DEF IInv
  <1>2. WorkerFails \/ WorkerEnds \/ WorkerCloses => IInv'
    <2> SUFFICES ASSUME WorkerFails \/ WorkerEnds \/ WorkerCloses PROVE IInv'
      OBVIOUS
    <2>1. /\ worker # "off" /\ worker' \in {"running", "failed", "finished"}
          /\ open' \subseteq open
          /\ UNCHANGED <<fixed, i, pc, k, reply, out, generated, kept>>
      BY <1>1 DEF WorkerFails, WorkerEnds, WorkerCloses, TypeOK
    <2>2. TypeOK'
      BY <2>1, <1>1 DEF fixed, TypeOK, Gateway
    <2>3. Control'
      BY <2>1, <1>1 DEF fixed, Control, Early, Unended
    <2>4. VerdictJustified'
      BY <2>1, <1>1 DEF fixed, VerdictJustified, Gateway
    <2> QED
      BY <2>1, <2>2, <2>3, <2>4, Beside
  <1>3. WorkerKeeps => IInv'
    <2> SUFFICES ASSUME WorkerKeeps PROVE IInv'
      OBVIOUS
    <2>1. /\ pc \in {"after", "write", "copy"} /\ worker # "off"
          /\ kept' = kept \cup {i}
          /\ UNCHANGED <<fixed, i, pc, k, reply, worker, open, out, generated>>
      BY DEF WorkerKeeps
    <2>2. i \in 1 .. Len(plan)
      BY <2>1, <1>1, NonEmptyPlans DEF Control, TypeOK
    <2>3. TypeOK'
      BY <2>1, <2>2, <1>1 DEF fixed, TypeOK, Gateway
    <2>4. Control'
      BY <2>1, <1>1 DEF fixed, Control, Early, Unended
    <2>5. VerdictJustified'
      <3>1. CASE pc = "copy"
        <4>1. out[1].by = i /\ out[1].what = "answer" /\ kept' = {i}
          BY <3>1, <2>1, <1>1 DEF Control
        <4> QED
          BY <4>1, <2>1, <1>1 DEF fixed, VerdictJustified, Gateway
      <3>2. CASE pc # "copy"
        BY <3>2, <2>1, <1>1 DEF Control, VerdictJustified
      <3> QED
        BY <3>1, <3>2
    <2> QED
      BY <2>1, <2>3, <2>4, <2>5, Beside
  <1> QED
    BY <1>2, <1>3 DEF Worker

LEMMA OtherSteps ==
  ASSUME IInv, ClientLeaves \/ UNCHANGED vars
  PROVE  IInv'
  <1>1. TypeOK /\ Control /\ VerdictJustified
    BY DEF IInv
  <1>2. /\ client' \in {"there", "gone"}
        /\ UNCHANGED <<request, plan, i, pc, k, reply, worker, open, out, generated, kept>>
    BY <1>1 DEF ClientLeaves, vars, fixed, TypeOK
  <1>3. TypeOK' /\ Control'
    BY <1>1, <1>2 DEF TypeOK, Control, Early, Unended, Gateway
  <1>4. VerdictJustified'
    BY <1>1, <1>2 DEF VerdictJustified, Gateway
  <1> QED
    BY <1>2, <1>3, <1>4, Beside

LEMMA StepIInv == IInv /\ [Next]_vars => IInv'
  <1> SUFFICES ASSUME IInv, [Next]_vars PROVE IInv'
    OBVIOUS
  <1>1. Begin \/ BodyUnreadable => IInv'
    BY LoopSteps
  <1>2. Local => IInv'
    BY LoopSteps, NativeSteps, CallSteps, ReplySteps, WriteSteps, CopySteps DEF Local
  <1>3. Answers => IInv'
    BY NativeSteps, CallSteps, ReplySteps, WriteSteps, CopySteps DEF Answers
  <1>4. Breaks => IInv'
    BY NativeSteps, CallSteps, WriteSteps DEF Breaks
  <1>5. Worker => IInv'
    BY WorkerSteps
  <1>6. ClientLeaves \/ Finished \/ UNCHANGED vars => IInv'
    BY OtherSteps DEF Finished
  <1> QED
    BY <1>1, <1>2, <1>3, <1>4, <1>5, <1>6 DEF Next

LEMMA Invariance == Spec => []IInv
  BY InitIInv, StepIInv, PTL DEF Spec

-----------------------------------------------------------------------------
(* What follows for every request, plan and length of a body.              *)

(* The handler's state keeps its type, the loop's index included, which    *)
(* never runs past the end of the plan (the loops of the three handlers).  *)
THEOREM TypeCorrect == Spec => []TypeOK
  BY Invariance, PTL DEF IInv

(* The client hears one status line, then the body of the same attempt and *)
(* nothing after its end: the contract of ServeHTTPTo and of the           *)
(* translated writers with the handlers' loops.                            *)
THEOREM HeardOnce == Spec => []OneVoice
  BY Invariance, PTL DEF IInv

(* What the client is told is what happened: the verdicts of               *)
(* handleCrossProtocolError and of the handlers' last error.               *)
THEOREM VerdictsJustified == Spec => []VerdictJustified
  BY Invariance, PTL DEF IInv

(* At most the current attempt has an upstream reply open: the deferred    *)
(* Close calls of the clients and of the stream's worker.                  *)
THEOREM OneReplyOpen == Spec => []OneOpen
  <1>1. IInv => OneOpen
    BY DEF IInv, Control, OneOpen
  <1> QED
    BY <1>1, Invariance, PTL

-----------------------------------------------------------------------------
(* Every step is one of OneAnswer or changes nothing it sees.              *)

Author == IF out = <<>> THEN 0 ELSE out[1].by

Gives ==
  /\ i <= Len(plan) /\ out = <<>> /\ kept = {}
  /\ i' = i + 1
  /\ UNCHANGED <<plan, out, kept>>

Speaks ==
  /\ i <= Len(plan) /\ out = <<>>
  /\ \E what \in Heads : Say(i, what)
  /\ kept' \in {kept, {i}}
  /\ UNCHANGED <<plan, i>>

Keeps ==
  /\ i <= Len(plan) /\ Author \in {0, i}
  /\ kept' = {i}
  /\ UNCHANGED <<plan, i, out>>

SpeaksForGateway ==
  /\ i \in {1, Gateway} /\ out = <<>> /\ kept = {}
  /\ \E what \in Heads : Say(Gateway, what)
  /\ UNCHANGED <<plan, i, kept>>

GoesOn ==
  /\ \/ UNCHANGED out
     \/ out # <<>> /\ \E what \in Tails : Say(i, what)
  /\ UNCHANGED <<plan, i, kept>>

Visible == Gives \/ Speaks \/ Keeps \/ SpeaksForGateway \/ GoesOn

LEMMA FirstWord ==
  ASSUME TypeOK, NEW author, NEW what, Say(author, what)
  PROVE  Author' = IF out = <<>> THEN author ELSE Author
  <1> DEFINE word == [by |-> author, what |-> what]
  <1>1. out \in Seq(Word) /\ out' = Append(out, word)
    BY DEF TypeOK, Word, Say
  <1>2. CASE out = <<>>
    <2>1. out' = <<word>>
      BY <1>1, <1>2
    <2>2. out' # <<>> /\ out'[1] = word
      BY <2>1
    <2> QED
      BY <1>2, <2>2 DEF Author
  <1>3. CASE out # <<>>
    <2>1. Len(out) \in Nat \ {0}
      BY <1>1, <1>3, EmptySeq, LenProperties
    <2>2. out' # <<>> /\ out'[1] = out[1]
      BY <1>1, <2>1
    <2> QED
      BY <1>3, <2>2 DEF Author
  <1> QED
    BY <1>2, <1>3

LEMMA VisibleSteps ==
  ASSUME IInv, Visible
  PROVE  [Promise!Next]_(Promise!vars)
  <1> USE DEF Promise!Next, Promise!vars, Promise!Nobody, Promise!Gateway
  <1>1. /\ TypeOK /\ Len(plan) \in Nat \ {0} /\ Gateway = Len(plan) + 1
        /\ i \in 1 .. Len(plan) + 1
    BY NonEmptyPlans DEF IInv, TypeOK
  <1>2. CASE Gives
    <2>1. Promise!PassOver
      BY <1>1, <1>2 DEF Gives, Promise!PassOver
    <2> QED
      BY <2>1
  <1>3. CASE Speaks
    <2>1. Author = 0 /\ Author' = i
      BY <1>1, <1>3, FirstWord DEF Speaks, Author
    <2>2. Promise!Speak
      BY <1>1, <1>3, <2>1 DEF Speaks, Author, Promise!Speak
    <2> QED
      BY <2>2
  <1>4. CASE Keeps
    <2>1. Promise!Keep
      BY <1>1, <1>4 DEF Keeps, Author, Promise!Keep
    <2> QED
      BY <2>1
  <1>5. CASE SpeaksForGateway
    <2>1. Author = 0 /\ Author' = Gateway
      BY <1>1, <1>5, FirstWord DEF SpeaksForGateway, Author
    <2>2. Promise!SpeakForItself
      BY <1>1, <1>5, <2>1 DEF SpeaksForGateway, Author, Promise!SpeakForItself
    <2> QED
      BY <2>2
  <1>6. CASE GoesOn
    <2>1. Author' = Author
      <3>1. CASE UNCHANGED out
        BY <3>1 DEF Author
      <3>2. CASE out # <<>> /\ \E what \in Tails : Say(i, what)
        BY <3>2, <1>1, FirstWord
      <3> QED
        BY <3>1, <3>2, <1>6 DEF GoesOn
    <2> QED
      BY <2>1, <1>6 DEF GoesOn, Author
  <1> QED
    BY <1>2, <1>3, <1>4, <1>5, <1>6 DEF Visible

(* An attempt that fails is given up or heard.                             *)
LEMMA ErrorVisible ==
  ASSUME NEW marks, HandleError(marks), i <= Len(plan), out = <<>>,
         kept = {} \/ "response" \in marks, kept' \in {kept, {i}},
         kept' = kept \/ "response" \in marks, UNCHANGED plan
  PROVE  Visible
  <1>1. CASE "response" \in marks
    BY <1>1, ReplyErrors DEF Refuse, Heads, Speaks, Visible
  <1>2. CASE "response" \notin marks
    <2>1. CASE PassOver
      BY <1>2, <2>1 DEF PassOver, Gives, Visible
    <2>2. CASE Refuse(i, "badRequest") \/ Refuse(i, "unsupported")
      BY <1>2, <2>2 DEF Refuse, Heads, Speaks, Visible
    <2> QED
      BY <1>2, <2>1, <2>2, RequestErrors
  <1> QED
    BY <1>1, <1>2

LEMMA EarlyVisible ==
  ASSUME IInv,
         \/ Begin \/ BodyUnreadable \/ TryNative \/ RewriteFails \/ Untranslatable
         \/ StreamFlagMalformed \/ TryTranslated \/ Exhausted
         \/ Unreachable \/ Forward \/ ProxyBreaks \/ ProxyRetryable
         \/ Prepare \/ PrepareFails \/ StartJob \/ CallRefused \/ CallUpstream
         \/ CallBreaks \/ ReadBody \/ ReadBreaks \/ TooLarge
         \/ \E status \in Statuses : ProxyAnswered(status) \/ CallAnswered(status)
  PROVE  Visible
  <1>1. pc \in Early
    BY DEF Begin, BodyUnreadable, TryNative, RewriteFails, Untranslatable,
       StreamFlagMalformed, TryTranslated, Exhausted, Unreachable, Forward,
       ProxyBreaks, ProxyRetryable, Prepare, PrepareFails, StartJob, CallRefused,
       CallUpstream, CallBreaks, ReadBody, ReadBreaks, TooLarge, ProxyAnswered,
       CallAnswered, Early
  <1>2. /\ TypeOK /\ Control /\ out = <<>> /\ kept = {}
        /\ pc \notin {"begin", "try"} => i <= Len(plan)
    BY <1>1, EarlyState
  <1>3. Gateway = Len(plan) + 1 /\ Len(plan) \in Nat \ {0} /\ i \in 1 .. Len(plan) + 1
    BY <1>2, NonEmptyPlans DEF TypeOK
  <1>4. Begin \/ TryNative \/ TryTranslated \/ Forward \/ Prepare \/ CallUpstream => Visible
    BY DEF Begin, TryNative, TryTranslated, Forward, Prepare, CallUpstream, fixed,
       GoesOn, Visible
  <1>5. ReadBody \/ (\E status \in Statuses : CallAnswered(status)) => Visible
    BY DEF ReadBody, CallAnswered, fixed, GoesOn, Visible
  <1>6. Unreachable \/ ProxyBreaks \/ ProxyRetryable => Visible
    BY <1>2 DEF Unreachable, ProxyBreaks, ProxyRetryable, PassOver, fixed, Gives, Visible
  <1>7. BodyUnreadable \/ Exhausted => Visible
    <2>1. BodyUnreadable => i = 1
      BY <1>2 DEF BodyUnreadable, Control
    <2>2. Exhausted => i = Gateway
      BY <1>3 DEF Exhausted
    <2> QED
      BY <2>1, <2>2, <1>2 DEF BodyUnreadable, Exhausted, Refuse, fixed, Heads,
         SpeaksForGateway, Visible
  <1>8. RewriteFails \/ StreamFlagMalformed => Visible
    BY <1>2 DEF RewriteFails, StreamFlagMalformed, Refuse, fixed, Heads, Speaks, Visible
  <1>9. Untranslatable \/ PrepareFails \/ CallRefused \/ CallBreaks \/ ReadBreaks
          \/ TooLarge => Visible
    <2> SUFFICES ASSUME Untranslatable \/ PrepareFails \/ CallRefused \/ CallBreaks
                          \/ ReadBreaks \/ TooLarge
                 PROVE  Visible
      OBVIOUS
    <2>1. i <= Len(plan) /\ kept' = kept /\ plan' = plan
      BY <1>2 DEF Untranslatable, PrepareFails, CallRefused, CallBreaks, ReadBreaks,
         TooLarge, fixed
    <2>2. PICK marks : HandleError(marks)
      BY DEF Untranslatable, PrepareFails, CallRefused, CallBreaks, ReadBreaks, TooLarge
    <2> QED
      BY <2>1, <2>2, <1>2, ErrorVisible
  <1>10. StartJob => Visible
    BY <1>2 DEF StartJob, fixed, Author, Keeps, Visible
  <1>11. ASSUME NEW status \in Statuses, ProxyAnswered(status)
         PROVE  Visible
    <2> DEFINE said == IF status = "ok" THEN "answer" ELSE status
    <2>1. Say(i, said) /\ said \in Heads
      BY <1>11 DEF ProxyAnswered, Statuses, Heads
    <2>2. i <= Len(plan) /\ UNCHANGED <<plan, i, kept>>
      BY <1>2, <1>11 DEF ProxyAnswered, fixed
    <2> HIDE DEF said
    <2> QED
      BY <2>1, <2>2, <1>2 DEF Speaks, Visible
  <1> QED
    BY <1>4, <1>5, <1>6, <1>7, <1>8, <1>9, <1>10, <1>11

LEMMA LateVisible ==
  ASSUME IInv,
         \/ Understand \/ UnderstandFails \/ Understood \/ Primed \/ PrimeFails
         \/ RetryableReply \/ RelayError \/ ErrorUnreadable \/ WriteAnswer
         \/ RelayPiece \/ RelayEnds \/ RelayBreaks
         \/ CopyPiece \/ CopyEnds \/ CopyFails
  PROVE  Visible
  <1>1. /\ TypeOK /\ Control
        /\ pc \in {"after", "write"} => out = <<>>
        /\ pc \in {"after", "write", "relay", "copy"} => i <= Len(plan)
        /\ kept = {} \/ kept = {i}
    BY DEF IInv, Control
  <1>2. RelayPiece \/ RelayEnds \/ RelayBreaks \/ CopyPiece \/ CopyEnds \/ CopyFails
          => Visible
    <2>1. pc \in {"relay", "copy"} => out # <<>>
      BY <1>1 DEF Control
    <2> QED
      BY <2>1 DEF RelayPiece, RelayEnds, RelayBreaks, CopyPiece, CopyEnds, CopyFails,
         Refuse, fixed, Tails, GoesOn, Visible
  <1>3. ASSUME Understand \/ Understood \/ Primed
        PROVE  Visible
    <2>1. /\ pc = "after" /\ kept' \in {kept, kept \cup {i}}
          /\ UNCHANGED <<plan, i, out>>
      BY <1>3 DEF Understand, Understood, Primed, fixed
    <2>2. CASE kept' = kept
      BY <2>1, <2>2 DEF GoesOn, Visible
    <2>3. CASE kept' = kept \cup {i}
      BY <2>1, <2>3, <1>1 DEF Author, Keeps, Visible
    <2> QED
      BY <2>1, <2>2, <2>3
  <1>4. ASSUME UnderstandFails
        PROVE  Visible
    <2>1. k \in 1 .. Len(Current.after)
      BY <1>1, <1>4, CurrentShaped DEF UnderstandFails, Shaped, TypeOK
    <2>2. "response" \in Current.after[k].marks
      BY <2>1, UnderstandMarks
    <2>3. HandleError(Current.after[k].marks) /\ i <= Len(plan) /\ out = <<>> /\ plan' = plan
      BY <1>1, <1>4 DEF UnderstandFails, fixed
    <2>4. kept' \in {kept, {i}}
      BY <1>1, <1>4 DEF UnderstandFails
    <2> QED
      BY <2>2, <2>3, <2>4, ErrorVisible
  <1>5. ASSUME PrimeFails
        PROVE  Visible
    <2>1. "response" \in Prime.marks
      BY DEF Prime, Fallible
    <2>2. HandleError(Prime.marks) /\ i <= Len(plan) /\ out = <<>>
          /\ UNCHANGED <<plan, kept>>
      BY <1>1, <1>5 DEF PrimeFails, fixed
    <2> QED
      BY <2>1, <2>2, ErrorVisible
  <1>6. RetryableReply \/ ErrorUnreadable => Visible
    <2>1. pc = "write" /\ reply # "ok" => kept = {}
      BY <1>1 DEF Control
    <2> QED
      BY <2>1, <1>1 DEF RetryableReply, ErrorUnreadable, PassOver, fixed, Gives, Visible
  <1>7. RelayError => Visible
    <2>1. reply \in Statuses \cup {"none"} /\ (pc = "write" => reply # "none")
      BY <1>1 DEF TypeOK, Control
    <2> QED
      BY <2>1, <1>1 DEF RelayError, Refuse, fixed, Statuses, Heads, Speaks, Visible
  <1>8. WriteAnswer => Visible
    BY <1>1 DEF WriteAnswer, fixed, Heads, Speaks, Visible
  <1> QED
    BY <1>2, <1>3, <1>4, <1>5, <1>6, <1>7, <1>8

LEMMA BesideVisible ==
  ASSUME IInv, Worker \/ ClientLeaves \/ UNCHANGED vars
  PROVE  Visible
  <1>1. Control /\ (kept = {} \/ kept = {i})
    BY DEF IInv, Control
  <1>2. WorkerFails \/ WorkerEnds \/ WorkerCloses => Visible
    BY DEF WorkerFails, WorkerEnds, WorkerCloses, fixed, GoesOn, Visible
  <1>3. ClientLeaves \/ UNCHANGED vars => Visible
    BY DEF ClientLeaves, vars, fixed, GoesOn, Visible
  <1>4. ASSUME WorkerKeeps
        PROVE  Visible
    <2>1. /\ pc \in {"after", "write", "copy"} /\ kept' = kept \cup {i}
          /\ UNCHANGED <<plan, i, out>>
      BY <1>4 DEF WorkerKeeps, fixed
    <2>2. i <= Len(plan) /\ Author \in {0, i}
      BY <2>1, <1>1 DEF Control, Author
    <2> QED
      BY <2>1, <2>2, <1>1 DEF Keeps, Visible
  <1> QED
    BY <1>2, <1>3, <1>4 DEF Worker

LEMMA StepVisible == IInv /\ [Next]_vars => Visible
  <1> SUFFICES ASSUME IInv, [Next]_vars PROVE Visible
    OBVIOUS
  <1>1. Begin \/ BodyUnreadable => Visible
    BY EarlyVisible
  <1>2. Local => Visible
    BY EarlyVisible, LateVisible DEF Local
  <1>3. Answers => Visible
    BY EarlyVisible, LateVisible DEF Answers
  <1>4. Breaks => Visible
    BY EarlyVisible, LateVisible DEF Breaks
  <1>5. Worker \/ ClientLeaves \/ Finished \/ UNCHANGED vars => Visible
    BY BesideVisible DEF Finished
  <1> QED
    BY <1>1, <1>2, <1>3, <1>4, <1>5 DEF Next

(* Whatever happens inside an attempt, a request gets what the README      *)
(* (84-86) and COMPATIBILITY.md (86-90) promise: Attempts implements       *)
(* OneAnswer.                                                              *)
THEOREM PromiseKept == Spec => KeepsPromise
  <1>1. Init => Promise!Init
    <2> SUFFICES ASSUME Init PROVE Promise!Init
      OBVIOUS
    <2>1. Len(plan) \in Nat \ {0}
      BY PlansAssumption, EmptySeq, LenProperties DEF Init
    <2> QED
      BY <2>1 DEF Init, Promise!Init, Promise!Nobody
  <1>2. IInv /\ [Next]_vars => [Promise!Next]_(Promise!vars)
    BY StepVisible, VisibleSteps
  <1> QED
    BY <1>1, <1>2, Invariance, PTL DEF Spec, KeepsPromise, Promise!Spec
=============================================================================
