------------------------------ MODULE Attempts ------------------------------
(***************************************************************************)
(* One HTTP request in the gateway: the handlers (internal/protocol/       *)
(* openai, anthropic, gemini) try the targets of its plan in order, by     *)
(* proxying it unchanged to a target of their own protocol or through a    *)
(* translator, until an attempt is final.  Upstreams may refuse, hang,     *)
(* answer any status and break off at any moment; the client may leave at  *)
(* any moment.  A translated stream has a second process: the goroutine    *)
(* that translates the upstream's events into a pipe the handler copies    *)
(* to the client (the worker).                                             *)
(***************************************************************************)
EXTENDS Naturals, Sequences, FiniteSets, Translators

CONSTANTS
  Requests,   \* the requests considered
  Plans,      \* the plans the router may resolve them to
  MaxPieces   \* bound: pieces of a streamed or proxied body

Operations == {"chat", "responses", "messages", "generate", "other"}

(* door: the protocol the client speaks.  keeps: the Responses turn is     *)
(* stored (store=true or a conversation).  held: buffer_refusals.          *)
Request ==
  [door : Protocols, op : Operations, stream : {"no", "yes", "malformed"},
   background : BOOLEAN, held : BOOLEAN, keeps : BOOLEAN]

(* alias: the route renames the model.                                     *)
Target == [protocol : Protocols, alias : BOOLEAN]

Door(op) == CASE op \in {"chat", "responses"} -> {"openai"}
              [] op = "messages" -> {"anthropic"}
              [] op = "generate" -> {"gemini"}
              [] OTHER -> Protocols

ASSUME RequestsAssumption ==
  /\ Requests \subseteq Request
  /\ \A r \in Requests : r.door \in Door(r.op)
ASSUME PlansAssumption == Plans \subseteq Seq(Target) \ {<<>>}
ASSUME MaxPiecesAssumption == MaxPieces \in Nat \ {0}

VARIABLES
  request,    \* what the client asked
  plan,       \* the ordered targets
  i,          \* the loop's index
  pc,         \* where the handler is
  k,          \* the translator's step
  reply,      \* class of the upstream status in hand
  worker,     \* the stream translation goroutine
  open,       \* attempts whose upstream reply is still open
  out,        \* what was written to the client, and by which attempt
  generated,  \* attempts whose upstream succeeded (2xx, if buffered: read)
  kept,       \* attempts that stored a turn or started a background job
  client      \* whether the client is still there

vars == <<request, plan, i, pc, k, reply, worker, open, out, generated, kept, client>>

fixed == <<request, plan, client>>

Handler == {"begin", "try", "native", "proxied", "relay", "before", "call",
            "read", "after", "write", "copy", "done"}
Statuses == {"ok", "retryable", "error"}

(* What a status line, or the rest of a response, says.                    *)
Heads == {"answer", "retryable", "error", "badRequest", "unsupported",
          "translation", "exhausted"}
Tails == {"piece", "end", "abort"}

Gateway == Len(plan) + 1

-----------------------------------------------------------------------------
(* The request and its current attempt.                                    *)

allowFallback == i < Len(plan)

(* One target of the client's protocol and no alias: nothing is buffered.  *)
Transparent ==
  Len(plan) = 1 /\ plan[1].protocol = request.door /\ ~plan[1].alias

Native == plan[i].protocol = request.door

Streams == request.stream = "yes"

Current ==
  CASE request.op = "chat" -> ChatTranslator(plan[i].protocol, Streams)
    [] request.op = "responses" ->
         ResponsesTranslator(plan[i].protocol, Streams, request.background)
    [] request.op = "messages" -> MessagesTranslator(plan[i].protocol, Streams)
    [] OTHER -> GenerateTranslator(plan[i].protocol, Streams)

MustKeep == request.op = "responses" /\ request.keeps

(* writeError, WriteHeader and Write: the response begins.                 *)
Say(author, what) == out' = Append(out, [by |-> author, what |-> what])

Refuse(author, what) ==
  /\ pc' = "done"
  /\ Say(author, what)
  /\ UNCHANGED <<i, k>>

(* Mutant: a target is left out.                                           *)
SkipsOne ==
  /\ pc' = "try"
  /\ i' = i + 2
  /\ k' = 1
  /\ UNCHANGED out

(* The upstream did what it was asked to.                                  *)
Generated == generated' = generated \cup {i}

(* The attempt is given up, and the loop goes on.                          *)
PassOver ==
  /\ pc' = "try"
  /\ i' = i + 1
  /\ k' = 1
  /\ UNCHANGED out

(* Mutant: ErrUnsupported is asked for first.                              *)
UnsupportedFirst(marks) ==
  CASE "unsupported" \in marks /\ allowFallback -> PassOver
    [] "unsupported" \in marks /\ ~allowFallback -> Refuse(i, "unsupported")
    [] "unsupported" \notin marks /\ "response" \in marks -> Refuse(i, "translation")
    [] marks = {"request"} -> Refuse(i, "badRequest")
    [] OTHER -> PassOver

(* Mutant: an unsupported feature ends the request.                        *)
UnsupportedIsFinal(marks) ==
  CASE "response" \in marks -> Refuse(i, "translation")
    [] "response" \notin marks /\ "request" \in marks -> Refuse(i, "badRequest")
    [] marks = {"unsupported"} -> Refuse(i, "unsupported")
    [] OTHER -> PassOver

(* handleCrossProtocolError, handleTranslationError: the marks are asked   *)
(* for in this order, and an error without any is a reason to go on.       *)
HandleError(marks) ==
  CASE "response" \in marks -> Refuse(i, "translation")
    [] "response" \notin marks /\ "request" \in marks -> Refuse(i, "badRequest")
    [] marks = {"unsupported"} /\ ~allowFallback -> Refuse(i, "unsupported")
    [] OTHER -> PassOver

-----------------------------------------------------------------------------
(* The loop.                                                               *)

Init ==
  /\ request \in Requests
  /\ plan \in Plans
  /\ i = 1
  /\ pc = "begin"
  /\ k = 1
  /\ reply = "none"
  /\ worker = "off"
  /\ open = {}
  /\ out = <<>>
  /\ generated = {}
  /\ kept = {}
  /\ client = "there"

Begin ==
  /\ pc = "begin"
  /\ pc' = IF Transparent THEN "native" ELSE "try"
  /\ UNCHANGED <<fixed, i, k, reply, worker, open, out, generated, kept>>

(* replayBody: broken off, or larger than the replay limit.                *)
BodyUnreadable ==
  /\ pc = "begin" /\ ~Transparent
  /\ Refuse(Gateway, "badRequest")
  /\ UNCHANGED <<fixed, reply, worker, open, generated, kept>>

TryNative ==
  /\ pc = "try" /\ i <= Len(plan) /\ Native
  /\ pc' = "native"
  /\ UNCHANGED <<fixed, i, k, reply, worker, open, out, generated, kept>>

(* rewriteTopLevelModel, rewriteModelPath: a request without a model to    *)
(* rename is refused at once, whatever targets are left.                   *)
RewriteFails ==
  /\ pc = "try" /\ i <= Len(plan) /\ Native /\ plan[i].alias
  /\ Refuse(i, "badRequest")
  /\ UNCHANGED <<fixed, reply, worker, open, generated, kept>>

(* unsupportedAnthropicOperation and its siblings.                         *)
Untranslatable ==
  /\ pc = "try" /\ i <= Len(plan) /\ ~Native /\ request.op = "other"
  /\ HandleError({"unsupported"})
  /\ UNCHANGED <<fixed, reply, worker, open, generated, kept>>

StreamFlagMalformed ==
  /\ pc = "try" /\ i <= Len(plan) /\ ~Native /\ request.op # "other"
  /\ request.stream = "malformed"
  /\ Refuse(i, "badRequest")
  /\ UNCHANGED <<fixed, reply, worker, open, generated, kept>>

TryTranslated ==
  /\ pc = "try" /\ i <= Len(plan) /\ ~Native /\ request.op # "other"
  /\ request.stream # "malformed"
  /\ pc' = "before" /\ k' = 1
  /\ UNCHANGED <<fixed, i, reply, worker, open, out, generated, kept>>

Exhausted ==
  /\ pc = "try" /\ i > Len(plan)
  /\ Refuse(Gateway, "exhausted")
  /\ UNCHANGED <<fixed, reply, worker, open, generated, kept>>

-----------------------------------------------------------------------------
(* A native attempt: ServeHTTPTo of the three proxies.                     *)

(* No OAuth token or no connection; a client that has left ends it too.    *)
Unreachable ==
  /\ pc = "native"
  /\ PassOver
  /\ UNCHANGED <<fixed, reply, worker, open, generated, kept>>

Forward ==
  /\ pc = "native" /\ client = "there"
  /\ pc' = "proxied"
  /\ UNCHANGED <<fixed, i, k, reply, worker, open, out, generated, kept>>

ProxyBreaks ==
  /\ pc = "proxied"
  /\ PassOver
  /\ UNCHANGED <<fixed, reply, worker, open, generated, kept>>

(* ModifyResponse turns a retryable status into an error while another     *)
(* target is left; every other status is relayed as it is.                 *)
ProxyRetryable ==
  /\ pc = "proxied" /\ allowFallback
  /\ PassOver
  /\ UNCHANGED <<fixed, reply, worker, open, generated, kept>>

ProxyAnswered(status) ==
  /\ pc = "proxied"
  /\ status = "retryable" => ~allowFallback
  /\ pc' = "relay"
  /\ open' = open \cup {i}
  /\ IF status = "ok" THEN Generated ELSE UNCHANGED generated
  /\ Say(i, IF status = "ok" THEN "answer" ELSE status)
  /\ UNCHANGED <<fixed, i, k, reply, worker, kept>>

RelayPiece ==
  /\ pc = "relay" /\ Len(out) <= MaxPieces
  /\ Say(i, "piece")
  /\ UNCHANGED <<fixed, i, pc, k, reply, worker, open, generated, kept>>

RelayEnds ==
  /\ pc = "relay"
  /\ Refuse(i, "end")
  /\ open' = open \ {i}
  /\ UNCHANGED <<fixed, reply, worker, generated, kept>>

(* The upstream breaks off or the client is gone: ReverseProxy panics with *)
(* ErrAbortHandler, so the client never takes the part for the whole.      *)
RelayBreaks ==
  /\ pc = "relay"
  /\ Refuse(i, "abort")
  /\ open' = open \ {i}
  /\ UNCHANGED <<fixed, reply, worker, generated, kept>>

-----------------------------------------------------------------------------
(* A translated attempt, up to the upstream's reply.                       *)

Prepare ==
  /\ pc = "before" /\ k <= Len(Current.before)
  /\ k' = k + 1
  /\ UNCHANGED <<fixed, i, pc, reply, worker, open, out, generated, kept>>

PrepareFails ==
  /\ pc = "before" /\ k <= Len(Current.before)
  /\ HandleError(Current.before[k].marks)
  /\ UNCHANGED <<fixed, reply, worker, open, generated, kept>>

(* startBackgroundResponses does not look at the client's context.         *)
StartJob ==
  /\ pc = "before" /\ k > Len(Current.before) /\ Current.call = "queue"
  /\ kept' = kept \cup {i}
  /\ reply' = "ok"
  /\ pc' = "write"
  /\ UNCHANGED <<fixed, i, k, worker, open, out, generated>>

(* The job cannot be stored; or no OAuth token, no connection.             *)
CallRefused ==
  /\ pc = "before" /\ k > Len(Current.before)
  /\ HandleError(Unmarked)
  /\ UNCHANGED <<fixed, reply, worker, open, generated, kept>>

CallUpstream ==
  /\ pc = "before" /\ k > Len(Current.before) /\ Current.call # "queue"
  /\ client = "there"
  /\ pc' = "call"
  /\ UNCHANGED <<fixed, i, k, reply, worker, open, out, generated, kept>>

(* Mutant: the call is made with a context of its own.                     *)
CallDetached ==
  /\ pc = "call" /\ client = "there"
  /\ HandleError(Unmarked)
  /\ UNCHANGED <<fixed, reply, worker, open, generated, kept>>

CallBreaks ==
  /\ pc = "call"
  /\ HandleError(Unmarked)
  /\ UNCHANGED <<fixed, reply, worker, open, generated, kept>>

(* Do goes on to read the body.  Of a stream only a success is translated: *)
(* translateStream starts the worker.                                      *)
CallAnswered(status) ==
  /\ pc = "call"
  /\ reply' = status
  /\ open' = open \cup {i}
  /\ IF Current.call = "do"
     THEN pc' = "read" /\ UNCHANGED <<worker, k, generated>>
     ELSE IF status = "ok"
          THEN pc' = "after" /\ worker' = "running" /\ k' = 1 /\ Generated
          ELSE pc' = "write" /\ UNCHANGED <<worker, k, generated>>
  /\ UNCHANGED <<fixed, i, out, kept>>

ReadBody ==
  /\ pc = "read"
  /\ open' = open \ {i}
  /\ k' = 1
  /\ IF reply = "ok"
     THEN pc' = "after" /\ Generated
     ELSE pc' = "write" /\ UNCHANGED generated
  /\ UNCHANGED <<fixed, i, reply, worker, out, kept>>

ReadBreaks ==
  /\ pc = "read"
  /\ open' = open \ {i}
  /\ HandleError(Unmarked)
  /\ UNCHANGED <<fixed, reply, worker, generated, kept>>

(* More than maxResponseBodyBytes: an error without a mark, although the   *)
(* upstream may have succeeded.                                            *)
TooLarge ==
  /\ pc = "read"
  /\ open' = open \ {i}
  /\ HandleError(Unmarked)
  /\ IF reply = "ok" THEN Generated ELSE UNCHANGED generated
  /\ UNCHANGED <<fixed, reply, worker, kept>>

-----------------------------------------------------------------------------
(* A buffered reply.                                                       *)

Persists == MustKeep /\ Current.after[k] = PersistReply

Understand ==
  /\ pc = "after" /\ Current.call = "do" /\ k <= Len(Current.after)
  /\ kept' = IF Persists THEN kept \cup {i} ELSE kept
  /\ k' = k + 1
  /\ UNCHANGED <<fixed, i, pc, reply, worker, open, out, generated>>

(* The turn may be stored in part before its store fails.                  *)
UnderstandFails ==
  /\ pc = "after" /\ Current.call = "do" /\ k <= Len(Current.after)
  /\ HandleError(Current.after[k].marks)
  /\ \/ kept' = kept
     \/ Persists /\ kept' = kept \cup {i}
  /\ UNCHANGED <<fixed, reply, worker, open, generated>>

Understood ==
  /\ pc = "after" /\ Current.call = "do" /\ k > Len(Current.after)
  /\ pc' = "write"
  /\ UNCHANGED <<fixed, i, k, reply, worker, open, out, generated, kept>>

-----------------------------------------------------------------------------
(* A translated stream: the worker, and primeStream, which waits for the   *)
(* first bytes so that an early failure can still be told with a status.   *)

(* A held stream is stored whole before its first byte, an incremental one *)
(* before its last event.                                                  *)
WorkerKeeps ==
  /\ worker = "running" /\ MustKeep /\ i \notin kept
  /\ IF request.held THEN pc = "after" ELSE pc \in {"write", "copy"}
  /\ kept' = kept \cup {i}
  /\ UNCHANGED <<fixed, i, pc, k, reply, worker, open, out, generated>>

(* The source breaks off, an event cannot be represented, the turn cannot  *)
(* be stored, or the pipe's reader is closed; CloseWithError.              *)
WorkerFails ==
  /\ worker = "running"
  /\ worker' = "failed"
  /\ UNCHANGED <<fixed, i, pc, k, reply, open, out, generated, kept>>

WorkerEnds ==
  /\ worker = "running" /\ pc \in {"write", "copy"}
  /\ MustKeep => i \in kept
  /\ worker' = "finished"
  /\ UNCHANGED <<fixed, i, pc, k, reply, open, out, generated, kept>>

(* Mutant: the source is closed only when it was read to its end.          *)
ClosesAtEnd ==
  /\ worker = "finished" /\ i \in open
  /\ open' = open \ {i}
  /\ UNCHANGED <<fixed, i, pc, k, reply, worker, out, generated, kept>>

(* The deferred source.Close of the worker, after the pipe is closed.      *)
WorkerCloses ==
  /\ worker \in {"failed", "finished"} /\ i \in open
  /\ open' = open \ {i}
  /\ UNCHANGED <<fixed, i, pc, k, reply, worker, out, generated, kept>>

Primed ==
  /\ pc = "after" /\ Current.call = "stream" /\ worker = "running"
  /\ MustKeep /\ request.held => i \in kept
  /\ pc' = "write"
  /\ UNCHANGED <<fixed, i, k, reply, worker, open, out, generated, kept>>

PrimeFails ==
  /\ pc = "after" /\ Current.call = "stream" /\ worker = "failed"
  /\ HandleError(Prime.marks)
  /\ UNCHANGED <<fixed, reply, worker, open, generated, kept>>

-----------------------------------------------------------------------------
(* The reply is written.                                                   *)

(* writeAnthropicBufferedResponse, writeAnthropicStreamResponse and their  *)
(* siblings: a retryable status, while another target is left.             *)
RetryableReply ==
  /\ pc = "write" /\ reply = "retryable" /\ allowFallback
  /\ PassOver
  /\ open' = open \ {i}
  /\ UNCHANGED <<fixed, reply, worker, generated, kept>>

RelayError ==
  /\ pc = "write" /\ reply # "ok"
  /\ reply = "retryable" => ~allowFallback
  /\ Refuse(i, reply)
  /\ open' = open \ {i}
  /\ UNCHANGED <<fixed, reply, worker, generated, kept>>

(* Mutant: the status is written before the error's body is read.          *)
StatusTooEarly ==
  /\ pc = "write" /\ reply # "ok" /\ Current.call = "stream"
  /\ reply = "retryable" => ~allowFallback
  /\ pc' = "try" /\ i' = i + 1 /\ k' = 1
  /\ Say(i, reply)
  /\ open' = open \ {i}
  /\ UNCHANGED <<fixed, reply, worker, generated, kept>>

(* translatedStreamError: the body of an error reply breaks off.           *)
ErrorUnreadable ==
  /\ pc = "write" /\ reply # "ok" /\ Current.call = "stream"
  /\ reply = "retryable" => ~allowFallback
  /\ PassOver
  /\ open' = open \ {i}
  /\ UNCHANGED <<fixed, reply, worker, generated, kept>>

WriteAnswer ==
  /\ pc = "write" /\ reply = "ok"
  /\ pc' = IF Current.call = "stream" THEN "copy" ELSE "done"
  /\ Say(i, "answer")
  /\ UNCHANGED <<fixed, i, k, reply, worker, open, generated, kept>>

CopyPiece ==
  /\ pc = "copy" /\ Len(out) <= MaxPieces
  /\ Say(i, "piece")
  /\ UNCHANGED <<fixed, i, pc, k, reply, worker, open, generated, kept>>

(* flushCopy meets the end of the pipe or an error of the worker: either   *)
(* way its result is dropped and the body ends normally.                   *)
CopyEnds ==
  /\ pc = "copy" /\ worker \in {"finished", "failed"}
  /\ Refuse(i, "end")
  /\ UNCHANGED <<fixed, reply, worker, open, generated, kept>>

(* A piece cannot be written: the handler leaves, the worker is still      *)
(* running until its own write or read fails.                              *)
CopyFails ==
  /\ pc = "copy" /\ worker = "running" /\ client = "gone"
  /\ Refuse(i, "end")
  /\ UNCHANGED <<fixed, reply, worker, open, generated, kept>>

-----------------------------------------------------------------------------

ClientLeaves ==
  /\ client = "there" /\ pc # "done"
  /\ client' = "gone"
  /\ UNCHANGED <<request, plan, i, pc, k, reply, worker, open, out, generated, kept>>

(* Steps that depend on nothing but the gateway's own code.                *)
Local ==
  \/ TryNative \/ RewriteFails \/ Untranslatable \/ StreamFlagMalformed
  \/ TryTranslated \/ Exhausted \/ Unreachable \/ Forward
  \/ Prepare \/ PrepareFails \/ StartJob \/ CallRefused \/ CallUpstream
  \/ Understand \/ UnderstandFails \/ Understood \/ PrimeFails
  \/ RetryableReply \/ WriteAnswer \/ CopyEnds

(* Steps that wait for the upstream, which may never answer: no timeout    *)
(* bounds them.                                                            *)
Answers ==
  \/ \E status \in Statuses : ProxyAnswered(status) \/ CallAnswered(status)
  \/ ProxyRetryable \/ RelayPiece \/ RelayEnds \/ ReadBody \/ TooLarge
  \/ RelayError \/ Primed \/ CopyPiece \/ CopyFails

(* The failures that end such a wait when the client's context does.       *)
Breaks ==
  \/ ProxyBreaks \/ RelayBreaks \/ CallBreaks \/ ReadBreaks \/ ErrorUnreadable

Worker == WorkerKeeps \/ WorkerEnds \/ WorkerFails \/ WorkerCloses

(* A request that is over; its worker may still have to end.               *)
Finished == pc = "done" /\ open = {} /\ UNCHANGED vars

Next ==
  \/ Begin \/ BodyUnreadable
  \/ Local \/ Answers \/ Breaks \/ Worker \/ ClientLeaves \/ Finished

Cancelled == client = "gone" \/ pc = "done"

(* The gateway's own steps are taken; what waits for an upstream or for    *)
(* the client's body ends at the latest when the request's context does,   *)
(* which is when the client leaves or the handler has returned.            *)
Fairness ==
  /\ WF_vars(Local)
  /\ WF_vars(Cancelled /\ (Begin \/ BodyUnreadable \/ Breaks \/ RelayError))
  /\ WF_vars(Cancelled /\ WorkerFails)
  /\ WF_vars(WorkerCloses)

Spec == Init /\ [][Next]_vars /\ Fairness

-----------------------------------------------------------------------------
(* The state's type.                                                       *)
TypeOK ==
  /\ request \in Requests
  /\ plan \in Plans
  /\ i \in 1 .. Len(plan) + 1
  /\ pc \in Handler
  /\ k \in Nat \ {0}
  /\ reply \in Statuses \cup {"none"}
  /\ worker \in {"off", "running", "failed", "finished"}
  /\ open \subseteq 1 .. Len(plan)
  /\ out \in Seq([by : 1 .. Gateway, what : Heads \cup Tails])
  /\ generated \subseteq 1 .. Len(plan)
  /\ kept \subseteq 1 .. Len(plan)
  /\ client \in {"there", "gone"}

(* The client hears one voice: one status line, first, and then only the   *)
(* body of the same attempt, with nothing after its end (the loops of the  *)
(* handlers, ServeHTTPTo's contract, writeError).                          *)
OneVoice ==
  \A n \in 1 .. Len(out) :
    /\ out[n].by = out[1].by
    /\ out[n].what \in Heads <=> n = 1
    /\ out[n].what \in {"end", "abort"} => n = Len(out)

(* What the client is told is what happened: "all targets failed" only     *)
(* when every one was given up and none kept anything; a feature that no   *)
(* target supports and a retryable status only of the last target; an      *)
(* answer or a translation error only of a target that generated (or whose *)
(* job was queued); and whoever kept the turn is the one that is heard.    *)
VerdictJustified ==
  out # <<>> =>
    LET first == out[1] IN
    /\ first.what = "exhausted" => i = Gateway /\ kept = {}
    /\ first.what \in {"unsupported", "retryable"} => first.by = Len(plan)
    /\ first.what = "answer" => first.by \in generated \cup kept
    /\ first.what = "translation" => first.by \in generated
    /\ kept # {} => kept = {first.by} /\ first.what \in {"answer", "translation"}

(* A request has one upstream reply open at a time: an attempt's reply is  *)
(* closed before the next target is tried (the deferred Close calls).      *)
OneOpen == open \subseteq {i}

(* The promise of the README and of COMPATIBILITY.md.                      *)
Promise == INSTANCE OneAnswer WITH
  targets <- Len(plan),
  passed <- i - 1,
  author <- IF out = <<>> THEN 0 ELSE out[1].by,
  keepers <- kept

KeepsPromise == Promise!Spec

(* A handler whose client has left returns, even from upstreams that never *)
(* answer (the request's context reaches every call).                      *)
HandlerReturns == client = "gone" ~> pc = "done"

(* After the handler has returned every upstream reply gets closed and the *)
(* worker ends: neither a connection nor a goroutine is leaked             *)
(* (translateStream, prefixedReadCloser).                                  *)
NothingLeaks == pc = "done" ~> (open = {} /\ worker # "running")

(* compatibility.go:29-31: after an upstream request succeeded the callers *)
(* must not fall back, as that could duplicate a completed generation.     *)
OneGeneration == Cardinality(generated) <= 1
=============================================================================
