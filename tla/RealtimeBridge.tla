--------------------------- MODULE RealtimeBridge ---------------------------
(***************************************************************************)
(* A realtime session (transport/realtime/gemini.go): Gemini is dialled,   *)
(* then the client's request is upgraded, then two goroutines copy in      *)
(* opposite directions until the first of them ends, and runSession closes *)
(* both connections.  serveRealtimeWebSocket tries the next target as long *)
(* as the client's request was not upgraded.                               *)
(***************************************************************************)
EXTENDS WebSocket, RealtimeSession

CONSTANTS
  ClientMessages,   \* the messages looked at, numbered 0, of rough peers and of others
  GeminiMessages    \* the messages looked at, with piece 0, likewise

ASSUME RealtimeBounds ==
  /\ ClientMessages \in [BOOLEAN -> SUBSET ClientMessage]
  /\ GeminiMessages \in [BOOLEAN -> SUBSET ServerMessage]

VARIABLES
  pc,           \* where each goroutine is
  attempt,      \* the target being tried
  asking,       \* the client's message, from ReadText until it was written
  answering,    \* Gemini's message
  events,       \* what of it is still to be encoded, under RealtimeSessionBridge.mu
  outgoing,     \* what of it is still to be written
  errCh,        \* how the copiers ended
  setupReady,   \* the channel is closed
  heard,        \* what Gemini has sent and read
  shown         \* what the client has sent and read

vars == <<peers, conn, step, session, decoder, encoder, pc, attempt, asking, answering,
          events, outgoing, errCh, setupReady, heard, shown>>

Copiers == {"client", "gemini"}

RunPlaces == {"dial", "accept", "greet", "serve", "report", "closeDown",
              "closeUp", "returned", "refused"}

CopierPlaces == {"off", "read", "pong", "echo", "translate", "pending", "encode",
                 "text", "ended"}

Writing == {"greet", "report", "closeDown", "closeUp", "pong", "echo", "text"}

(* What the readers at both ends make of what they get.  Faults are frames *)
(* they cannot place.  Of the calls that messages for Gemini carried       *)
(* ("named"), those in a result are answered.                              *)
Heard == [sent : Nat, ready : BOOLEAN, asked : SUBSET Calls, answered : SUBSET Calls,
          named : SUBSET Calls, pieces : Nat, setup : BOOLEAN, received : Nat, faults : SUBSET {"early", "order", "stray"}]

Shown == [sent : Nat, greeted : BOOLEAN, live : BOOLEAN, item : ItemKinds \cup {"none"},
          items : Seq(ItemKinds), pieces : Nat, calls : SUBSET Calls,
          faults : SUBSET {"early", "order", "stray"}]

(* What the copiers hold between two messages.                             *)
NoQuestion == [kind |-> "empty", call |-> NoCall, n |-> 0]
NoAnswer == [type |-> "foreign", media |-> {}, complete |-> "no",
             calls |-> <<>>, usage |-> FALSE, piece |-> 0]

Init ==
  /\ peers \in Peers
  /\ conn = [c \in Ends |-> NoConn]
  /\ step = [g \in Goroutines |-> "idle"]
  /\ InitSession
  /\ pc = [g \in Goroutines |-> IF g = "run" THEN "dial" ELSE "off"]
  /\ attempt = 1
  /\ asking = NoQuestion /\ answering = NoAnswer
  /\ events = <<>> /\ outgoing = <<>>
  /\ errCh = <<>>
  /\ setupReady = FALSE
  /\ heard = [sent |-> 0, ready |-> FALSE, asked |-> {}, answered |-> {},
              named |-> {}, pieces |-> 0, setup |-> FALSE, received |-> 0, faults |-> {}]
  /\ shown = [sent |-> 0, greeted |-> FALSE, live |-> FALSE, item |-> "none",
              items |-> <<>>, pieces |-> 0, calls |-> {}, faults |-> {}]

-----------------------------------------------------------------------------
(* Writing.                                                                *)

ReadsFrom(g) == IF g = "client" THEN "down" ELSE "up"

WritesTo(g) ==
  CASE g = "run" -> IF pc["run"] = "closeUp" THEN "up" ELSE "down"
    [] g = "client" -> IF pc["client"] = "text" THEN "up" ELSE "down"
    [] OTHER -> IF pc["gemini"] = "text" THEN "down" ELSE "up"

(* Control frames are written without a deadline of their own.             *)
Begins(place) ==
  IF place \in {"pong", "echo"} THEN "lock"
  ELSE IF place \in Writing THEN "deadline" ELSE "idle"

Goes(g, place) ==
  /\ pc' = [pc EXCEPT ![g] = place]
  /\ step' = [step EXCEPT ![g] = Begins(place)]

(* The copier returns its error to runSession.                             *)
Returns(g, how) ==
  /\ Goes(g, "ended")
  /\ errCh' = Append(errCh, how)
  /\ asking' = IF g = "client" THEN NoQuestion ELSE asking
  /\ answering' = IF g = "gemini" THEN NoAnswer ELSE answering
  /\ events' = IF g = "gemini" THEN <<>> ELSE events
  /\ outgoing' = IF g = "gemini" THEN <<>> ELSE outgoing

(* Mutant: Close waits for the peer as long as the peer likes.             *)
DeadlineOfReportsOnly(g) ==
  IF pc[g] = "report" THEN "armed" ELSE Cleared(WritesTo(g))

(* The error event and Close have a second, the rest has no limit.         *)
DeadlineOf(g) ==
  IF pc[g] \in {"report", "closeDown", "closeUp"} THEN "armed" ELSE Cleared(WritesTo(g))

AppliesDeadline(g) ==
  /\ conn[WritesTo(g)].open
  /\ SetDeadline(g, WritesTo(g), DeadlineOf(g))
  /\ UNCHANGED <<peers, session, decoder, encoder, pc, attempt, asking, answering, events,
                 outgoing, errCh, setupReady, heard, shown>>

Locks(g) ==
  /\ LockWriter(g, WritesTo(g))
  /\ UNCHANGED <<peers, session, decoder, encoder, pc, attempt, asking, answering, events,
                 outgoing, errCh, setupReady, heard, shown>>

(* Of a text, also that it is larger than the limit.                       *)
RefusesText(g) ==
  /\ g \in Copiers /\ pc[g] = "text" /\ step[g] = "deadline"
  /\ Returns(g, "failed")
  /\ UNCHANGED <<peers, conn, session, decoder, encoder, attempt, setupReady, heard, shown>>

-----------------------------------------------------------------------------
(* serveRealtimeWebSocket, ServeOpenAIRealtimeToGemini and runSession.     *)

NextTarget ==
  IF attempt < peers.targets
  THEN attempt' = attempt + 1 /\ Goes("run", "dial")
  ELSE attempt' = attempt /\ Goes("run", "refused")

Dialled ==
  /\ pc["run"] = "dial"
  /\ conn' = [conn EXCEPT !["up"] = NewConn]
  /\ Goes("run", "accept")
  /\ UNCHANGED <<peers, session, decoder, encoder, attempt, asking, answering, events,
                 outgoing, errCh, setupReady, heard, shown>>

(* No credential, no connection, or no upgrade.                            *)
DialFails ==
  /\ pc["run"] = "dial"
  /\ NextTarget
  /\ UNCHANGED <<peers, conn, session, decoder, encoder, asking, answering, events,
                 outgoing, errCh, setupReady, heard, shown>>

Accepted ==
  /\ pc["run"] = "accept"
  /\ conn' = [conn EXCEPT !["down"] = NewConn]
  /\ Goes("run", "greet")
  /\ UNCHANGED <<peers, session, decoder, encoder, attempt, asking, answering, events,
                 outgoing, errCh, setupReady, heard, shown>>

AcceptFails ==
  /\ pc["run"] = "accept"
  /\ conn' = [conn EXCEPT !["up"] = NoConn]
  /\ NextTarget
  /\ UNCHANGED <<peers, session, decoder, encoder, asking, answering, events,
                 outgoing, errCh, setupReady, heard, shown>>

(* session.created was written: the copiers start.                         *)
Greeted ==
  /\ pc["run"] = "greet"
  /\ Flush("run", "down")
  /\ pc' = [g \in Goroutines |-> IF g = "run" THEN "serve" ELSE "read"]
  /\ step' = [step EXCEPT !["run"] = "idle"]
  /\ shown' = [shown EXCEPT !.greeted = TRUE]
  /\ UNCHANGED <<peers, session, decoder, encoder, attempt, asking, answering, events,
                 outgoing, errCh, setupReady, heard>>

(* The deferred closes run in reverse order.                               *)
GreetFails ==
  /\ pc["run"] = "greet"
  /\ FlushFails("run", "down")
  /\ Goes("run", "closeUp")
  /\ UNCHANGED <<peers, session, decoder, encoder, attempt, asking, answering, events,
                 outgoing, errCh, setupReady, heard, shown>>

(* The first copier to end decides whether the client is told.             *)
Ending ==
  /\ pc["run"] = "serve" /\ errCh # <<>>
  /\ Goes("run", IF Head(errCh) = "failed" THEN "report" ELSE "closeDown")
  /\ UNCHANGED <<peers, conn, session, decoder, encoder, attempt, asking, answering, events,
                 outgoing, errCh, setupReady, heard, shown>>

Reported ==
  /\ pc["run"] = "report"
  /\ Flush("run", "down") \/ FlushFails("run", "down")
  /\ Goes("run", "closeDown")
  /\ UNCHANGED <<peers, session, decoder, encoder, attempt, asking, answering, events,
                 outgoing, errCh, setupReady, heard, shown>>

(* Conn.Close: whatever becomes of the close frame, nothing is left.       *)
Closes(c, other, place) ==
  /\ step["run"] = "flush"
  /\ Dead(c) \/ conn[c].taking
  /\ conn' = [conn EXCEPT ![c] = NoConn]
  /\ Goes("run", IF conn[other].open THEN place ELSE "returned")
  /\ UNCHANGED <<peers, session, decoder, encoder, attempt, asking, answering, events,
                 outgoing, errCh, setupReady, heard, shown>>

ClosesDown == pc["run"] = "closeDown" /\ Closes("down", "up", "closeUp")
ClosesUp == pc["run"] = "closeUp" /\ Closes("up", "down", "closeDown")

Cancelled == pc["run"] \in {"closeDown", "closeUp", "returned"}

-----------------------------------------------------------------------------
(* What both copiers do: ReadText.                                         *)

Ping(g) ==
  /\ pc[g] = "read"
  /\ PingFrame(ReadsFrom(g))
  /\ Goes(g, "pong")
  /\ UNCHANGED <<peers, session, decoder, encoder, attempt, asking, answering, events,
                 outgoing, errCh, setupReady, heard, shown>>

Ponged(g) ==
  /\ pc[g] = "pong"
  /\ Flush(g, ReadsFrom(g))
  /\ Goes(g, "read")
  /\ UNCHANGED <<peers, session, decoder, encoder, attempt, asking, answering, events,
                 outgoing, errCh, setupReady, heard, shown>>

CloseFrame(g) ==
  /\ pc[g] = "read" /\ Readable(ReadsFrom(g))
  /\ Goes(g, "echo")
  /\ UNCHANGED <<peers, conn, session, decoder, encoder, attempt, asking, answering, events,
                 outgoing, errCh, setupReady, heard, shown>>

(* ErrClosed, whether or not the peer gets its close frame back.           *)
Echoed(g) ==
  /\ pc[g] = "echo"
  /\ Flush(g, ReadsFrom(g)) \/ FlushFails(g, ReadsFrom(g))
  /\ Returns(g, "clean")
  /\ UNCHANGED <<peers, session, decoder, encoder, attempt, setupReady, heard, shown>>

WriteFails(g) ==
  /\ pc[g] \in {"pong", "text"}
  /\ FlushFails(g, WritesTo(g))
  /\ Returns(g, "failed")
  /\ UNCHANGED <<peers, session, decoder, encoder, attempt, setupReady, heard, shown>>

Fragment(g) ==
  /\ pc[g] = "read"
  /\ FirstFragment(ReadsFrom(g))
  /\ UNCHANGED <<peers, step, session, decoder, encoder, pc, attempt, asking, answering, events,
                 outgoing, errCh, setupReady, heard, shown>>

(* A frame out of place or of an unknown kind, a message above the limit,  *)
(* or the end of the stream.                                               *)
ReadFails(g) ==
  /\ pc[g] = "read"
  /\ Returns(g, "failed")
  /\ UNCHANGED <<peers, conn, session, decoder, encoder, attempt, setupReady, heard, shown>>

-----------------------------------------------------------------------------
(* clientToGemini.                                                         *)

Rough == peers.rough # {}

MuFree == events = <<>>

ClientAsks ==
  /\ pc["client"] = "read"
  /\ shown.sent < peers.asks
  /\ LastFragment("down")
  /\ \E m \in ClientMessages[Rough] : asking' = [m EXCEPT !.n = shown.sent + 1]
  /\ shown' = [shown EXCEPT !.sent = @ + 1]
  /\ Goes("client", "translate")
  /\ UNCHANGED <<peers, session, decoder, encoder, attempt, answering, events,
                 outgoing, errCh, setupReady, heard>>

ClientRefused ==
  /\ pc["client"] = "translate" /\ MuFree
  /\ Refused(asking)
  /\ Returns("client", "failed")
  /\ UNCHANGED <<peers, conn, session, decoder, encoder, attempt, setupReady, heard, shown>>

ClientWaits ==
  /\ pc["client"] = "translate" /\ MuFree
  /\ Pending(asking)
  /\ Goes("client", "pending")
  /\ UNCHANGED <<peers, conn, session, decoder, encoder, attempt, asking, answering, events,
                 outgoing, errCh, setupReady, heard, shown>>

ClientRetries ==
  /\ pc["client"] = "pending" /\ setupReady
  /\ Goes("client", "translate")
  /\ UNCHANGED <<peers, conn, session, decoder, encoder, attempt, asking, answering, events,
                 outgoing, errCh, setupReady, heard, shown>>

ClientCancelled ==
  /\ pc["client"] = "pending" /\ Cancelled
  /\ Returns("client", "clean")
  /\ UNCHANGED <<peers, conn, session, decoder, encoder, attempt, setupReady, heard, shown>>

ClientTranslated ==
  /\ pc["client"] = "translate" /\ MuFree
  /\ ~Refused(asking) /\ ~Pending(asking)
  /\ session' = Translated(asking)
  /\ Goes("client", "text")
  /\ UNCHANGED <<peers, conn, decoder, encoder, attempt, asking, answering, events,
                 outgoing, errCh, setupReady, heard, shown>>

(* Gemini reads message m.                                                 *)
HeardBlames(m) ==
  (IF m.n # heard.received + 1 THEN {"order"} ELSE {})
    \cup (IF m.kind # "setup" /\ ~heard.ready THEN {"early"} ELSE {})
    \cup (IF \/ m.kind = "setup" /\ heard.setup
             \/ m.kind = "result" /\ m.call \notin heard.asked \ heard.answered
          THEN {"stray"} ELSE {})

Answers(m) == IF m.kind = "result" THEN {m.call} ELSE {}

Forwarded ==
  /\ pc["client"] = "text"
  /\ Flush("client", "up")
  /\ Goes("client", "read")
  /\ heard' = [heard EXCEPT !.received = @ + 1, !.setup = @ \/ asking.kind = "setup",
                            !.answered = @ \cup Answers(asking),
                            !.named = @ \cup ({asking.call} \ {NoCall}),
                            !.faults = @ \cup HeardBlames(asking)]
  /\ asking' = NoQuestion
  /\ UNCHANGED <<peers, session, decoder, encoder, attempt, answering, events,
                 outgoing, errCh, setupReady, shown>>

-----------------------------------------------------------------------------
(* geminiToClient.                                                         *)

(* Gemini gives each call an id of its own.                                *)
Fresh(m) ==
  /\ \A k \in DOMAIN m.calls : m.calls[k] \notin heard.asked
  /\ \A j, k \in DOMAIN m.calls : m.calls[j] = m.calls[k] => j = k

GeminiAnswers ==
  /\ pc["gemini"] = "read"
  /\ heard.sent < peers.answers
  /\ LastFragment("up")
  /\ \E m \in GeminiMessages[Rough] :
       /\ Fresh(m)
       /\ answering' = [m EXCEPT !.piece = heard.pieces + 1]
       /\ heard' = [heard EXCEPT !.sent = @ + 1,
                                 !.ready = @ \/ m.type = "setupComplete",
                                 !.asked = @ \cup {m.calls[k] : k \in DOMAIN m.calls},
                                 !.pieces = IF m.media = {} THEN @ ELSE @ + 1]
  /\ Goes("gemini", "translate")
  /\ UNCHANGED <<peers, session, decoder, encoder, attempt, asking, events,
                 outgoing, errCh, setupReady, shown>>

GeminiRefused ==
  /\ pc["gemini"] = "translate"
  /\ Unportable(answering)
  /\ session' = IF \/ answering.type = "foreign"
                   \/ answering.type = "setupComplete" /\ ~session.setupSent
                THEN session ELSE SessionAfter(answering)
  /\ Returns("gemini", "failed")
  /\ UNCHANGED <<peers, conn, decoder, encoder, attempt, setupReady, heard, shown>>

GeminiDecoded ==
  /\ pc["gemini"] = "translate"
  /\ ~Unportable(answering)
  /\ session' = SessionAfter(answering)
  /\ decoder' = DecoderAfter(answering)
  /\ events' = Decoded(answering)
  /\ answering' = NoAnswer
  /\ Goes("gemini", "encode")
  /\ UNCHANGED <<peers, conn, encoder, attempt, asking,
                 outgoing, errCh, setupReady, heard, shown>>

EncodesEvent ==
  /\ pc["gemini"] = "encode" /\ events # <<>>
  /\ ~EncoderRefuses(Head(events))
  /\ encoder' = EncoderAfter(Head(events))
  /\ outgoing' = outgoing \o Encoded(Head(events))
  /\ events' = Tail(events)
  /\ UNCHANGED <<peers, conn, step, session, decoder, pc, attempt, asking, answering,
                 errCh, setupReady, heard, shown>>

EncodeFails ==
  /\ pc["gemini"] = "encode" /\ events # <<>>
  /\ EncoderRefuses(Head(events))
  /\ Returns("gemini", "failed")
  /\ UNCHANGED <<peers, conn, session, decoder, encoder, attempt, setupReady, heard, shown>>

(* ServerMessage has returned.                                             *)
Announces ==
  /\ pc["gemini"] = "encode" /\ events = <<>>
  /\ setupReady' = (setupReady \/ session.setupComplete)
  /\ Goes("gemini", IF outgoing = <<>> THEN "read" ELSE "text")
  /\ UNCHANGED <<peers, conn, session, decoder, encoder, attempt, asking, answering, events,
                 outgoing, errCh, heard, shown>>

(* The client reads the event of payload p.                                *)
Misplaced(p) ==
  CASE p.event.type = "response_start" -> shown.live
    [] p.event.type = "content_start" ->
         ~shown.live \/ shown.item # "none" \/ p.at # Len(shown.items)
    [] p.event.type = "delta" -> shown.item # p.event.kind \/ p.at # Len(shown.items)
    [] p.event.type = "content_stop" -> shown.item = "none" \/ p.at # Len(shown.items)
    [] OTHER -> ~shown.live \/ shown.item # "none" \/ p.output # shown.items

Piece(p) == p.event.type = "delta" /\ p.event.kind # "tool"

ShownBlames(p) ==
  (IF ~shown.greeted THEN {"early"} ELSE {})
    \cup (IF Piece(p) /\ p.event.piece # shown.pieces + 1 THEN {"order"} ELSE {})
    \cup (IF Misplaced(p) THEN {"stray"} ELSE {})

Reader(p) ==
  [shown EXCEPT
     !.live = CASE p.event.type = "response_start" -> TRUE
                [] p.event.type = "response_stop" -> FALSE
                [] OTHER -> @,
     !.item = CASE p.event.type = "content_start" -> p.event.kind
                [] p.event.type = "content_stop" -> "none"
                [] OTHER -> @,
     !.items = CASE p.event.type = "response_start" -> <<>>
                 [] p.event.type = "content_stop" /\ shown.item # "none" ->
                      Append(@, shown.item)
                 [] OTHER -> @,
     !.pieces = IF Piece(p) THEN p.event.piece ELSE @,
     !.calls = @ \cup ({p.event.call} \ {NoCall}),
     !.faults = @ \cup ShownBlames(p)]

Passed ==
  /\ pc["gemini"] = "text"
  /\ Flush("gemini", "down")
  /\ shown' = Reader(Head(outgoing))
  /\ outgoing' = Tail(outgoing)
  /\ Goes("gemini", IF Tail(outgoing) = <<>> THEN "read" ELSE "text")
  /\ UNCHANGED <<peers, session, decoder, encoder, attempt, asking, answering, events,
                 errCh, setupReady, heard>>

-----------------------------------------------------------------------------

Outside ==
  /\ \E c \in Ends : \/ PeerLost(c) \/ PeerStopsReading(c) \/ PeerReadsAgain(c)
  /\ UNCHANGED <<peers, step, session, decoder, encoder, pc, attempt, asking, answering, events,
                 outgoing, errCh, setupReady, heard, shown>>

Clock(c) ==
  /\ DeadlineExpires(c)
  /\ UNCHANGED <<peers, step, session, decoder, encoder, pc, attempt, asking, answering, events,
                 outgoing, errCh, setupReady, heard, shown>>

Starts == Dialled \/ DialFails \/ Accepted \/ AcceptFails

Run == Greeted \/ GreetFails \/ Ending \/ Reported \/ ClosesDown \/ ClosesUp

FromClient ==
  ClientRefused \/ ClientWaits \/ ClientRetries \/ ClientCancelled \/ ClientTranslated \/ Forwarded

FromGemini ==
  GeminiRefused \/ GeminiDecoded \/ EncodesEvent \/ EncodeFails \/ Announces \/ Passed

Reads(g) == Ping(g) \/ CloseFrame(g) \/ Fragment(g) \/ ReadFails(g)

Replies(g) == Ponged(g) \/ Echoed(g) \/ WriteFails(g)

Over ==
  /\ pc["run"] \in {"returned", "refused"}
  /\ \A g \in Copiers : pc[g] \in {"off", "ended"}

Done == Over /\ UNCHANGED vars

Next ==
  \/ Starts \/ Run
  \/ ClientAsks \/ FromClient
  \/ GeminiAnswers \/ FromGemini
  \/ \E g \in Goroutines : AppliesDeadline(g) \/ Locks(g)
  \/ \E g \in Copiers : Reads(g) \/ Replies(g) \/ RefusesText(g)
  \/ Outside
  \/ \E c \in Ends : Clock(c)
  \/ Done

Spec == Init /\ [][Next]_vars

(* A read of a connection that is closed or lost returns.                  *)
ReadReturns(g) == ~Readable(ReadsFrom(g)) /\ ReadFails(g)

(* What the gateway does of its own.                                       *)
Scheduled(g) ==
  \/ g = "run" /\ Run
  \/ g = "client" /\ FromClient
  \/ g = "gemini" /\ FromGemini
  \/ AppliesDeadline(g)
  \/ Locks(g)
  \/ g \in Copiers /\ Replies(g)
  \/ g \in Copiers /\ ReadReturns(g)
  \/ DeadlineRefused(g, WritesTo(g)) /\ RefusesText(g)

Gateway == (\E g \in Goroutines : Scheduled(g)) \/ (\E c \in Ends : Clock(c))

(* A goroutine that can run does, and time passes.  (All it does between   *)
(* two frames of the peers is bounded, so no goroutine keeps another one   *)
(* from running for ever.)                                                 *)
Fairness == WF_vars(Gateway)

FairSpec == Spec /\ Fairness

-----------------------------------------------------------------------------
(* Properties.                                                             *)

(* The session's structures keep their shapes, and a goroutine holds the   *)
(* writer of a connection exactly while it writes a frame to it.           *)
TypeOK ==
  /\ peers \in Peers
  /\ conn \in [Ends -> Conn]
  /\ step \in [Goroutines -> Steps]
  /\ session \in Session /\ decoder \in Decoder /\ encoder \in Encoder
  /\ pc \in [Goroutines -> RunPlaces \cup CopierPlaces]
  /\ attempt \in 1 .. peers.targets
  /\ asking \in ClientMessage /\ answering \in ServerMessage
  /\ events \in Seq(Event) /\ outgoing \in Seq(Payload)
  /\ errCh \in Seq({"clean", "failed"}) /\ Len(errCh) <= 2
  /\ setupReady \in BOOLEAN
  /\ heard \in Heard /\ shown \in Shown
  /\ \A g \in Goroutines, c \in Ends :
       conn[c].writeMu = g <=> (step[g] = "flush" /\ WritesTo(g) = c)

(* A call the client was shown stays known until a message that carries it *)
(* is on its way, so the first to do so is never refused as unknown, and an*)
(* answer that waits for setupComplete finds its call when it is retried.  *)
(* (That this message need not be its result is ResultsDelivered.)         *)
CallsAnswerable ==
  pc["client"] # "ended" =>
    shown.calls \subseteq
      session.toolCalls \cup heard.named
        \cup (IF pc["client"] = "text" THEN {asking.call} ELSE {})

(* Each side reads a dialogue of its own protocol, whatever the goroutines *)
(* do in between: Gemini gets its setup first, nothing more before it has  *)
(* sent setupComplete, the client's messages in order and once, and one    *)
(* result per call it made; the client gets session.created first, one     *)
(* response at a time, its items opened, filled and closed in order, every *)
(* piece once, and a response.done that lists what it saw.                 *)
InOrder ==
  /\ heard.faults = {}
  /\ shown.faults = {}
  /\ CallsAnswerable

(* README.md 36 and COMPATIBILITY.md 44: function-call results are         *)
(* preserved, and what is not supported fails rather than being silently   *)
(* discarded.  So an output the bridge let through has reached Gemini as   *)
(* the result of its call, or can still be given.  The code does not keep  *)
(* this: realtime_session.go:78 forgets the call of any event with an item.*)
ResultsDelivered == heard.named \subseteq heard.answered \cup session.toolCalls

(* A goroutine writes, without a limit, to a peer that does not read.      *)
Stuck(c, deadlines) ==
  /\ conn[c].writeMu # "nobody" /\ ~conn[c].taking /\ ~Dead(c)
  /\ conn[c].deadline \in deadlines

(* Once a copier has ended, both end and the session is closed, although   *)
(* a peer may not read: Close waits a second at most, unless the other     *)
(* copier has just taken that limit away.  And once a peer is gone a copier*)
(* does end, unless it is waiting for setupComplete or for the other peer. *)
SessionCloses ==
  /\ errCh # <<>> ~> Over \/ \E c \in Ends : Stuck(c, {"cleared"})
  /\ conn["down"].open /\ (\E c \in Ends : conn[c].lost) ~>
       Over \/ pc["client"] = "pending" \/ \E c \in Ends : Stuck(c, {"none", "cleared"})
=============================================================================
