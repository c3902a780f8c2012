---------------------------- MODULE StreamEvents ----------------------------
(***************************************************************************)
(* A translated stream: the upstream's SSE events are decoded into the     *)
(* canonical events of internal/domain/llm/stream.go, which are encoded in *)
(* the client's format.  This module has the canonical events, the         *)
(* upstream that sends, and the client that reads; StreamDecoders,         *)
(* StreamEncoders and ResponseStream are the code between them.            *)
(*                                                                         *)
(* Text, reasoning and tool arguments are sequences of pieces, numbered in *)
(* the order the upstream sends them; Empty is the empty string.           *)
(***************************************************************************)
EXTENDS Naturals, Sequences

CONSTANTS
  MaxBlocks,    \* bound on the content blocks of a stream
  MaxPieces,    \* bound on the pieces the upstream sends
  MaxUnlawful,  \* bound on the events of an upstream that breaks its format
  Pipes         \* the translations to look at

ASSUME StreamBounds ==
  /\ MaxBlocks \in Nat \ {0}
  /\ MaxPieces \in Nat /\ MaxUnlawful \in Nat

Indexes == 0 .. MaxBlocks - 1
NoBlock == MaxBlocks
Empty == 0
Pieces(p) == IF p = Empty THEN <<>> ELSE <<p>>

Kinds == {"text", "reasoning", "tool"}

(* stop_sequence is treated like end_turn by every codec.                  *)
Reasons == {"end_turn", "tool_use", "max_tokens", "content_block"}

(* What a usage record counts that not every format has a field for.       *)
Counts == {"plain", "cache_write", "reasoning_tokens"}

Types == {"response_start", "content_start", "text_delta", "reasoning_delta",
          "tool_call_start", "tool_call_delta", "content_stop", "usage",
          "response_stop", "error"}

Event ==
  {e \in [type : Types, index : Indexes, kind : Kinds \cup Counts \cup {"none"},
           piece : Nat, reason : Reasons \cup {"none"}] :
     e.type \in {"content_start", "tool_call_start"} => e.kind \in Kinds}

Plain(type) ==
  [type |-> type, index |-> 0, kind |-> "none", piece |-> Empty, reason |-> "none"]

ResponseStart == Plain("response_start")
StreamError == Plain("error")
Usage(counts) == [Plain("usage") EXCEPT !.kind = counts]
ResponseStop(reason) == [Plain("response_stop") EXCEPT !.reason = reason]
ContentStop(i) == [Plain("content_stop") EXCEPT !.index = i]

(* A tool call starts with an event of its own, the other blocks share one.*)
ContentStart(i, kind, p) ==
  [Plain(IF kind = "tool" THEN "tool_call_start" ELSE "content_start")
     EXCEPT !.index = i, !.kind = kind, !.piece = p]

Delta(i, kind, p) ==
  [Plain(CASE kind = "text" -> "text_delta"
           [] kind = "reasoning" -> "reasoning_delta"
           [] OTHER -> "tool_call_delta")
     EXCEPT !.index = i, !.kind = kind, !.piece = p]

-----------------------------------------------------------------------------

VARIABLES
  pipe,    \* the translation: its two formats, its options, its upstream's manners
  up,      \* the upstream: how far it is and what it has sent
  stage,   \* what the translating goroutine does next
  queue,   \* events decoded and not yet passed on
  view     \* what the client has read

Routes ==
  {<<"anthropic", "chat">>, <<"anthropic", "responses">>, <<"anthropic", "gemini">>,
   <<"openai", "messages">>, <<"openai", "gemini">>,
   <<"gemini", "chat">>, <<"gemini", "responses">>, <<"gemini", "messages">>}

(* held: stream_options.buffer_refusals; stores: the request keeps a turn; *)
(* lawful: the upstream keeps to its documented format until it breaks off;*)
(* named: it gives its response an id; broken: the blocks whose arguments  *)
(* will not be a JSON object.                                              *)
AllPipes ==
  {q \in [from : {"anthropic", "openai", "gemini"},
          to : {"chat", "responses", "messages", "gemini"},
          held : BOOLEAN, stores : BOOLEAN, lawful : BOOLEAN, named : BOOLEAN,
          broken : SUBSET Indexes] :
     /\ <<q.from, q.to>> \in Routes
     /\ q.to # "responses" => ~q.held /\ ~q.stores
     /\ ~q.stores => q.named
     /\ q.lawful => q.broken = {}}

ASSUME SomePipes == Pipes \subseteq AllPipes

Stages == {"read", "accept", "persist", "encode", "release", "ended", "failed"}

(* The parts of an answer, as sent and as read: its blocks in order, `at'  *)
(* naming a block among the others, `whole' what its closing event repeats.*)
Block == [at : Nat, kind : Kinds \cup {"refusal"}, data : Seq(Nat),
          done : BOOLEAN, whole : Seq(Nat)]

Opened(at, kind, data) ==
  [at |-> at, kind |-> kind, data |-> data, done |-> FALSE, whole |-> <<>>]

Phases == {"idle", "message", "stopping", "over"}

Upstream == [reads : Nat, pieces : Nat, phase : Phases, next : Nat,
             open : Kinds \cup {"none"}, reported : BOOLEAN, sent : Seq(Block)]

(* faults: frames that no reader of the format can place.                  *)
Faults == {"early", "late", "stray"}
Statuses == {"completed", "incomplete", "failed"}
View == [begun : Nat, items : Seq(Block), faults : SUBSET Faults,
         ends : Seq([status : Statuses, reason : Reasons \cup {"none"}, output : Seq(Block)])]

-----------------------------------------------------------------------------
(* The upstream.                                                           *)

Reading(from) ==
  /\ stage = "read" /\ pipe.from = from
  /\ pipe.lawful \/ up.reads < MaxUnlawful

(* The empty string, or the next piece.                                    *)
NextPiece ==
  {Empty} \cup (IF up.pieces < MaxPieces THEN {up.pieces + 1} ELSE {})

(* What is recorded of an event, for an upstream whose format says what it *)
(* means; of any other only that it was sent.                              *)
Sends(u) ==
  up' = IF pipe.lawful THEN u
                       ELSE [up EXCEPT !.reads = @ + 1, !.pieces = u.pieces]

(* An upstream that keeps its format sends this only in these phases.      *)
Lawful(phases) == pipe.lawful => up.phase \in phases

Says(phase) == Sends([up EXCEPT !.phase = phase])

(* Piece p of block `at' is sent.                                          *)
Adding(at, kind, p) ==
  LET known == \E k \in DOMAIN up.sent : up.sent[k].at = at
      grown == [k \in DOMAIN up.sent |->
                  IF up.sent[k].at = at
                  THEN [up.sent[k] EXCEPT !.data = @ \o Pieces(p)] ELSE up.sent[k]]
  IN [up EXCEPT !.phase = "message",
                !.pieces = IF p = Empty THEN @ ELSE p,
                !.sent = IF known THEN grown ELSE Append(@, Opened(at, kind, Pieces(p)))]

(* The decoder passes events on, or returns an error.                      *)
Emit(events) ==
  /\ queue' = events
  /\ stage' = IF events = <<>> THEN "read" ELSE "accept"

Fail ==
  /\ stage' = "failed"
  /\ queue' = <<>>

-----------------------------------------------------------------------------
(* The client: how a reader of its format takes what is written.           *)

IsOpen(at) == \E k \in DOMAIN view.items : view.items[k].at = at /\ ~view.items[k].done

Blames(misplaced) ==
  (IF view.ends # <<>> THEN {"late"} ELSE {})
    \cup (IF view.begun = 0 THEN {"early"} ELSE {})
    \cup (IF misplaced THEN {"stray"} ELSE {})

WriteBegin ==
  view' = [view EXCEPT !.begun = @ + 1,
                       !.faults = @ \cup (Blames(view.begun > 0) \ {"early"})]

WriteItem(at, kind, data) ==
  view' = [view EXCEPT !.items = Append(@, Opened(at, kind, data)),
                       !.faults = @ \cup Blames(IsOpen(at))]

(* The items once piece p has reached the open one named `at', and once    *)
(* that one is closed.                                                     *)
Grown(at, p) ==
  [k \in DOMAIN view.items |->
     IF view.items[k].at = at /\ ~view.items[k].done
     THEN [view.items[k] EXCEPT !.data = @ \o Pieces(p)] ELSE view.items[k]]

Finished(at, whole) ==
  [k \in DOMAIN view.items |->
     IF view.items[k].at = at /\ ~view.items[k].done
     THEN [view.items[k] EXCEPT !.done = TRUE, !.whole = whole] ELSE view.items[k]]

WriteDelta(at, p) ==
  view' = [view EXCEPT !.items = Grown(at, p), !.faults = @ \cup Blames(~IsOpen(at))]

WriteDone(at, whole) ==
  view' = [view EXCEPT !.items = Finished(at, whole), !.faults = @ \cup Blames(~IsOpen(at))]

WriteEnd(status, reason, output) ==
  view' = [view EXCEPT
    !.ends = Append(@, [status |-> status, reason |-> reason, output |-> output]),
    !.faults = @ \cup Blames(FALSE)]
=============================================================================
