---------------------------- MODULE Transcripts ----------------------------
(***************************************************************************)
(* What models were told and what clients may continue: conversations and  *)
(* stored responses.  A turn (one Responses request) loads a transcript,   *)
(* has it continued by a provider, and writes the longer one back over     *)
(* whatever the store then holds.  The management endpoints do the same    *)
(* with the metadata of a conversation, in the same record.                *)
(*                                                                         *)
(* A transcript is the sequence of the turns in it: a turn stands for the  *)
(* client's messages and the answer to them.  The items a conversation may *)
(* be created with, and instructions, which are never stored, are left     *)
(* out.  The jobs of background turns are BackgroundResponses; here such a *)
(* turn is one whose answer is polled.                                     *)
(***************************************************************************)
EXTENDS Naturals, Sequences, FiniteSets

CONSTANTS
  Turns,          \* requests, which also name the responses they store
  Editors,        \* goroutines updating the metadata of a conversation
  Conversations,  \* gateway conversation ids
  Nothing,        \* a turn that continues neither
  Anonymous,      \* "resp_gateway", the id of answers that came without one
  Metadata,       \* what a body may contain
  ValidMetadata,  \* what validateConversationMetadata accepts
  NoMetadata,     \* that of a turn outside any conversation
  Persistent,     \* TRUE: the SQLite store; FALSE: the in-memory store
  StoreFaults     \* TRUE: a call of the SQLite store may return an error

ASSUME TranscriptsAssumption ==
  /\ Turns \cap Conversations = {}
  /\ {Nothing, Anonymous} \cap (Turns \cup Conversations) = {}
  /\ Nothing # Anonymous
  /\ ValidMetadata \subseteq Metadata
  /\ NoMetadata \notin Metadata
  /\ Persistent \in BOOLEAN
  /\ StoreFaults \in BOOLEAN
  /\ StoreFaults => Persistent

ResponseIds == Turns \cup {Anonymous}

VARIABLES
  conversations,  \* the stored conversations
  responses,      \* the stored responses
  pc,             \* where each turn is
  request,        \* what it continues and whether it is to be stored
  plan,           \* responseStatePlan: the record it loaded
  answer,         \* its answer: none, portable or with provider state; its id
  epc, eid, erec, \* each editor's counter, conversation and loaded record
  shown,          \* history: turns whose complete answer the client has
  removed,        \* history: what was deleted, expired or lost with memory
  overlapped      \* history: conversations two requests worked on at once

turn    == <<pc, request, plan, answer, shown>>
editor  == <<epc, eid, erec>>
vars    == <<conversations, responses, turn, editor, removed, overlapped>>

Conversation == [turns : Seq(Turns), continuable : BOOLEAN, metadata : ValidMetadata]
Response     == [turns : Seq(Turns), continuable : BOOLEAN]
Plan         == [turns : Seq(Turns), continuable : BOOLEAN,
                 metadata : ValidMetadata \cup {NoMetadata}]

Absent    == [turns |-> <<>>, continuable |-> FALSE, metadata |-> NoMetadata]
NoRecord  == [turns |-> <<>>, continuable |-> FALSE]
NoAnswer  == [kind |-> "none", id |-> Anonymous]
FreshPlan == [turns |-> <<>>, continuable |-> TRUE, metadata |-> NoMetadata]

Exists(c) == conversations[c] # Absent

-----------------------------------------------------------------------------
(* Overlap: between its load and its save, a request works on a record     *)
(* that others may be changing                                             *)

Working(c) == {t \in Turns : request[t].prior = c /\ pc[t] \in {"generate", "save_conversation"}}
                \cup {e \in Editors : eid[e] = c /\ epc[e] = "save"}

Touches(c) == overlapped' = overlapped \cup (IF Working(c) = {} THEN {} ELSE {c})

-----------------------------------------------------------------------------
(* A turn                                                                  *)

TurnAt(t, from, to) == pc[t] = from /\ pc' = [pc EXCEPT ![t] = to]

Requests == [prior : Conversations \cup ResponseIds \cup {Nothing}, store : BOOLEAN]

(* What a client can name: conversations and responses there are or were.  *)
Known == {c \in Conversations : Exists(c)} \cup removed
           \cup {id \in ResponseIds : responses[id] # NoRecord} \cup {Nothing}

Arrive(t) ==
  /\ TurnAt(t, "idle", "resolve")
  /\ \E r \in Requests :
       /\ r.prior \in Known
       /\ request' = [request EXCEPT ![t] = r]
  /\ UNCHANGED <<conversations, responses, plan, answer, shown, editor, removed, overlapped>>

(* Mutant: a transcript that cannot be continued is continued.             *)
ResolvesAnything(t) ==
  LET prior == request[t].prior IN
  /\ prior \in Conversations
  /\ Exists(prior)
  /\ TurnAt(t, "resolve", "generate")
  /\ plan' = [plan EXCEPT ![t] = conversations[prior]]
  /\ Touches(prior)
  /\ UNCHANGED <<conversations, responses, request, answer, shown, editor, removed>>

(* resolveResponsesState, for each of the things a turn may continue.      *)
ResolveConversation(t) ==
  LET prior == request[t].prior IN
  /\ prior \in Conversations
  /\ Exists(prior)
  /\ conversations[prior].continuable
  /\ TurnAt(t, "resolve", "generate")
  /\ plan' = [plan EXCEPT ![t] = conversations[prior]]
  /\ Touches(prior)
  /\ UNCHANGED <<conversations, responses, request, answer, shown, editor, removed>>

ResolveResponse(t) ==
  LET prior == request[t].prior IN
  /\ prior \in ResponseIds
  /\ responses[prior].continuable
  /\ TurnAt(t, "resolve", "generate")
  /\ plan' = [plan EXCEPT ![t] = [turns |-> responses[prior].turns, continuable |-> TRUE,
                                  metadata |-> NoMetadata]]
  /\ UNCHANGED <<conversations, responses, request, answer, shown, editor, removed, overlapped>>

ResolveNothing(t) ==
  /\ request[t].prior = Nothing
  /\ TurnAt(t, "resolve", "generate")
  /\ plan' = [plan EXCEPT ![t] = FreshPlan]
  /\ UNCHANGED <<conversations, responses, request, answer, shown, editor, removed, overlapped>>

(* Not found, not continuable, or the store failed: answered 400.          *)
ResolveFails(t) ==
  LET prior == request[t].prior IN
  /\ \/ prior \in Conversations /\ ~conversations[prior].continuable
     \/ prior \in ResponseIds /\ ~responses[prior].continuable
     \/ StoreFaults
  /\ TurnAt(t, "resolve", "done")
  /\ UNCHANGED <<conversations, responses, request, plan, answer, shown, editor, removed, overlapped>>

AfterSave(t) == IF request[t].store THEN "save_response" ELSE "answer"

(* The provider's whole answer arrived and was translated.  An answer that *)
(* came without an id is stored under one that all such answers share; a   *)
(* stream refuses it instead, see GenerateFails.                           *)
Generate(t, kind, id) ==
  /\ id \in {t, Anonymous}
  /\ TurnAt(t, "generate", IF request[t].prior \in Conversations THEN "save_conversation"
                                                                 ELSE AfterSave(t))
  /\ answer' = [answer EXCEPT ![t] = [kind |-> kind, id |-> id]]
  /\ UNCHANGED <<conversations, responses, request, plan, shown, editor, removed, overlapped>>

(* The attempt failed before anything was sent, and the next target is     *)
(* attempted from the start.                                               *)
FallsBack(t) ==
  /\ TurnAt(t, "generate", "resolve")
  /\ UNCHANGED <<conversations, responses, request, plan, answer, shown, editor, removed, overlapped>>

(* The last attempt failed, or one broke after the stream had begun, or a  *)
(* stream brought no response id.                                          *)
GenerateFails(t) ==
  /\ TurnAt(t, "generate", "done")
  /\ UNCHANGED <<conversations, responses, request, plan, answer, shown, editor, removed, overlapped>>

Continued(t) == Append(plan[t].turns, t)

(* Mutant: the turn is appended to what the store holds by then.           *)
SaveToCurrent(t) ==
  /\ TurnAt(t, "save_conversation", AfterSave(t))
  /\ conversations' = [conversations EXCEPT ![request[t].prior] =
       [turns |-> Append(@.turns, t), continuable |-> answer[t].kind = "portable",
        metadata |-> plan[t].metadata]]
  /\ UNCHANGED <<responses, request, plan, answer, shown, editor, removed, overlapped>>

(* persistResponsesState: the loaded conversation, with its metadata, goes *)
(* back with the turn at its end.                                          *)
SaveConversation(t) ==
  /\ TurnAt(t, "save_conversation", AfterSave(t))
  /\ conversations' = [conversations EXCEPT ![request[t].prior] =
       [turns |-> Continued(t), continuable |-> answer[t].kind = "portable",
        metadata |-> plan[t].metadata]]
  /\ UNCHANGED <<responses, request, plan, answer, shown, editor, removed, overlapped>>

Stored(t) == [turns |-> Continued(t), continuable |-> answer[t].kind = "portable"]

(* Mutant: a continuation is stored under the id it continues.             *)
SavesOverPrevious(t) ==
  /\ TurnAt(t, "save_response", "answer")
  /\ LET id == IF request[t].prior \in ResponseIds THEN request[t].prior ELSE answer[t].id
     IN  responses' = [responses EXCEPT ![id] = Stored(t)]
  /\ UNCHANGED <<conversations, request, plan, answer, shown, editor, removed, overlapped>>

SaveResponse(t) ==
  /\ TurnAt(t, "save_response", "answer")
  /\ responses' = [responses EXCEPT ![answer[t].id] = Stored(t)]
  /\ UNCHANGED <<conversations, request, plan, answer, shown, editor, removed, overlapped>>

(* The conversation may have been saved already, and the response too when *)
(* it is the prune after the upsert that fails.                            *)
SaveFails(t) ==
  /\ StoreFaults
  /\ \/ TurnAt(t, "save_conversation", "done") /\ UNCHANGED responses
     \/ /\ TurnAt(t, "save_response", "done")
        /\ \/ UNCHANGED responses
           \/ responses' = [responses EXCEPT ![answer[t].id] = Stored(t)]
  /\ UNCHANGED <<conversations, request, plan, answer, shown, editor, removed, overlapped>>

(* Mutant: the completed event is sent before the state is persisted.      *)
AnswersEarly(t) ==
  /\ pc[t] \in {"save_conversation", "save_response", "answer"}
  /\ t \notin shown
  /\ shown' = shown \cup {t}
  /\ pc' = [pc EXCEPT ![t] = IF @ = "answer" THEN "done" ELSE @]
  /\ UNCHANGED <<conversations, responses, request, plan, answer, editor, removed, overlapped>>

(* The body, the response.completed event, or the poll that shows it.      *)
Answer(t) ==
  /\ TurnAt(t, "answer", "done")
  /\ shown' = shown \cup {t}
  /\ UNCHANGED <<conversations, responses, request, plan, answer, editor, removed, overlapped>>

TurnStep(t) ==
  \/ Arrive(t)
  \/ ResolveConversation(t) \/ ResolveResponse(t) \/ ResolveNothing(t) \/ ResolveFails(t)
  \/ \E kind \in {"portable", "nonportable"}, id \in ResponseIds : Generate(t, kind, id)
  \/ FallsBack(t) \/ GenerateFails(t)
  \/ SaveConversation(t) \/ SaveResponse(t) \/ SaveFails(t)
  \/ Answer(t)

-----------------------------------------------------------------------------
(* The conversation and response resources                                 *)

(* Ids are random: none is ever used twice.                                *)
CreateConversation(c, metadata) ==
  /\ ~Exists(c) /\ c \notin removed
  /\ metadata \in ValidMetadata
  /\ conversations' = [conversations EXCEPT ![c] =
       [turns |-> <<>>, continuable |-> TRUE, metadata |-> metadata]]
  /\ UNCHANGED <<responses, turn, editor, removed, overlapped>>

UpdateLoad(e, c) ==
  /\ epc[e] = "idle"
  /\ Exists(c)
  /\ epc' = [epc EXCEPT ![e] = "save"]
  /\ eid' = [eid EXCEPT ![e] = c]
  /\ erec' = [erec EXCEPT ![e] = conversations[c]]
  /\ Touches(c)
  /\ UNCHANGED <<conversations, responses, turn, removed>>

Idles(e) == /\ epc' = [epc EXCEPT ![e] = "idle"]
            /\ erec' = [erec EXCEPT ![e] = Absent]
            /\ UNCHANGED eid

(* Mutant: the metadata is not validated.                                  *)
UpdateUnchecked(e, metadata) ==
  /\ epc[e] = "save"
  /\ conversations' = [conversations EXCEPT ![eid[e]] = [erec[e] EXCEPT !.metadata = metadata]]
  /\ Idles(e)
  /\ UNCHANGED <<responses, turn, removed, overlapped>>

(* Mutant: the updated conversation is built anew, without its messages.   *)
UpdateForgets(e, metadata) ==
  /\ epc[e] = "save"
  /\ metadata \in ValidMetadata
  /\ conversations' = [conversations EXCEPT ![eid[e]] =
       [turns |-> <<>>, continuable |-> TRUE, metadata |-> metadata]]
  /\ Idles(e)
  /\ UNCHANGED <<responses, turn, removed, overlapped>>

(* The loaded conversation is saved with the new metadata.                 *)
UpdateSave(e, metadata) ==
  /\ epc[e] = "save"
  /\ metadata \in ValidMetadata
  /\ conversations' = [conversations EXCEPT ![eid[e]] = [erec[e] EXCEPT !.metadata = metadata]]
  /\ Idles(e)
  /\ UNCHANGED <<responses, turn, removed, overlapped>>

UpdateRefused(e, metadata) ==
  /\ epc[e] = "save"
  /\ metadata \notin ValidMetadata \/ StoreFaults
  /\ Idles(e)
  /\ UNCHANGED <<conversations, responses, turn, removed, overlapped>>

DeleteConversation(c) ==
  /\ Exists(c)
  /\ conversations' = [conversations EXCEPT ![c] = Absent]
  /\ removed' = removed \cup {c}
  /\ Touches(c)
  /\ UNCHANGED <<responses, turn, editor>>

(* A DELETE of the response, or the end of its retention.                  *)
RemoveResponse(id) ==
  /\ responses[id] # NoRecord
  /\ responses' = [responses EXCEPT ![id] = NoRecord]
  /\ removed' = removed \cup {id}
  /\ UNCHANGED <<conversations, turn, editor, overlapped>>

Crash ==
  /\ IF Persistent
     THEN UNCHANGED <<conversations, responses, removed>>
     ELSE /\ conversations' = [c \in Conversations |-> Absent]
          /\ responses' = [id \in ResponseIds |-> NoRecord]
          /\ removed' = removed \cup {c \in Conversations : Exists(c)}
                                \cup {id \in ResponseIds : responses[id] # NoRecord}
  /\ pc' = [t \in Turns |-> IF pc[t] = "idle" THEN "idle" ELSE "done"]
  /\ epc' = [e \in Editors |-> "idle"]
  /\ erec' = [e \in Editors |-> Absent]
  /\ UNCHANGED <<request, plan, answer, shown, eid, overlapped>>

-----------------------------------------------------------------------------
Init ==
  /\ conversations = [c \in Conversations |-> Absent]
  /\ responses = [id \in ResponseIds |-> NoRecord]
  /\ pc = [t \in Turns |-> "idle"]
  /\ request = [t \in Turns |-> [prior |-> Nothing, store |-> FALSE]]
  /\ plan = [t \in Turns |-> FreshPlan]
  /\ answer = [t \in Turns |-> NoAnswer]
  /\ epc = [e \in Editors |-> "idle"]
  /\ eid \in [Editors -> Conversations]
  /\ erec = [e \in Editors |-> Absent]
  /\ shown = {}
  /\ removed = {}
  /\ overlapped = {}

Next ==
  \/ \E t \in Turns : TurnStep(t)
  \/ \E c \in Conversations :
       \/ DeleteConversation(c)
       \/ \E metadata \in Metadata : CreateConversation(c, metadata)
       \/ \E e \in Editors : UpdateLoad(e, c)
  \/ \E e \in Editors, metadata \in Metadata : UpdateSave(e, metadata) \/ UpdateRefused(e, metadata)
  \/ \E id \in ResponseIds : RemoveResponse(id)
  \/ Crash

Spec == Init /\ [][Next]_vars

-----------------------------------------------------------------------------
(* Properties                                                              *)

(* The shape of the state.                                                 *)
TypeOK ==
  /\ conversations \in [Conversations -> Conversation \cup {Absent}]
  /\ responses \in [ResponseIds -> Response]
  /\ pc \in [Turns -> {"idle", "resolve", "generate", "save_conversation",
                       "save_response", "answer", "done"}]
  /\ request \in [Turns -> Requests]
  /\ plan \in [Turns -> Plan]
  /\ answer \in [Turns -> [kind : {"none", "portable", "nonportable"}, id : ResponseIds]]
  /\ epc \in [Editors -> {"idle", "save"}]
  /\ eid \in [Editors -> Conversations]
  /\ erec \in [Editors -> Conversation \cup {Absent}]
  /\ shown \in SUBSET Turns
  /\ removed \in SUBSET (Conversations \cup ResponseIds)
  /\ overlapped \in SUBSET Conversations

Answered == {t \in Turns : answer[t].kind # "none"}

(* A transcript some provider was shown, with its own answer at the end.   *)
Genuine(turns) == turns = <<>> \/ \E t \in Answered : turns = Continued(t)

(* However loads and saves interleave, nothing is spliced: every stored    *)
(* transcript, and every one a provider was shown, is one answered turn    *)
(* after exactly what that turn's provider was shown.                      *)
TranscriptsGenuine ==
  /\ \A c \in Conversations : Genuine(conversations[c].turns)
  /\ \A id \in ResponseIds : Genuine(responses[id].turns)
  /\ \A t \in Turns : Genuine(plan[t].turns)

(* No provider is ever shown a transcript in which another provider's      *)
(* reasoning or searches were dropped from an answer.                      *)
PromptsPortable ==
  \A t \in Turns : \A i \in DOMAIN plan[t].turns : answer[plan[t].turns[i]].kind = "portable"

(* Once a client has a whole answer that was to be stored, and until it is *)
(* removed, the response can be read and continued: it holds what the      *)
(* provider was shown and its answer.                                      *)
AnswersStored ==
  \A t \in shown :
    request[t].store =>
      \/ t \in removed \/ responses[t] = Stored(t)
      \/ answer[t].id = Anonymous

(* Continuing a response, any number of times, leaves it as it was.        *)
Kept ==
  \A t \in Turns : responses[t] # NoRecord => responses'[t] \in {responses[t], NoRecord}

ResponsesKept == [][Kept]_vars

(* A conversation its requests never worked on at the same time keeps      *)
(* every turn a client was answered, across metadata updates, fallbacks,   *)
(* failed saves and restarts, and stays deleted.                           *)
SerialTurnsKept ==
  \A c \in Conversations \ overlapped :
    IF c \in removed THEN ~Exists(c)
    ELSE \A t \in shown : request[t].prior = c =>
           \E i \in DOMAIN conversations[c].turns : conversations[c].turns[i] = t

(* What conversation_manager_test.go says of a turn in a conversation: the *)
(* conversation holds it afterwards, until it is deleted.                  *)
TurnsKept ==
  \A t \in shown :
    request[t].prior \in Conversations \ removed =>
      \E i \in DOMAIN conversations[request[t].prior].turns :
        conversations[request[t].prior].turns[i] = t
=============================================================================
