------------------------- MODULE TranscriptsProofs -------------------------
(***************************************************************************)
(* Proofs about Transcripts.  A record never changes on its way: it is     *)
(* loaded, kept, and written back with at most one turn more.  What makes  *)
(* the properties inductive is that a turn's prompt is fixed once the turn *)
(* has been answered, so that a transcript stays genuine and portable      *)
(* whoever holds it (RecordsInv), that an answer belongs to the end of a   *)
(* turn (AnswersInv), that a turn's own response is written by that turn   *)
(* alone (StoredInv), and that a request alone with a conversation has it  *)
(* as it is (SerialInv).                                                   *)
(***************************************************************************)
EXTENDS Transcripts, TLAPS

Kinds == {"none", "portable", "nonportable"}

LEMMA Constants ==
  /\ Absent.turns = <<>> /\ ~Absent.continuable
  /\ NoRecord \in Response
  /\ FreshPlan \in Plan
  /\ NoAnswer \in [kind : Kinds, id : ResponseIds]
  /\ Absent \notin Conversation
  /\ Conversation \subseteq Plan
  /\ ResponseIds \cap Conversations = {} /\ Anonymous \notin Turns /\ Nothing \notin Conversations
  BY TranscriptsAssumption
  DEF Absent, NoRecord, FreshPlan, NoAnswer, Conversation, Response, Plan, Kinds, ResponseIds

(* What a turn writes back is a record like those it loaded.               *)
LEMMA WrittenTypes ==
  ASSUME TypeOK, NEW t \in Turns
  PROVE  /\ Continued(t) \in Seq(Turns)
         /\ Stored(t) \in Response
         /\ plan[t].metadata # NoMetadata =>
              [turns |-> Continued(t), continuable |-> answer[t].kind = "portable",
               metadata |-> plan[t].metadata] \in Conversation
  <1>1. plan[t] \in Plan /\ plan[t].turns \in Seq(Turns) /\ plan[t].metadata \in ValidMetadata \cup {NoMetadata}
    BY DEF TypeOK, Plan
  <1>2. Continued(t) \in Seq(Turns) BY <1>1 DEF Continued
  <1> QED BY <1>1, <1>2 DEF Stored, Response, Conversation

-----------------------------------------------------------------------------
(* Type correctness                                                        *)

(* A turn that loaded a conversation has that conversation's metadata.     *)
MetadataInv ==
  \A t \in Turns :
    pc[t] \in {"generate", "save_conversation"} /\ request[t].prior \in Conversations =>
      plan[t] \in Conversation
EditsInv ==
  \A e \in Editors : epc[e] = "save" => erec[e] \in Conversation

Typed == TypeOK /\ MetadataInv /\ EditsInv

LEMMA TypedInit == Init => Typed
  BY Constants DEF Init, Typed, TypeOK, MetadataInv, EditsInv, Requests, ResponseIds, Kinds

LEMMA TypedTurn == ASSUME Typed, NEW t \in Turns, TurnStep(t) PROVE Typed'
  <1> USE DEF Typed
  <1>1. CASE Arrive(t)
    BY <1>1 DEF Arrive, TurnAt, TypeOK, MetadataInv, EditsInv, Requests, turn, editor
  <1>2. CASE ResolveConversation(t)
    <2>1. conversations[request[t].prior] \in Conversation
      BY <1>2 DEF ResolveConversation, Exists, TypeOK
    <2>2. conversations[request[t].prior] \in Plan BY <2>1, Constants
    <2>3. overlapped' \in SUBSET Conversations
      BY <1>2 DEF ResolveConversation, Touches, TypeOK
    <2>4. TypeOK' BY <1>2, <2>2, <2>3 DEF ResolveConversation, TurnAt, TypeOK, editor
    <2>5. MetadataInv'
      BY <1>2, <2>1 DEF ResolveConversation, TurnAt, TypeOK, MetadataInv
    <2> QED BY <1>2, <2>4, <2>5 DEF ResolveConversation, EditsInv, editor
  <1>3. CASE ResolveResponse(t)
    <2>1. [turns |-> responses[request[t].prior].turns, continuable |-> TRUE,
           metadata |-> NoMetadata] \in Plan
      BY <1>3 DEF ResolveResponse, TypeOK, Response, Plan
    <2>2. request[t].prior \notin Conversations
      BY <1>3, TranscriptsAssumption DEF ResolveResponse, ResponseIds
    <2> QED BY <1>3, <2>1, <2>2
      DEF ResolveResponse, TurnAt, TypeOK, MetadataInv, EditsInv, editor
  <1>4. CASE ResolveNothing(t)
    BY <1>4, Constants DEF ResolveNothing, TurnAt, TypeOK, MetadataInv, EditsInv, editor
  <1>5. CASE ResolveFails(t)
    BY <1>5 DEF ResolveFails, TurnAt, TypeOK, MetadataInv, EditsInv, editor
  <1>6. CASE \E kind \in {"portable", "nonportable"}, id \in ResponseIds : Generate(t, kind, id)
    <2>1. PICK kind \in {"portable", "nonportable"}, id \in ResponseIds : Generate(t, kind, id)
      BY <1>6
    <2>2. pc' \in [Turns -> {"idle", "resolve", "generate", "save_conversation",
                             "save_response", "answer", "done"}]
      BY <2>1 DEF Generate, TurnAt, AfterSave, TypeOK
    <2>3. answer' \in [Turns -> [kind : Kinds, id : ResponseIds]]
      BY <2>1 DEF Generate, TypeOK, Kinds
    <2>4. TypeOK' BY <2>1, <2>2, <2>3 DEF Generate, TypeOK, Kinds, editor
    <2>5. MetadataInv' BY <2>1 DEF Generate, TurnAt, TypeOK, MetadataInv
    <2> QED BY <2>1, <2>4, <2>5 DEF Generate, EditsInv, editor
  <1>7. CASE FallsBack(t)
    BY <1>7 DEF FallsBack, TurnAt, TypeOK, MetadataInv, EditsInv, editor
  <1>8. CASE GenerateFails(t)
    BY <1>8 DEF GenerateFails, TurnAt, TypeOK, MetadataInv, EditsInv, editor
  <1>9. CASE SaveConversation(t)
    <2> DEFINE rec == [turns |-> Continued(t), continuable |-> answer[t].kind = "portable",
                        metadata |-> plan[t].metadata]
    <2>1. rec \in Conversation \/ request[t].prior \notin Conversations
      <3>1. SUFFICES ASSUME request[t].prior \in Conversations PROVE rec \in Conversation
        OBVIOUS
      <3>2. plan[t] \in Conversation BY <1>9, <3>1 DEF SaveConversation, TurnAt, MetadataInv
      <3>3. plan[t].metadata # NoMetadata BY <3>2, TranscriptsAssumption DEF Conversation
      <3> QED BY <3>1, <3>3, WrittenTypes
    <2>2. conversations' = [conversations EXCEPT ![request[t].prior] = rec]
      BY <1>9 DEF SaveConversation
    <2>3. conversations' \in [Conversations -> Conversation \cup {Absent}]
      BY <2>1, <2>2 DEF TypeOK
    <2>4. pc' \in [Turns -> {"idle", "resolve", "generate", "save_conversation",
                             "save_response", "answer", "done"}]
      BY <1>9 DEF SaveConversation, TurnAt, AfterSave, TypeOK
    <2>5. TypeOK' BY <1>9, <2>3, <2>4 DEF SaveConversation, TypeOK, editor
    <2>6. MetadataInv' BY <1>9 DEF SaveConversation, TurnAt, AfterSave, TypeOK, MetadataInv
    <2> QED BY <1>9, <2>5, <2>6 DEF SaveConversation, EditsInv, editor
  <1>10. CASE SaveResponse(t)
    <2>1. Stored(t) \in Response BY WrittenTypes
    <2> QED BY <1>10, <2>1 DEF SaveResponse, TurnAt, TypeOK, MetadataInv, EditsInv, editor
  <1>11. CASE SaveFails(t)
    <2>1. Stored(t) \in Response BY WrittenTypes
    <2>2. responses' \in [ResponseIds -> Response]
      BY <1>11, <2>1 DEF SaveFails, TypeOK
    <2>3. pc[t] \in {"save_conversation", "save_response"} /\ pc' = [pc EXCEPT ![t] = "done"]
      BY <1>11 DEF SaveFails, TurnAt
    <2>4. UNCHANGED <<conversations, request, plan, answer, shown, editor, removed, overlapped>>
      BY <1>11 DEF SaveFails
    <2> QED BY <2>2, <2>3, <2>4 DEF TypeOK, MetadataInv, EditsInv, editor
  <1>12. CASE Answer(t)
    BY <1>12 DEF Answer, TurnAt, TypeOK, MetadataInv, EditsInv, editor
  <1> QED BY <1>1, <1>2, <1>3, <1>4, <1>5, <1>6, <1>7, <1>8, <1>9, <1>10, <1>11, <1>12
    DEF TurnStep

LEMMA TypedNext == Typed /\ [Next]_vars => Typed'
  <1> SUFFICES ASSUME Typed, [Next]_vars PROVE Typed'
    OBVIOUS
  <1> USE DEF Typed
  <1>1. CASE \E t \in Turns : TurnStep(t)
    BY <1>1, TypedTurn
  <1>2. ASSUME NEW c \in Conversations, DeleteConversation(c) PROVE Typed'
    BY <1>2 DEF DeleteConversation, Touches, TypeOK, MetadataInv, EditsInv, turn, editor
  <1>3. ASSUME NEW c \in Conversations, NEW metadata \in Metadata, CreateConversation(c, metadata)
        PROVE  Typed'
    <2>1. [turns |-> <<>>, continuable |-> TRUE, metadata |-> metadata] \in Conversation
      BY <1>3 DEF CreateConversation, Conversation
    <2> QED BY <1>3, <2>1
      DEF CreateConversation, TypeOK, MetadataInv, EditsInv, turn, editor
  <1>4. ASSUME NEW e \in Editors, NEW c \in Conversations, UpdateLoad(e, c) PROVE Typed'
    <2>1. conversations[c] \in Conversation BY <1>4 DEF UpdateLoad, Exists, TypeOK
    <2> QED BY <1>4, <2>1
      DEF UpdateLoad, Touches, TypeOK, MetadataInv, EditsInv, turn
  <1>5. ASSUME NEW e \in Editors, NEW metadata \in Metadata, UpdateSave(e, metadata) PROVE Typed'
    <2>1. [erec[e] EXCEPT !.metadata = metadata] \in Conversation
      BY <1>5 DEF UpdateSave, EditsInv, Conversation
    <2> QED BY <1>5, <2>1
      DEF UpdateSave, Idles, TypeOK, MetadataInv, EditsInv, turn
  <1>6. ASSUME NEW e \in Editors, NEW metadata \in Metadata, UpdateRefused(e, metadata)
        PROVE  Typed'
    BY <1>6 DEF UpdateRefused, Idles, TypeOK, MetadataInv, EditsInv, turn
  <1>7. ASSUME NEW id \in ResponseIds, RemoveResponse(id) PROVE Typed'
    BY <1>7, Constants DEF RemoveResponse, TypeOK, MetadataInv, EditsInv, turn, editor
  <1>8. CASE Crash
    BY <1>8, Constants DEF Crash, TypeOK, MetadataInv, EditsInv, Exists
  <1>9. CASE UNCHANGED vars
    BY <1>9 DEF vars, turn, editor, TypeOK, MetadataInv, EditsInv
  <1> QED BY <1>1, <1>2, <1>3, <1>4, <1>5, <1>6, <1>7, <1>8, <1>9 DEF Next

(* Every state has the right shape (MetadataInv: a conversation is written *)
(* back with a conversation's metadata).                                   *)
THEOREM TypeCorrect == Spec => []TypeOK
  <1>1. Typed => TypeOK BY DEF Typed
  <1> QED BY TypedInit, TypedNext, <1>1, PTL DEF Spec

-----------------------------------------------------------------------------
(* Transcripts are genuine and portable, whoever holds them                *)

Unanswered == {"idle", "resolve", "generate"}

(* An answer comes at the end of a turn and is shown when all is saved.    *)
AnswersInv ==
  \A t \in Turns :
    /\ pc[t] \in Unanswered => answer[t].kind = "none"
    /\ pc[t] \in {"save_conversation", "save_response", "answer"} => answer[t].kind # "none"
    /\ pc[t] = "save_conversation" => request[t].prior \in Conversations
    /\ answer[t].id \in {t, Anonymous}
    /\ t \in shown => pc[t] = "done" /\ answer[t].kind # "none"

Portable(turns) == \A i \in DOMAIN turns : answer[turns[i]].kind = "portable"

Good(r) == Genuine(r.turns) /\ (r.continuable => Portable(r.turns))

RecordsInv ==
  /\ \A c \in Conversations : Good(conversations[c])
  /\ \A id \in ResponseIds : Good(responses[id])
  /\ \A e \in Editors : Good(erec[e])
  /\ \A t \in Turns : Good(plan[t]) /\ plan[t].continuable

Inv == Typed /\ AnswersInv /\ RecordsInv

LEMMA EmptyIsGood == Good(Absent) /\ Good(NoRecord) /\ Good(FreshPlan)
  BY DEF Good, Genuine, Portable, Absent, NoRecord, FreshPlan

LEMMA InvInit == Init => Inv
  <1> SUFFICES ASSUME Init PROVE Inv
    OBVIOUS
  <1>1. AnswersInv BY DEF Init, AnswersInv, NoAnswer, Unanswered
  <1>2. RecordsInv
    BY EmptyIsGood DEF Init, RecordsInv, FreshPlan
  <1> QED BY <1>1, <1>2, TypedInit DEF Inv

(* The answered turns keep their prompts and their answers.                *)
AnswersStay ==
  /\ Answered \subseteq Answered'
  /\ \A t \in Answered : plan'[t] = plan[t] /\ answer'[t] = answer[t]

LEMMA AnswersStayNext == ASSUME Inv, [Next]_vars PROVE AnswersStay
  <1> USE DEF Inv, Typed
  <1>1. CASE \E t \in Turns : TurnStep(t)
    <2>1. PICK t \in Turns : TurnStep(t) BY <1>1
    <2>2. CASE pc[t] \in Unanswered
      <3>1. t \notin Answered BY <2>2 DEF AnswersInv, Answered
      <3>2. \A u \in Turns \ {t} : plan'[u] = plan[u] /\ answer'[u] = answer[u]
        BY <2>1 DEF TurnStep, Arrive, ResolveConversation, ResolveResponse, ResolveNothing,
           ResolveFails, Generate, FallsBack, GenerateFails, SaveConversation, SaveResponse,
           SaveFails, Answer, TypeOK
      <3> QED BY <3>1, <3>2 DEF AnswersStay, Answered
    <2>3. CASE pc[t] \notin Unanswered
      <3>1. plan' = plan /\ answer' = answer
        BY <2>1, <2>3 DEF TurnStep, Arrive, ResolveConversation, ResolveResponse, ResolveNothing,
           ResolveFails, Generate, FallsBack, GenerateFails, SaveConversation, SaveResponse,
           SaveFails, Answer, TurnAt, Unanswered
      <3> QED BY <3>1 DEF AnswersStay, Answered
    <2> QED BY <2>2, <2>3
  <1>2. CASE ~\E t \in Turns : TurnStep(t)
    <2>1. plan' = plan /\ answer' = answer
      BY <1>2 DEF Next, CreateConversation, UpdateLoad, UpdateSave, UpdateRefused,
         DeleteConversation, RemoveResponse, Crash, vars, turn
    <2> QED BY <2>1 DEF AnswersStay, Answered
  <1> QED BY <1>1, <1>2

(* So a record that was good stays good.                                   *)
LEMMA GoodStays ==
  ASSUME Typed, AnswersStay, NEW r, r.turns \in Seq(Turns), Good(r) PROVE Good(r)'
  <1>1. Genuine(r.turns)'
    <2>1. CASE r.turns = <<>> BY <2>1 DEF Genuine
    <2>2. CASE \E t \in Answered : r.turns = Continued(t)
      BY <2>2 DEF AnswersStay, Genuine, Continued
    <2> QED BY <2>1, <2>2 DEF Good, Genuine
  <1>2. ASSUME r.continuable PROVE Portable(r.turns)'
    <2>1. SUFFICES ASSUME NEW i \in DOMAIN r.turns PROVE answer'[r.turns[i]].kind = "portable"
      BY DEF Portable
    <2>2. answer[r.turns[i]].kind = "portable" /\ r.turns[i] \in Turns
      BY <1>2, <2>1 DEF Good, Portable
    <2> QED BY <2>2 DEF AnswersStay, Answered
  <1> QED BY <1>1, <1>2 DEF Good

(* And so is the record an answered turn writes.                           *)
LEMMA WrittenIsGood ==
  ASSUME Inv, NEW t \in Answered,
         NEW r, r.turns = Continued(t), r.continuable => answer[t].kind = "portable"
  PROVE  Good(r)
  <1> USE DEF Inv
  <1>1. Genuine(r.turns) BY DEF Genuine
  <1>2. plan[t].turns \in Seq(Turns) /\ Portable(plan[t].turns) /\ t \in Turns
    BY DEF Typed, TypeOK, Plan, RecordsInv, Good, Answered
  <1>3. ASSUME r.continuable PROVE Portable(r.turns)
    <2>1. SUFFICES ASSUME NEW i \in DOMAIN Continued(t)
                   PROVE  answer[Continued(t)[i]].kind = "portable"
      BY DEF Portable
    <2>2. CASE i = Len(plan[t].turns) + 1
      BY <1>2, <1>3, <2>2 DEF Continued
    <2>3. CASE i \in DOMAIN plan[t].turns
      BY <1>2, <2>3 DEF Continued, Portable
    <2>4. i \in DOMAIN plan[t].turns \/ i = Len(plan[t].turns) + 1
      BY <1>2 DEF Continued
    <2> QED BY <2>2, <2>3, <2>4
  <1> QED BY <1>1, <1>3 DEF Good

(* All the records of a state after a step: those before it, and what the  *)
(* answered turns write.                                                   *)
LEMMA SequencesOfRecords ==
  ASSUME TypeOK
  PROVE  /\ \A c \in Conversations : conversations[c].turns \in Seq(Turns)
         /\ \A id \in ResponseIds : responses[id].turns \in Seq(Turns)
         /\ \A e \in Editors : erec[e].turns \in Seq(Turns)
         /\ \A t \in Turns : plan[t].turns \in Seq(Turns)
  <1>1. \A r \in Conversation \cup {Absent} : r.turns \in Seq(Turns)
    <2>1. Absent.turns = <<>> BY DEF Absent
    <2>2. <<>> \in Seq(Turns) OBVIOUS
    <2>3. \A r \in Conversation : r.turns \in Seq(Turns) BY DEF Conversation
    <2> QED BY <2>1, <2>2, <2>3
  <1>2. \A r \in Response \cup Plan : r.turns \in Seq(Turns)
    BY DEF Response, Plan
  <1> QED BY <1>1, <1>2 DEF TypeOK

LEMMA RecordsNext == ASSUME Inv, [Next]_vars PROVE RecordsInv'
  <1> USE DEF Inv
  <1> DEFINE Old(r) == \/ \E c \in Conversations : r = conversations[c]
                       \/ \E id \in ResponseIds : r = responses[id]
                       \/ \E e \in Editors : r = erec[e]
                       \/ \E t \in Turns : r = plan[t]
                       \/ r \in {Absent, NoRecord, FreshPlan}
  <1>1. AnswersStay BY AnswersStayNext
  <1>2. ASSUME NEW r, Old(r) PROVE Good(r)'
    <2>1. Good(r) BY <1>2, EmptyIsGood DEF RecordsInv
    <2>2. r.turns \in Seq(Turns)
      <3>1. ASSUME NEW e \in {Absent, NoRecord, FreshPlan} PROVE e.turns \in Seq(Turns)
        <4>1. e.turns = <<>> BY <3>1 DEF Absent, NoRecord, FreshPlan
        <4> QED BY <4>1
      <3> QED BY <1>2, <3>1, SequencesOfRecords DEF Typed
    <2> QED BY <1>1, <2>1, <2>2, GoodStays
  <1> HIDE DEF Old
  <1>3. ASSUME NEW t \in Answered, NEW r, r.turns = Continued(t),
               r.continuable => answer[t].kind = "portable"
        PROVE  Good(r)'
    <2>1. Good(r) BY <1>3, WrittenIsGood
    <2>2. r.turns \in Seq(Turns) BY <1>3, WrittenTypes DEF Answered, Typed
    <2> QED BY <1>1, <2>1, <2>2, GoodStays
  <1>4. ASSUME NEW q, Old(q), NEW r, r.turns = q.turns, r.continuable => q.continuable
        PROVE  Good(r)'
    BY <1>2, <1>4 DEF Good
  <1>5. \A c \in Conversations : Good(conversations[c])'
    <2>1. SUFFICES ASSUME NEW c \in Conversations PROVE Good(conversations[c])'
      OBVIOUS
    <2>2. CASE conversations'[c] = conversations[c]
      BY <2>2, <1>4 DEF Old
    <2>3. CASE conversations'[c] = Absent
      BY <2>3, <1>4 DEF Old
    <2>4. ASSUME NEW t \in Turns, SaveConversation(t), conversations'[c] # conversations[c]
          PROVE  Good(conversations[c])'
      <3>1. t \in Answered BY <2>4 DEF SaveConversation, TurnAt, AnswersInv, Answered
      <3>2. conversations'[c].turns = Continued(t)
            /\ (conversations'[c].continuable => answer[t].kind = "portable")
        BY <2>4 DEF SaveConversation, Typed, TypeOK
      <3> QED BY <3>1, <3>2, <1>3
    <2>5. ASSUME NEW e \in Editors, NEW metadata \in Metadata, UpdateSave(e, metadata),
                 conversations'[c] # conversations[c]
          PROVE  Good(conversations[c])'
      <3>1. conversations'[c] = [erec[e] EXCEPT !.metadata = metadata]
        BY <2>5 DEF UpdateSave, Typed, TypeOK
      <3>2. erec[e] \in Conversation BY <2>5 DEF UpdateSave, Typed, EditsInv
      <3>3. conversations'[c].turns = erec[e].turns
            /\ (conversations'[c].continuable => erec[e].continuable)
        BY <3>1, <3>2 DEF Conversation
      <3>4. Old(erec[e]) BY DEF Old
      <3> QED BY <3>3, <3>4, <1>4
    <2>6. ASSUME NEW metadata \in Metadata, NEW d \in Conversations, CreateConversation(d, metadata),
                 conversations'[c] # conversations[c]
          PROVE  Good(conversations[c])'
      <3>1. conversations'[c].turns = FreshPlan.turns
            /\ (conversations'[c].continuable => FreshPlan.continuable)
        BY <2>6 DEF CreateConversation, FreshPlan, Typed, TypeOK
      <3>2. Old(FreshPlan) BY DEF Old
      <3> QED BY <3>1, <3>2, <1>4
    <2>7. ASSUME NEW d \in Conversations, DeleteConversation(d)
          PROVE  conversations'[c] \in {conversations[c], Absent}
      BY <2>7 DEF DeleteConversation, Typed, TypeOK
    <2>8. Crash => conversations'[c] \in {conversations[c], Absent}
      BY DEF Crash
    <2>9. \/ UNCHANGED conversations
          \/ \E t \in Turns : SaveConversation(t)
          \/ \E e \in Editors, metadata \in Metadata : UpdateSave(e, metadata)
          \/ \E d \in Conversations, metadata \in Metadata : CreateConversation(d, metadata)
          \/ \E d \in Conversations : DeleteConversation(d)
          \/ Crash
      BY DEF Next, TurnStep, Arrive, ResolveConversation, ResolveResponse, ResolveNothing,
         ResolveFails, Generate, FallsBack, GenerateFails, SaveResponse, SaveFails, Answer,
         UpdateLoad, UpdateRefused, RemoveResponse, vars
    <2> QED BY <2>2, <2>3, <2>4, <2>5, <2>6, <2>7, <2>8, <2>9
  <1>6. \A id \in ResponseIds : Good(responses[id])'
    <2>1. SUFFICES ASSUME NEW id \in ResponseIds PROVE Good(responses[id])'
      OBVIOUS
    <2>2. CASE responses'[id] = responses[id]
      BY <2>2, <1>4 DEF Old
    <2>3. CASE responses'[id] = NoRecord
      BY <2>3, <1>4 DEF Old
    <2>4. ASSUME NEW t \in Turns, SaveResponse(t) \/ SaveFails(t),
                 responses'[id] # responses[id]
          PROVE  Good(responses[id])'
      <3>1. pc[t] = "save_response" /\ responses'[id] = Stored(t)
        BY <2>4 DEF SaveResponse, SaveFails, TurnAt, Typed, TypeOK
      <3>2. t \in Answered BY <3>1 DEF AnswersInv, Answered
      <3>3. Stored(t).turns = Continued(t) /\ (Stored(t).continuable => answer[t].kind = "portable")
        BY Zenon DEF Stored
      <3> QED BY <3>1, <3>2, <3>3, <1>3
    <2>5. ASSUME NEW d \in ResponseIds, RemoveResponse(d)
          PROVE  responses'[id] \in {responses[id], NoRecord}
      BY <2>5 DEF RemoveResponse, Typed, TypeOK
    <2>6. Crash => responses'[id] \in {responses[id], NoRecord}
      BY DEF Crash
    <2>7. \/ UNCHANGED responses
          \/ \E t \in Turns : SaveResponse(t) \/ SaveFails(t)
          \/ \E d \in ResponseIds : RemoveResponse(d)
          \/ Crash
      BY DEF Next, TurnStep, Arrive, ResolveConversation, ResolveResponse, ResolveNothing,
         ResolveFails, Generate, FallsBack, GenerateFails, SaveConversation, Answer,
         CreateConversation, UpdateLoad, UpdateSave, UpdateRefused, DeleteConversation, vars
    <2> QED BY <2>2, <2>3, <2>4, <2>5, <2>6, <2>7
  <1>7. \A e \in Editors : Good(erec[e])'
    <2>1. SUFFICES ASSUME NEW e \in Editors PROVE Good(erec[e])'
      OBVIOUS
    <2>2. ASSUME NEW f \in Editors, NEW c \in Conversations, UpdateLoad(f, c)
          PROVE  erec'[e] \in {erec[e], conversations[c]}
      BY <2>2 DEF UpdateLoad, Typed, TypeOK
    <2>3. ASSUME NEW f \in Editors, Idles(f) PROVE erec'[e] \in {erec[e], Absent}
      BY <2>3 DEF Idles, Typed, TypeOK
    <2>4. Crash => erec'[e] = Absent BY DEF Crash
    <2>5. \/ UNCHANGED erec
          \/ \E f \in Editors, c \in Conversations : UpdateLoad(f, c)
          \/ \E f \in Editors : Idles(f)
          \/ Crash
      BY DEF Next, TurnStep, Arrive, ResolveConversation, ResolveResponse, ResolveNothing,
         ResolveFails, Generate, FallsBack, GenerateFails, SaveConversation, SaveResponse,
         SaveFails, Answer, CreateConversation, UpdateSave, UpdateRefused, DeleteConversation,
         RemoveResponse, vars, editor
    <2>6. Old(erec'[e]) BY <2>2, <2>3, <2>4, <2>5 DEF Old
    <2> QED BY <2>6, <1>4
  <1>8. ASSUME NEW t \in Turns PROVE Good(plan[t])' /\ plan'[t].continuable
    <2>1. CASE plan'[t] = plan[t]
      BY <2>1, <1>4 DEF Old, RecordsInv
    <2>2. ASSUME NEW u \in Turns, ResolveConversation(u), plan'[t] # plan[t]
          PROVE  Good(plan[t])' /\ plan'[t].continuable
      <3>1. PICK c \in Conversations : plan'[t] = conversations[c] /\ conversations[c].continuable
        BY <2>2 DEF ResolveConversation, Typed, TypeOK
      <3>2. Old(plan'[t]) BY <3>1 DEF Old
      <3> QED BY <3>1, <3>2, <1>4
    <2>3. ASSUME NEW u \in Turns, ResolveResponse(u), plan'[t] # plan[t]
          PROVE  Good(plan[t])' /\ plan'[t].continuable
      <3>1. PICK id \in ResponseIds :
                plan'[t].turns = responses[id].turns /\ plan'[t].continuable
                /\ responses[id].continuable
        BY <2>3 DEF ResolveResponse, Typed, TypeOK
      <3>2. Old(responses[id]) BY DEF Old
      <3> QED BY <3>1, <3>2, <1>4
    <2>4. ASSUME NEW u \in Turns, ResolveNothing(u), plan'[t] # plan[t]
          PROVE  Good(plan[t])' /\ plan'[t].continuable
      <3>1. plan'[t] = FreshPlan BY <2>4 DEF ResolveNothing, Typed, TypeOK
      <3>2. FreshPlan.continuable BY DEF FreshPlan
      <3>3. Old(FreshPlan) BY DEF Old
      <3> QED BY <3>1, <3>2, <3>3, <1>4
    <2>5. \/ UNCHANGED plan
          \/ \E u \in Turns : ResolveConversation(u) \/ ResolveResponse(u) \/ ResolveNothing(u)
      BY DEF Next, TurnStep, Arrive, ResolveFails, Generate, FallsBack, GenerateFails,
         SaveConversation, SaveResponse, SaveFails, Answer, CreateConversation, UpdateLoad,
         UpdateSave, UpdateRefused, DeleteConversation, RemoveResponse, Crash, vars, turn
    <2> QED BY <2>1, <2>2, <2>3, <2>4, <2>5
  <1> QED BY <1>5, <1>6, <1>7, <1>8 DEF RecordsInv

LEMMA AnswersNext == ASSUME Inv, [Next]_vars PROVE AnswersInv'
  <1> USE DEF Inv, Typed
  <1>1. CASE \E t \in Turns : TurnStep(t)
    <2>1. PICK t \in Turns : TurnStep(t) BY <1>1
    <2>2. \A u \in Turns \ {t} : /\ pc'[u] = pc[u] /\ request'[u] = request[u]
                                 /\ answer'[u] = answer[u] /\ (u \in shown' <=> u \in shown)
      BY <2>1 DEF TurnStep, Arrive, ResolveConversation, ResolveResponse, ResolveNothing,
         ResolveFails, Generate, FallsBack, GenerateFails, SaveConversation, SaveResponse,
         SaveFails, Answer, TurnAt, TypeOK
    <2> DEFINE Part(u) ==
          /\ pc[u] \in Unanswered => answer[u].kind = "none"
          /\ pc[u] \in {"save_conversation", "save_response", "answer"} => answer[u].kind # "none"
          /\ pc[u] = "save_conversation" => request[u].prior \in Conversations
          /\ answer[u].id \in {u, Anonymous}
          /\ u \in shown => pc[u] = "done" /\ answer[u].kind # "none"
    <2>3. Part(t) BY DEF AnswersInv
    <2>4. CASE Arrive(t)
      <3>1. pc[t] = "idle" /\ pc'[t] = "resolve" BY <2>4 DEF Arrive, TurnAt, TypeOK
      <3>2. answer' = answer /\ shown' = shown BY <2>4 DEF Arrive
      <3>3. Part(t)' BY <2>3, <3>1, <3>2 DEF Unanswered
      <3> QED BY <2>2, <3>3 DEF AnswersInv
    <2>5. CASE ResolveConversation(t) \/ ResolveResponse(t) \/ ResolveNothing(t)
      <3>1. pc[t] = "resolve" /\ pc'[t] = "generate"
        BY <2>5 DEF ResolveConversation, ResolveResponse, ResolveNothing, TurnAt, TypeOK
      <3>2. answer' = answer /\ shown' = shown
        BY <2>5 DEF ResolveConversation, ResolveResponse, ResolveNothing
      <3>3. Part(t)' BY <2>3, <3>1, <3>2 DEF Unanswered
      <3> QED BY <2>2, <3>3 DEF AnswersInv
    <2>6. CASE \E kind \in {"portable", "nonportable"}, id \in ResponseIds : Generate(t, kind, id)
      <3>1. PICK kind \in {"portable", "nonportable"}, id \in {t, Anonymous} : Generate(t, kind, id)
        BY <2>6 DEF Generate
      <3>2. pc[t] = "generate" /\ pc'[t] \in {"save_conversation", "save_response", "answer"}
            /\ (pc'[t] = "save_conversation" => request[t].prior \in Conversations)
        BY <3>1 DEF Generate, TurnAt, AfterSave, TypeOK
      <3>3. answer'[t] = [kind |-> kind, id |-> id] /\ shown' = shown /\ request' = request
        BY <3>1 DEF Generate, TypeOK
      <3>4. Part(t)' BY <2>3, <3>2, <3>3 DEF Unanswered
      <3> QED BY <2>2, <3>4 DEF AnswersInv
    <2>7. CASE ResolveFails(t) \/ FallsBack(t) \/ GenerateFails(t) \/ SaveFails(t)
      <3>1. pc[t] \notin {"idle", "done"} /\ pc'[t] \in {"resolve", "done"}
            /\ (pc'[t] = "resolve" => pc[t] = "generate")
        BY <2>7 DEF ResolveFails, FallsBack, GenerateFails, SaveFails, TurnAt, TypeOK
      <3>2. answer' = answer /\ shown' = shown
        BY <2>7 DEF ResolveFails, FallsBack, GenerateFails, SaveFails
      <3>3. Part(t)' BY <2>3, <3>1, <3>2 DEF Unanswered
      <3> QED BY <2>2, <3>3 DEF AnswersInv
    <2>8. CASE SaveConversation(t) \/ SaveResponse(t)
      <3>1. pc[t] \in {"save_conversation", "save_response"}
            /\ pc'[t] \in {"save_response", "answer"}
        BY <2>8 DEF SaveConversation, SaveResponse, TurnAt, AfterSave, TypeOK
      <3>2. answer' = answer /\ shown' = shown BY <2>8 DEF SaveConversation, SaveResponse
      <3>3. Part(t)' BY <2>3, <3>1, <3>2 DEF Unanswered
      <3> QED BY <2>2, <3>3 DEF AnswersInv
    <2>9. CASE Answer(t)
      <3>1. pc[t] = "answer" /\ pc'[t] = "done" /\ answer' = answer
        BY <2>9 DEF Answer, TurnAt, TypeOK
      <3>2. Part(t)' BY <2>3, <3>1 DEF Unanswered
      <3> QED BY <2>2, <3>2 DEF AnswersInv
    <2> QED BY <2>1, <2>4, <2>5, <2>6, <2>7, <2>8, <2>9 DEF TurnStep
  <1>2. CASE Crash
    BY <1>2 DEF Crash, AnswersInv, Unanswered, TypeOK
  <1>3. CASE ~Crash /\ ~\E t \in Turns : TurnStep(t)
    <2>1. UNCHANGED turn
      BY <1>3 DEF Next, CreateConversation, UpdateLoad, UpdateSave, UpdateRefused,
         DeleteConversation, RemoveResponse, vars
    <2> QED BY <2>1 DEF turn, AnswersInv
  <1> QED BY <1>1, <1>2, <1>3

LEMMA InvNext == Inv /\ [Next]_vars => Inv'
  BY TypedNext, AnswersNext, RecordsNext DEF Inv

(* However requests interleave, every transcript stored or shown to a      *)
(* provider is one answered turn after exactly what its provider was shown *)
(* (Inv: a transcript is written once, and only moves afterwards).         *)
THEOREM Genuineness == Spec => []TranscriptsGenuine
  <1>1. Inv => TranscriptsGenuine
    BY DEF Inv, RecordsInv, Good, TranscriptsGenuine
  <1> QED BY InvInit, InvNext, <1>1, PTL DEF Spec

(* Nothing a provider is shown had another provider's reasoning or         *)
(* searches dropped from it (Inv: the continuable flag says so, and only   *)
(* what has it is loaded).                                                 *)
THEOREM Portability == Spec => []PromptsPortable
  <1>1. Inv => PromptsPortable
    BY DEF Inv, RecordsInv, Good, Portable, PromptsPortable
  <1> QED BY InvInit, InvNext, <1>1, PTL DEF Spec

-----------------------------------------------------------------------------
(* Answered turns stay stored                                              *)

(* A turn's own id is written once, when it is saved, and its answer is    *)
(* not due before.                                                         *)
StoredInv ==
  \A t \in Turns :
    /\ responses[t] # NoRecord => pc[t] \in {"answer", "done"}
    /\ (pc[t] = "answer" \/ t \in shown) /\ request[t].store /\ answer[t].id = t =>
         t \in removed \/ responses[t] = Stored(t)

(* Only a turn itself, as it is saved, writes the response of its id.      *)
LEMMA OwnResponse ==
  ASSUME Inv, NEW u \in Turns, SaveResponse(u) \/ SaveFails(u), NEW t \in Turns
  PROVE  \/ responses'[t] = responses[t]
         \/ /\ t = u /\ pc[t] = "save_response" /\ pc'[t] \in {"answer", "done"}
            /\ responses'[t] = Stored(t)
  <1>1. CASE UNCHANGED responses
    BY <1>1
  <1>2. CASE ~UNCHANGED responses
    <2>1. pc[u] = "save_response" /\ pc'[u] \in {"answer", "done"}
          /\ responses' = [responses EXCEPT ![answer[u].id] = Stored(u)]
      BY <1>2 DEF SaveResponse, SaveFails, TurnAt, Inv, Typed, TypeOK
    <2>2. t \in ResponseIds /\ t # Anonymous BY Constants DEF ResponseIds
    <2>3. answer[u].id \in {u, Anonymous} BY DEF Inv, AnswersInv
    <2> QED BY <2>1, <2>2, <2>3 DEF Inv, Typed, TypeOK
  <1> QED BY <1>1, <1>2

LEMMA StoredFrame ==
  ASSUME StoredInv, NEW t \in Turns, responses'[t] = responses[t],
         removed \subseteq removed',
         pc'[t] = pc[t] \/ (pc[t] = "answer" /\ pc'[t] = "done"),
         request'[t] = request[t], answer'[t] = answer[t], plan'[t] = plan[t],
         t \in shown' => t \in shown \/ pc[t] = "answer"
  PROVE  /\ responses'[t] # NoRecord => pc'[t] \in {"answer", "done"}
         /\ (pc'[t] = "answer" \/ t \in shown') /\ request'[t].store /\ answer'[t].id = t =>
              t \in removed' \/ responses'[t] = Stored(t)'
  <1>1. Stored(t)' = Stored(t) BY DEF Stored, Continued
  <1> QED BY <1>1 DEF StoredInv

LEMMA StoredNext == ASSUME Inv, StoredInv, [Next]_vars PROVE StoredInv'
  <1> SUFFICES ASSUME NEW t \in Turns
               PROVE  /\ responses'[t] # NoRecord => pc'[t] \in {"answer", "done"}
                      /\ (pc'[t] = "answer" \/ t \in shown') /\ request'[t].store /\ answer'[t].id = t =>
                           t \in removed' \/ responses'[t] = Stored(t)'
    BY Zenon DEF StoredInv
  <1>1. ASSUME NEW u \in Turns, TurnStep(u), u # t PROVE responses'[t] = responses[t]
    <2>1. SaveResponse(u) \/ SaveFails(u) => responses'[t] = responses[t]
      BY <1>1, OwnResponse
    <2> QED BY <1>1, <2>1 DEF TurnStep, Arrive, ResolveConversation, ResolveResponse,
       ResolveNothing, ResolveFails, Generate, FallsBack, GenerateFails, SaveConversation, Answer
  <1>2. CASE \E u \in Turns : u # t /\ TurnStep(u)
    <2>1. PICK u \in Turns : u # t /\ TurnStep(u) BY <1>2
    <2>2. /\ pc'[t] = pc[t] /\ request'[t] = request[t] /\ answer'[t] = answer[t]
          /\ plan'[t] = plan[t] /\ (t \in shown' <=> t \in shown) /\ removed' = removed
      BY <2>1 DEF TurnStep, Arrive, ResolveConversation, ResolveResponse, ResolveNothing,
         ResolveFails, Generate, FallsBack, GenerateFails, SaveConversation, SaveResponse,
         SaveFails, Answer, TurnAt, Inv, Typed, TypeOK
    <2>3. responses'[t] = responses[t] BY <1>1, <2>1
    <2> QED BY <2>2, <2>3, StoredFrame
  <1>3. CASE TurnStep(t)
    <2>1. CASE SaveResponse(t)
      <3>1. answer[t].id = t => responses'[t] = Stored(t)
        BY <2>1 DEF SaveResponse, Inv, Typed, TypeOK, ResponseIds
      <3>2. Stored(t)' = Stored(t) BY <2>1 DEF SaveResponse, Stored, Continued
      <3>3. pc'[t] = "answer" /\ answer' = answer BY <2>1 DEF SaveResponse, TurnAt, Inv, Typed, TypeOK
      <3> QED BY <3>1, <3>2, <3>3
    <2>2. CASE SaveFails(t)
      <3>1. pc'[t] = "done" BY <2>2 DEF SaveFails, TurnAt, Inv, Typed, TypeOK
      <3>2. t \notin shown' BY <2>2 DEF SaveFails, TurnAt, Inv, AnswersInv
      <3> QED BY <3>1, <3>2
    <2>3. CASE Answer(t)
      BY <2>3, StoredFrame DEF Answer, TurnAt, Inv, Typed, TypeOK
    <2>4. CASE ~SaveResponse(t) /\ ~SaveFails(t) /\ ~Answer(t)
      <3>1. responses' = responses /\ shown' = shown
        BY <1>3, <2>4 DEF TurnStep, Arrive, ResolveConversation, ResolveResponse, ResolveNothing,
           ResolveFails, Generate, FallsBack, GenerateFails, SaveConversation
      <3>2. pc[t] \notin {"answer", "done"}
        BY <1>3, <2>4 DEF TurnStep, Arrive, ResolveConversation, ResolveResponse, ResolveNothing,
           ResolveFails, Generate, FallsBack, GenerateFails, SaveConversation, TurnAt
      <3>3. pc'[t] = "answer" => ~request'[t].store
        BY <1>3, <2>4 DEF TurnStep, Arrive, ResolveConversation, ResolveResponse, ResolveNothing,
           ResolveFails, Generate, FallsBack, GenerateFails, SaveConversation, TurnAt, AfterSave,
           Inv, Typed, TypeOK
      <3>4. responses[t] = NoRecord /\ t \notin shown
        BY <3>2 DEF StoredInv, Inv, AnswersInv
      <3> QED BY <3>1, <3>3, <3>4
    <2> QED BY <2>1, <2>2, <2>3, <2>4
  <1>4. CASE Crash
    <2>1. UNCHANGED <<request, plan, answer, shown>> BY <1>4 DEF Crash
    <2>2. pc'[t] # "answer" /\ (pc[t] = "idle" <=> pc'[t] = "idle") /\ (pc'[t] # "idle" => pc'[t] = "done")
      BY <1>4 DEF Crash
    <2>3. Stored(t)' = Stored(t) BY <2>1 DEF Stored, Continued
    <2>4. t \in ResponseIds BY DEF ResponseIds
    <2>5. \/ responses'[t] = responses[t] /\ removed' = removed
          \/ /\ responses'[t] = NoRecord /\ removed \subseteq removed'
             /\ (responses[t] # NoRecord => t \in removed')
      BY <1>4, <2>4 DEF Crash
    <2>6. Stored(t) # NoRecord
      <3>1. plan[t].turns \in Seq(Turns) BY SequencesOfRecords DEF Inv, Typed
      <3>2. Continued(t) # <<>> BY <3>1 DEF Continued
      <3> QED BY <3>2 DEF Stored, NoRecord
    <2>7. responses[t] # NoRecord => pc[t] \in {"answer", "done"} BY DEF StoredInv
    <2>8. t \in shown /\ request[t].store /\ answer[t].id = t => t \in removed \/ responses[t] = Stored(t)
      BY DEF StoredInv
    <2> QED BY <2>1, <2>2, <2>3, <2>5, <2>6, <2>7, <2>8
  <1>5. CASE \E id \in ResponseIds : RemoveResponse(id)
    <2>1. PICK id \in ResponseIds : RemoveResponse(id) BY <1>5
    <2>2. UNCHANGED turn BY <2>1 DEF RemoveResponse
    <2>3. CASE id = t
      BY <2>1, <2>2, <2>3 DEF RemoveResponse, turn, Inv, Typed, TypeOK
    <2>4. CASE id # t
      <3>1. responses'[t] = responses[t] /\ removed \subseteq removed'
        BY <2>1, <2>4 DEF RemoveResponse, Inv, Typed, TypeOK
      <3> QED BY <2>2, <3>1, StoredFrame DEF turn
    <2> QED BY <2>3, <2>4
  <1>6. CASE ~Crash /\ ~(\E u \in Turns : TurnStep(u)) /\ ~\E id \in ResponseIds : RemoveResponse(id)
    <2>1. UNCHANGED <<turn, responses>> /\ removed \subseteq removed'
      BY <1>6 DEF Next, CreateConversation, UpdateLoad, UpdateSave, UpdateRefused,
         DeleteConversation, vars
    <2> QED BY <2>1, StoredFrame DEF turn
  <1> QED BY <1>2, <1>3, <1>4, <1>5, <1>6

LEMMA StoredInit == Init => StoredInv
  BY DEF Init, StoredInv, ResponseIds

(* An answered turn that was to be stored can be read and continued until  *)
(* it is removed (StoredInv: it is written before the answer is due, and   *)
(* by no other turn).                                                      *)
THEOREM StoredBeforeAnswered == Spec => []AnswersStored
  <1>1. Inv /\ StoredInv => AnswersStored
    <2> SUFFICES ASSUME Inv, StoredInv, NEW t \in shown, request[t].store, answer[t].id # Anonymous
                 PROVE  t \in removed \/ responses[t] = Stored(t)
      BY DEF AnswersStored
    <2>1. t \in Turns BY DEF Inv, Typed, TypeOK
    <2>2. answer[t].id = t BY <2>1 DEF Inv, AnswersInv
    <2> QED BY <2>1, <2>2 DEF StoredInv
  <1> QED BY InvInit, InvNext, StoredInit, StoredNext, <1>1, PTL DEF Spec

(* A stored response is never changed, only removed (the turn that owns    *)
(* its id is past its save).                                               *)
THEOREM ResponsesUntouched == Spec => ResponsesKept
  <1>1. Inv /\ StoredInv /\ [Next]_vars => Kept
    <2> SUFFICES ASSUME Inv, StoredInv, [Next]_vars PROVE Kept
      OBVIOUS
    <2> SUFFICES ASSUME NEW t \in Turns, responses[t] # NoRecord
                 PROVE  responses'[t] \in {responses[t], NoRecord}
      BY DEF Kept
    <2>1. pc[t] \in {"answer", "done"} BY DEF StoredInv
    <2>2. ASSUME NEW u \in Turns, SaveResponse(u) \/ SaveFails(u) PROVE responses'[t] = responses[t]
      BY <2>1, <2>2, OwnResponse
    <2>3. ASSUME NEW id \in ResponseIds, RemoveResponse(id)
          PROVE  responses'[t] \in {responses[t], NoRecord}
      BY <2>3 DEF RemoveResponse, Inv, Typed, TypeOK, ResponseIds
    <2>4. Crash => responses'[t] \in {responses[t], NoRecord}
      BY DEF Crash, ResponseIds
    <2>5. \/ UNCHANGED responses
          \/ \E u \in Turns : SaveResponse(u) \/ SaveFails(u)
          \/ \E id \in ResponseIds : RemoveResponse(id)
          \/ Crash
      BY DEF Next, TurnStep, Arrive, ResolveConversation, ResolveResponse, ResolveNothing,
         ResolveFails, Generate, FallsBack, GenerateFails, SaveConversation, Answer,
         CreateConversation, UpdateLoad, UpdateSave, UpdateRefused, DeleteConversation, vars
    <2> QED BY <2>2, <2>3, <2>4, <2>5
  <1> QED BY InvInit, InvNext, StoredInit, StoredNext, <1>1, PTL DEF Spec, ResponsesKept

-----------------------------------------------------------------------------
(* Conversations worked on by one request at a time                        *)

Holds(c, t)      == \E i \in DOMAIN conversations[c].turns : conversations[c].turns[i] = t
TurnWorks(t, c)  == request[t].prior = c /\ pc[t] \in {"generate", "save_conversation"}
EditorWorks(e, c) == eid[e] = c /\ epc[e] = "save"
Late(t, c)       == request[t].prior = c /\ (pc[t] \in {"save_response", "answer"} \/ t \in shown)

(* Whoever works on the conversation is alone and has it as it is; turns   *)
(* past their save are in it.                                              *)
Alone(c) ==
  /\ \A t, u \in Turns : TurnWorks(t, c) /\ TurnWorks(u, c) => t = u
  /\ \A e, f \in Editors : EditorWorks(e, c) /\ EditorWorks(f, c) => e = f
  /\ \A t \in Turns, e \in Editors : ~(TurnWorks(t, c) /\ EditorWorks(e, c))
Current(c) ==
  /\ \A t \in Turns : TurnWorks(t, c) => Exists(c) /\ plan[t] = conversations[c]
  /\ \A e \in Editors : EditorWorks(e, c) => Exists(c) /\ erec[e] = conversations[c]
LateKept(c) ==
  /\ \A t \in Turns : Late(t, c) => c \in removed \/ Holds(c, t)
  /\ c \in removed => ~Exists(c)

Serial(c) == Alone(c) /\ Current(c) /\ LateKept(c)

SerialInv == \A c \in Conversations \ overlapped : Serial(c)

LEMMA SerialInit == Init => SerialInv
  BY DEF Init, SerialInv, Serial, Alone, Current, LateKept, TurnWorks, EditorWorks, Late

(* Steps that leave the conversation alone.                                *)
Quiet(c) ==
  /\ conversations'[c] = conversations[c]
  /\ c \in removed' <=> c \in removed
  /\ \A t \in Turns : TurnWorks(t, c)' => TurnWorks(t, c) /\ plan'[t] = plan[t]
  /\ \A e \in Editors : EditorWorks(e, c)' => EditorWorks(e, c) /\ erec'[e] = erec[e]
  /\ \A t \in Turns : Late(t, c)' => Late(t, c)

LEMMA QuietStep ==
  ASSUME NEW c \in Conversations, Serial(c), Quiet(c) PROVE Serial(c)'
  <1>1. Alone(c)' BY Zenon DEF Serial, Alone, Quiet
  <1>2. Current(c)' BY DEF Serial, Current, Quiet, Exists
  <1>3. LateKept(c)' BY DEF Serial, LateKept, Quiet, Exists, Holds
  <1> QED BY <1>1, <1>2, <1>3 DEF Serial

(* A step of one turn disturbs the others in the conversation alone.       *)
LEMMA QuietTurn ==
  ASSUME Typed, NEW c \in Conversations, NEW t \in Turns,
         UNCHANGED editor, c \in removed' <=> c \in removed,
         conversations'[c] = conversations[c],
         \A u \in Turns \ {t} : pc'[u] = pc[u] /\ request'[u] = request[u] /\ plan'[u] = plan[u]
                                /\ (u \in shown' <=> u \in shown),
         TurnWorks(t, c)' => TurnWorks(t, c) /\ plan'[t] = plan[t],
         Late(t, c)' => Late(t, c)
  PROVE  Quiet(c)
  <1>1. \A u \in Turns \ {t} : /\ TurnWorks(u, c)' <=> TurnWorks(u, c)
                               /\ Late(u, c)' <=> Late(u, c)
    BY DEF TurnWorks, Late
  <1>2. \A e \in Editors : (EditorWorks(e, c)' <=> EditorWorks(e, c)) /\ erec'[e] = erec[e]
    BY DEF EditorWorks, editor
  <1> QED BY <1>1, <1>2 DEF Quiet

LEMMA SerialTurn ==
  ASSUME Inv, NEW c \in Conversations, Serial(c), c \notin overlapped',
         NEW t \in Turns, TurnStep(t)
  PROVE  Serial(c)'
  <1> USE DEF Inv, Typed
  <1>1. /\ \A u \in Turns \ {t} : /\ pc'[u] = pc[u] /\ request'[u] = request[u]
                                  /\ plan'[u] = plan[u] /\ (u \in shown' <=> u \in shown)
        /\ UNCHANGED editor /\ removed' = removed
    BY DEF TurnStep, Arrive, ResolveConversation, ResolveResponse, ResolveNothing,
       ResolveFails, Generate, FallsBack, GenerateFails, SaveConversation, SaveResponse,
       SaveFails, Answer, TurnAt, TypeOK
  <1>2. CASE Arrive(t)
    <2>1. pc[t] = "idle" /\ pc'[t] = "resolve" /\ shown' = shown /\ conversations' = conversations
      BY <1>2 DEF Arrive, TurnAt, TypeOK
    <2>2. ~TurnWorks(t, c)' /\ ~Late(t, c)' BY <2>1 DEF TurnWorks, Late, AnswersInv
    <2> QED BY <1>1, <2>1, <2>2, QuietTurn, QuietStep
  <1>3. CASE ResolveConversation(t)
    <2>1. /\ pc[t] = "resolve" /\ pc' = [pc EXCEPT ![t] = "generate"]
          /\ UNCHANGED <<conversations, request, shown>>
          /\ plan'[t] = conversations[request[t].prior] /\ Exists(request[t].prior)
      BY <1>3 DEF ResolveConversation, TurnAt, TypeOK
    <2>2. ~Late(t, c)' BY <2>1 DEF Late, AnswersInv, TypeOK
    <2>3. CASE request[t].prior # c
      <3>1. ~TurnWorks(t, c)' BY <2>1, <2>3 DEF TurnWorks
      <3> QED BY <1>1, <2>1, <2>2, <3>1, QuietTurn, QuietStep
    <2>4. CASE request[t].prior = c
      <3>1. Working(c) = {} BY <1>3, <2>4 DEF ResolveConversation, Touches
      <3>2. (\A u \in Turns : ~TurnWorks(u, c)) /\ \A e \in Editors : ~EditorWorks(e, c)
        BY <3>1 DEF Working, TurnWorks, EditorWorks
      <3>3. /\ \A u \in Turns \ {t} : /\ TurnWorks(u, c)' <=> TurnWorks(u, c)
                                      /\ Late(u, c)' <=> Late(u, c)
            /\ \A e \in Editors : EditorWorks(e, c)' <=> EditorWorks(e, c)
        BY <1>1 DEF TurnWorks, Late, EditorWorks, editor
      <3>4. Alone(c)' BY <3>2, <3>3 DEF Alone
      <3>5. Current(c)' BY <2>1, <2>4, <3>2, <3>3 DEF Current, Exists
      <3>6. LateKept(c)' BY <1>1, <2>1, <2>2, <3>3 DEF Serial, LateKept, Holds, Exists
      <3> QED BY <3>4, <3>5, <3>6 DEF Serial
    <2> QED BY <2>3, <2>4
  <1>4. CASE ResolveResponse(t) \/ ResolveNothing(t)
    <2>1. UNCHANGED <<conversations, request, shown>>
      BY <1>4 DEF ResolveResponse, ResolveNothing
    <2>2. request[t].prior \in ResponseIds \cup {Nothing}
      BY <1>4 DEF ResolveResponse, ResolveNothing
    <2>3. request[t].prior # c BY <2>2, Constants DEF ResponseIds
    <2>4. ~TurnWorks(t, c)' /\ ~Late(t, c)' BY <2>1, <2>3 DEF TurnWorks, Late
    <2> QED BY <1>1, <2>1, <2>4, QuietTurn, QuietStep
  <1>5. CASE \E kind \in {"portable", "nonportable"}, id \in ResponseIds : Generate(t, kind, id)
    <2>1. /\ pc[t] = "generate" /\ UNCHANGED <<conversations, request, shown, plan>>
          /\ request[t].prior \in Conversations => pc'[t] = "save_conversation"
      BY <1>5 DEF Generate, TurnAt, TypeOK
    <2>2. t \notin shown BY <2>1 DEF AnswersInv
    <2>3. /\ TurnWorks(t, c)' => TurnWorks(t, c) /\ plan'[t] = plan[t]
          /\ ~Late(t, c)'
      BY <2>1, <2>2 DEF TurnWorks, Late
    <2> QED BY <1>1, <2>1, <2>3, QuietTurn, QuietStep
  <1>6. CASE ResolveFails(t) \/ FallsBack(t) \/ GenerateFails(t) \/ SaveFails(t) \/ Answer(t)
    <2>1. /\ pc'[t] \in {"resolve", "done"}
          /\ UNCHANGED <<conversations, request, plan>>
          /\ shown' = shown \/ (pc[t] = "answer" /\ shown' = shown \cup {t})
      BY <1>6 DEF ResolveFails, FallsBack, GenerateFails, SaveFails, Answer, TurnAt, TypeOK
    <2>2. ~TurnWorks(t, c)' /\ (Late(t, c)' => Late(t, c)) BY <2>1 DEF TurnWorks, Late
    <2> QED BY <1>1, <2>1, <2>2, QuietTurn, QuietStep
  <1>7. CASE SaveResponse(t)
    <2>1. /\ pc[t] = "save_response" /\ pc'[t] = "answer"
          /\ UNCHANGED <<conversations, request, plan, shown>>
      BY <1>7 DEF SaveResponse, TurnAt, TypeOK
    <2>2. ~TurnWorks(t, c)' /\ (Late(t, c)' => Late(t, c)) BY <2>1 DEF TurnWorks, Late
    <2> QED BY <1>1, <2>1, <2>2, QuietTurn, QuietStep
  <1>8. CASE SaveConversation(t)
    <2>1. /\ pc[t] = "save_conversation" /\ pc'[t] \in {"save_response", "answer"}
          /\ UNCHANGED <<request, plan, shown>>
      BY <1>8 DEF SaveConversation, TurnAt, AfterSave, TypeOK
    <2>2. CASE request[t].prior # c
      <3>1. conversations'[c] = conversations[c]
        BY <1>8, <2>2 DEF SaveConversation, TypeOK
      <3>2. ~TurnWorks(t, c)' /\ ~Late(t, c)' BY <2>1, <2>2 DEF TurnWorks, Late
      <3> QED BY <1>1, <3>1, <3>2, QuietTurn, QuietStep
    <2>3. CASE request[t].prior = c
      <3>1. TurnWorks(t, c) BY <2>1, <2>3 DEF TurnWorks
      <3>2. /\ Exists(c) /\ plan[t] = conversations[c] /\ c \notin removed
            /\ \A u \in Turns \ {t} : ~TurnWorks(u, c)
            /\ \A e \in Editors : ~EditorWorks(e, c)
        BY <3>1 DEF Serial, Alone, Current, LateKept
      <3>3. conversations'[c].turns = Append(conversations[c].turns, t)
        BY <1>8, <2>3, <3>2 DEF SaveConversation, Continued, TypeOK
      <3>4. conversations[c].turns \in Seq(Turns) BY SequencesOfRecords
      <3>5. Holds(c, t)'
        <4>1. Len(conversations[c].turns) + 1 \in DOMAIN conversations'[c].turns
              /\ conversations'[c].turns[Len(conversations[c].turns) + 1] = t
          BY <3>3, <3>4
        <4> QED BY <4>1 DEF Holds
      <3>6. ASSUME NEW u \in Turns, Holds(c, u) PROVE Holds(c, u)'
        <4>1. PICK i \in DOMAIN conversations[c].turns : conversations[c].turns[i] = u
          BY <3>6 DEF Holds
        <4>2. i \in DOMAIN conversations'[c].turns /\ conversations'[c].turns[i] = u
          BY <3>3, <3>4, <4>1
        <4> QED BY <4>2 DEF Holds
      <3>7. /\ \A u \in Turns \ {t} : /\ TurnWorks(u, c)' <=> TurnWorks(u, c)
                                      /\ Late(u, c)' <=> Late(u, c)
            /\ \A e \in Editors : EditorWorks(e, c)' <=> EditorWorks(e, c)
            /\ ~TurnWorks(t, c)'
        BY <1>1, <2>1 DEF TurnWorks, Late, EditorWorks, editor
      <3>8. Alone(c)' /\ Current(c)' BY <3>2, <3>7 DEF Alone, Current
      <3>9. LateKept(c)' BY <1>1, <3>2, <3>5, <3>6, <3>7 DEF Serial, LateKept
      <3> QED BY <3>8, <3>9 DEF Serial
    <2> QED BY <2>2, <2>3
  <1> QED BY <1>2, <1>3, <1>4, <1>5, <1>6, <1>7, <1>8 DEF TurnStep

LEMMA SerialOther ==
  ASSUME Inv, NEW c \in Conversations, Serial(c), c \notin overlapped', [Next]_vars,
         ~\E t \in Turns : TurnStep(t)
  PROVE  Serial(c)'
  <1> USE DEF Inv, Typed
  <1>1. ASSUME UNCHANGED <<turn, editor>>, conversations'[c] = conversations[c],
               c \in removed' <=> c \in removed
        PROVE  Serial(c)'
    <2>1. Quiet(c) BY <1>1 DEF Quiet, TurnWorks, EditorWorks, Late, turn, editor
    <2> QED BY <2>1, QuietStep
  <1>2. ASSUME NEW d \in Conversations, DeleteConversation(d) PROVE Serial(c)'
    <2>1. UNCHANGED <<turn, editor>> BY <1>2 DEF DeleteConversation
    <2>2. CASE d # c
      BY <1>1, <1>2, <2>1, <2>2 DEF DeleteConversation, TypeOK
    <2>3. CASE d = c
      <3>1. Working(c) = {} BY <1>2, <2>3 DEF DeleteConversation, Touches
      <3>2. (\A u \in Turns : ~TurnWorks(u, c)') /\ \A e \in Editors : ~EditorWorks(e, c)'
        BY <2>1, <3>1 DEF Working, TurnWorks, EditorWorks, turn, editor
      <3>3. c \in removed' /\ ~Exists(c)' BY <1>2, <2>3 DEF DeleteConversation, Exists, TypeOK
      <3> QED BY <3>2, <3>3 DEF Serial, Alone, Current, LateKept
    <2> QED BY <2>2, <2>3
  <1>3. ASSUME NEW d \in Conversations, NEW metadata \in Metadata, CreateConversation(d, metadata)
        PROVE  Serial(c)'
    <2>1. UNCHANGED <<turn, editor>> /\ removed' = removed BY <1>3 DEF CreateConversation
    <2>2. CASE d # c
      BY <1>1, <1>3, <2>1, <2>2 DEF CreateConversation, TypeOK
    <2>3. CASE d = c
      <3>1. ~Exists(c) /\ c \notin removed' BY <1>3, <2>3 DEF CreateConversation
      <3>2. (\A u \in Turns : ~TurnWorks(u, c)) /\ \A e \in Editors : ~EditorWorks(e, c)
        BY <3>1 DEF Serial, Current
      <3>3. \A u \in Turns : ~Late(u, c)
        <4>1. \A u \in Turns : ~Holds(c, u)
          <5>1. conversations[c].turns = <<>> BY <3>1, Constants DEF Exists
          <5> QED BY <5>1 DEF Holds
        <4> QED BY <2>1, <3>1, <4>1 DEF Serial, LateKept
      <3>4. (\A u \in Turns : ~TurnWorks(u, c)' /\ ~Late(u, c)') /\ \A e \in Editors : ~EditorWorks(e, c)'
        BY <2>1, <3>2, <3>3 DEF TurnWorks, EditorWorks, Late, turn, editor
      <3> QED BY <3>1, <3>4 DEF Serial, Alone, Current, LateKept
    <2> QED BY <2>2, <2>3
  <1>4. ASSUME NEW e \in Editors, NEW d \in Conversations, UpdateLoad(e, d) PROVE Serial(c)'
    <2>1. /\ UNCHANGED <<conversations, turn, removed>> /\ epc[e] = "idle"
          /\ epc'[e] = "save" /\ eid'[e] = d /\ erec'[e] = conversations[d] /\ Exists(d)
          /\ \A f \in Editors \ {e} : epc'[f] = epc[f] /\ eid'[f] = eid[f] /\ erec'[f] = erec[f]
      BY <1>4 DEF UpdateLoad, TypeOK
    <2>2. /\ \A u \in Turns : /\ TurnWorks(u, c)' <=> TurnWorks(u, c)
                              /\ Late(u, c)' <=> Late(u, c)
          /\ \A u \in Turns : plan'[u] = plan[u]
          /\ \A f \in Editors \ {e} : EditorWorks(f, c)' <=> EditorWorks(f, c)
      BY <2>1 DEF TurnWorks, Late, EditorWorks, turn
    <2>3. CASE d # c
      <3>1. ~EditorWorks(e, c)' BY <2>1, <2>3 DEF EditorWorks
      <3>2. Quiet(c) BY <2>1, <2>2, <3>1 DEF Quiet
      <3> QED BY <3>2, QuietStep
    <2>4. CASE d = c
      <3>1. Working(c) = {} BY <1>4, <2>4 DEF UpdateLoad, Touches
      <3>2. (\A u \in Turns : ~TurnWorks(u, c)) /\ \A f \in Editors : ~EditorWorks(f, c)
        BY <3>1 DEF Working, TurnWorks, EditorWorks
      <3>3. Alone(c)' BY <2>2, <3>2 DEF Alone
      <3>4. Current(c)' BY <2>1, <2>2, <2>4, <3>2 DEF Current, Exists
      <3>5. LateKept(c)' BY <2>1, <2>2 DEF Serial, LateKept, Holds, Exists
      <3> QED BY <3>3, <3>4, <3>5 DEF Serial
    <2> QED BY <2>3, <2>4
  <1>5. ASSUME NEW e \in Editors, Idles(e), UNCHANGED <<turn, removed>> PROVE
               /\ \A f \in Editors : EditorWorks(f, c)' => EditorWorks(f, c) /\ erec'[f] = erec[f]
               /\ \A u \in Turns : /\ TurnWorks(u, c)' <=> TurnWorks(u, c)
                                   /\ Late(u, c)' <=> Late(u, c)
                                   /\ plan'[u] = plan[u]
               /\ ~EditorWorks(e, c)'
    BY <1>5 DEF Idles, EditorWorks, TurnWorks, Late, turn, TypeOK
  <1>6. ASSUME NEW e \in Editors, NEW metadata \in Metadata, UpdateSave(e, metadata)
        PROVE  Serial(c)'
    <2>1. Idles(e) /\ UNCHANGED <<turn, removed>> BY <1>6 DEF UpdateSave
    <2>2. CASE eid[e] # c
      <3>1. conversations'[c] = conversations[c] BY <1>6, <2>2 DEF UpdateSave, TypeOK
      <3>2. Quiet(c) BY <1>5, <2>1, <3>1 DEF Quiet
      <3> QED BY <3>2, QuietStep
    <2>3. CASE eid[e] = c
      <3>1. EditorWorks(e, c) BY <1>6, <2>3 DEF UpdateSave, EditorWorks
      <3>2. /\ \A u \in Turns : ~TurnWorks(u, c)
            /\ \A f \in Editors \ {e} : ~EditorWorks(f, c)
            /\ Exists(c) /\ erec[e] = conversations[c] /\ c \notin removed
        BY <3>1 DEF Serial, Alone, Current, LateKept
      <3>3. (\A u \in Turns : ~TurnWorks(u, c)') /\ \A f \in Editors : ~EditorWorks(f, c)'
        BY <1>5, <2>1, <3>2
      <3>4. conversations'[c] = [erec[e] EXCEPT !.metadata = metadata]
        BY <1>6, <2>3 DEF UpdateSave, TypeOK
      <3>5. erec[e] \in Conversation BY <1>6 DEF UpdateSave, EditsInv
      <3>6. conversations'[c].turns = conversations[c].turns
        BY <3>2, <3>4, <3>5 DEF Conversation
      <3>7. \A u \in Turns : Holds(c, u)' <=> Holds(c, u) BY <3>6 DEF Holds
      <3>8. LateKept(c)' BY <1>5, <2>1, <3>2, <3>7 DEF Serial, LateKept
      <3> QED BY <3>3, <3>8 DEF Serial, Alone, Current
    <2> QED BY <2>2, <2>3
  <1>7. ASSUME NEW e \in Editors, NEW metadata \in Metadata, UpdateRefused(e, metadata)
        PROVE  Serial(c)'
    <2>1. Idles(e) /\ UNCHANGED <<turn, removed, conversations>> BY <1>7 DEF UpdateRefused
    <2>2. Quiet(c) BY <1>5, <2>1 DEF Quiet
    <2> QED BY <2>2, QuietStep
  <1>8. ASSUME NEW id \in ResponseIds, RemoveResponse(id) PROVE Serial(c)'
    <2>1. id # c BY Constants
    <2>2. UNCHANGED <<turn, editor, conversations>> /\ (c \in removed' <=> c \in removed)
      BY <1>8, <2>1 DEF RemoveResponse
    <2> QED BY <1>1, <2>2
  <1>9. CASE Crash
    <2>1. /\ \A u \in Turns : ~TurnWorks(u, c)' /\ (Late(u, c)' => Late(u, c))
          /\ \A e \in Editors : ~EditorWorks(e, c)'
      BY <1>9 DEF Crash, TurnWorks, Late, EditorWorks
    <2>2. CASE Persistent
      <3>1. UNCHANGED <<conversations, removed>> BY <1>9, <2>2 DEF Crash
      <3>2. Quiet(c) BY <2>1, <3>1 DEF Quiet
      <3> QED BY <3>2, QuietStep
    <2>3. CASE ~Persistent
      <3>1. /\ conversations'[c] = Absent
            /\ c \in removed' <=> c \in removed \/ Exists(c)
        BY <1>9, <2>3, Constants DEF Crash
      <3>2. ASSUME NEW u \in Turns, Late(u, c) PROVE c \in removed'
        <4>1. CASE Exists(c) BY <3>1, <4>1
        <4>2. CASE ~Exists(c)
          <5>1. conversations[c].turns = <<>> BY <4>2, Constants DEF Exists
          <5>2. ~Holds(c, u) BY <5>1 DEF Holds
          <5> QED BY <3>1, <3>2, <5>2 DEF Serial, LateKept
        <4> QED BY <4>1, <4>2
      <3> QED BY <2>1, <3>1, <3>2 DEF Serial, Alone, Current, LateKept, Exists
    <2> QED BY <2>2, <2>3
  <1>10. CASE UNCHANGED vars
    BY <1>1, <1>10 DEF vars, turn, editor
  <1> QED BY <1>2, <1>3, <1>4, <1>6, <1>7, <1>8, <1>9, <1>10 DEF Next

LEMMA SerialNext == Inv /\ SerialInv /\ [Next]_vars => SerialInv'
  <1> SUFFICES ASSUME Inv, SerialInv, [Next]_vars, NEW c \in Conversations, c \notin overlapped'
               PROVE  Serial(c)'
    BY DEF SerialInv
  <1>1. overlapped \subseteq overlapped'
    BY DEF Next, TurnStep, Arrive, ResolveConversation, ResolveResponse, ResolveNothing,
       ResolveFails, Generate, FallsBack, GenerateFails, SaveConversation, SaveResponse,
       SaveFails, Answer, CreateConversation, UpdateLoad, UpdateSave, UpdateRefused,
       DeleteConversation, RemoveResponse, Crash, Touches, vars
  <1>2. Serial(c) BY <1>1 DEF SerialInv
  <1> QED BY <1>2, SerialTurn, SerialOther

(* A conversation that no two requests worked on at once keeps every turn  *)
(* its clients were answered, and stays deleted (Serial: the one who works *)
(* on it has it as it is).                                                 *)
THEOREM SerialTurnsStay == Spec => []SerialTurnsKept
  <1>1. Inv /\ SerialInv => SerialTurnsKept
    <2> SUFFICES ASSUME Inv, SerialInv, NEW c \in Conversations \ overlapped
                 PROVE  IF c \in removed THEN ~Exists(c)
                        ELSE \A t \in shown : request[t].prior = c =>
                               \E i \in DOMAIN conversations[c].turns : conversations[c].turns[i] = t
      BY DEF SerialTurnsKept
    <2>1. LateKept(c) BY DEF SerialInv, Serial
    <2>2. shown \subseteq Turns BY DEF Inv, Typed, TypeOK
    <2> QED BY <2>1, <2>2 DEF LateKept, Late, Holds
  <1> QED BY InvInit, InvNext, SerialInit, SerialNext, <1>1, PTL DEF Spec
=============================================================================
