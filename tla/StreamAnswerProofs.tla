------------------------- MODULE StreamAnswerProofs -------------------------
(***************************************************************************)
(* The answer of a lawful upstream, from what its decoder has passed on to *)
(* what the client has read and what is stored: the lemmas follow the      *)
(* decoders, event by event, then the turn that is kept, then each action  *)
(* of the pipeline; the last are the theorems about the whole stream.  The *)
(* reader of canonical events, the encoders and the induction over blocks  *)
(* are in ResponseStreamProofs.                                            *)
(***************************************************************************)
EXTENDS ResponseStreamProofs

(***************************************************************************)
(* What the upstream has sent, and the reader of all of it.                *)
(***************************************************************************)

(* The reader stands at the end of these blocks, block i being the one     *)
(* after i others.                                                         *)
Sent(b, s) ==
  /\ Tells(b, s)
  /\ \A i \in Indexes : s.kind[i] # "none" => i < Len(b) /\ b[i + 1].kind = s.kind[i]
  /\ \A i \in s.open : Stands(b, i + 1, s, i)

LEMMA SentSame ==
  ASSUME NEW b, NEW s \in Spots, Sent(b, s), NEW t, SameAnswer(s, t), t.open \subseteq s.open
  PROVE  Sent(b, t)
<1>1. Tells(b, t)
  BY TellsSame DEF Sent
<1>2. \A i \in t.open : Stands(b, i + 1, t, i)
  BY StandsSame DEF Sent
<1> QED
  BY <1>1, <1>2 DEF Sent, SameAnswer

LEMMA StartEvent ==
  ASSUME NEW i \in Indexes, NEW kind \in Kinds
  PROVE  LET e == ContentStart(i, kind, Empty) IN
         /\ e \in Event /\ Starts(e) /\ e.index = i /\ e.kind = kind /\ e.piece = Empty
         /\ e.type = "tool_call_start" <=> e.kind = "tool"
         /\ e.type # "usage"
<1>1. ContentStart(i, kind, Empty) \in Event
  BY EventsTyped, InnerMiddle, StreamBounds DEF Empty
<1>2. LET e == ContentStart(i, kind, Empty) IN
      /\ Starts(e) /\ e.index = i /\ e.kind = kind /\ e.piece = Empty
      /\ e.type = "tool_call_start" <=> e.kind = "tool"
      /\ e.type # "usage"
  BY DEF ContentStart, Plain, Starts
<1> QED
  BY <1>1, <1>2

LEMMA DeltaEvent ==
  ASSUME NEW i \in Indexes, NEW kind \in Kinds, NEW p \in Nat
  PROVE  LET e == Delta(i, kind, p) IN
         /\ e \in Event /\ Deltas(e) /\ e.index = i /\ e.piece = p /\ DeltaKind(e) = kind
<1>1. Delta(i, kind, p) \in Event
  BY EventsTyped, InnerMiddle
<1>2. LET e == Delta(i, kind, p) IN
      Deltas(e) /\ e.index = i /\ e.piece = p /\ DeltaKind(e) = kind
  BY DEF Delta, Plain, Deltas, DeltaKind, Kinds
<1> QED
  BY <1>1, <1>2

LEMMA StartLeads ==
  ASSUME NEW s \in Spots, s.ended = "no", s.begun, NEW i \in Indexes, NEW kind \in Kinds,
         Fresh(s, i)
  PROVE  Leads(<<ContentStart(i, kind, Empty)>>, s, Starting(s, i, kind))
<1> DEFINE e == ContentStart(i, kind, Empty)
<1>1. /\ e \in Event /\ Starts(e) /\ e.index = i /\ e.kind = kind /\ e.piece = Empty
      /\ e.type = "tool_call_start" <=> e.kind = "tool"
  BY StartEvent
<1> HIDE DEF e
<1>2. Step(s, e, Starting(s, i, kind))
  BY <1>1 DEF Step, Opens
<1>3. Leads(<<e>>, s, Starting(s, i, kind))
  BY <1>1, <1>2, LeadsOne
<1> QED
  BY <1>3 DEF e

LEMMA DeltaLeads ==
  ASSUME NEW s \in Spots, s.ended = "no", s.begun, NEW i \in s.open, NEW p \in Nat,
         Newest(s, i) \/ s.kind[i] = "tool"
  PROVE  Leads(<<Delta(i, s.kind[i], p)>>, s, Saying(s, i, p))
<1> DEFINE e == Delta(i, s.kind[i], p)
<1>1. /\ e \in Event /\ Deltas(e) /\ e.index = i /\ e.piece = p /\ DeltaKind(e) = s.kind[i]
  <2>1. i \in Indexes /\ s.kind[i] \in Kinds
    BY SpotParts DEF Kinds
  <2> QED
    BY <2>1, DeltaEvent
<1> HIDE DEF e
<1>2. Step(s, e, Saying(s, i, p))
  BY <1>1 DEF Step, Speaks
<1>3. Leads(<<e>>, s, Saying(s, i, p))
  BY <1>1, <1>2, LeadsOne
<1> QED
  BY <1>3 DEF e

LEMMA SentStarts ==
  ASSUME NEW b \in Seq(Block), NEW s \in Spots, Sent(b, s), NEW i \in Indexes, i = Len(b),
         NEW kind \in Kinds, NEW at \in Nat
  PROVE  /\ Fresh(s, i)
         /\ Append(b, Opened(at, kind, <<>>)) \in Seq(Block)
         /\ Sent(Append(b, Opened(at, kind, <<>>)), Starting(s, i, kind))
<1> DEFINE t == Starting(s, i, kind)
           x == Opened(at, kind, <<>>)
           c == Append(b, x)
<1>1. i \in Nat /\ Len(b) \in Nat /\ s.open \subseteq Indexes
  BY StreamBounds, LenProperties, SpotParts DEF Indexes
<1>2. Fresh(s, i)
  <2> SUFFICES ASSUME NEW j \in Indexes, j >= i, s.kind[j] # "none"
               PROVE  FALSE
    BY DEF Fresh
  <2>1. j < Len(b) /\ j \in Nat
    BY StreamBounds DEF Sent, Indexes
  <2> QED
    BY <1>1, <2>1
<1>3. x \in Block /\ x.kind = kind /\ x.data = <<>> /\ x.kind \in Alike(kind)
  BY DEF Opened, Block, Alike, Kinds
<1> HIDE DEF x
<1>4. /\ c \in Seq(Block) /\ Len(c) = Len(b) + 1 /\ c[Len(b) + 1] = x
      /\ \A k \in 1 .. Len(b) : c[k] = b[k]
  BY <1>3, AppendProperties
<1>5. Tells(c, t) /\ Adds(s, t, i, kind) /\ t \in Spots
  BY <1>2, <1>3, TellsMore DEF Sent
<1>6. /\ t.open = s.open \cup {i} /\ t.kind[i] = kind
      /\ \A j \in Indexes : j # i => t.kind[j] = s.kind[j]
  BY <1>2, StartingSpot
<1> HIDE DEF t
<1>7. ASSUME NEW j \in Indexes, t.kind[j] # "none"
      PROVE  j < Len(c) /\ c[j + 1].kind = t.kind[j]
  <2>1. CASE j = i
    BY <1>1, <1>3, <1>4, <1>6, <2>1
  <2>2. CASE j # i
    <3>1. j < Len(b) /\ b[j + 1].kind = s.kind[j] /\ j \in Nat
      BY <1>6, <1>7, <2>2, StreamBounds DEF Sent, Indexes
    <3>2. j + 1 \in 1 .. Len(b)
      BY <1>1, <3>1
    <3> QED
      BY <1>1, <1>4, <1>6, <2>2, <3>1, <3>2
  <2> QED
    BY <2>1, <2>2
<1>8. ASSUME NEW j \in t.open
      PROVE  Stands(c, j + 1, t, j)
  <2>1. CASE j = i
    <3>1. ToolCalls(b) = s.calls
      BY DEF Sent, Tells
    <3> QED
      BY <1>3, <1>5, <2>1, <3>1, StandsAtEnd
  <2>2. CASE j # i
    <3>1. j \in s.open /\ j \in Indexes
      BY <1>1, <1>6, <2>2
    <3>2. Stands(b, j + 1, s, j)
      BY <3>1 DEF Sent
    <3> QED
      BY <1>3, <1>5, <3>1, <3>2, StandsStill
  <2> QED
    BY <2>1, <2>2
<1>9. Sent(c, t)
  BY <1>5, <1>7, <1>8 DEF Sent
<1> HIDE DEF c
<1> QED
  BY <1>2, <1>4, <1>9 DEF c, t, x

(* A block of which nothing was heard yet, the last one, starts.           *)
LEMMA SentLate ==
  ASSUME NEW b \in Seq(Block), NEW s \in Spots, Sent(b, s), s.open = {},
         NEW i \in Indexes, i + 1 = Len(b), s.kind[i] = "none", b[i + 1].kind = "reasoning"
  PROVE  Fresh(s, i) /\ Sent(b, Starting(s, i, "reasoning"))
<1> DEFINE kind == "reasoning"
           t == Starting(s, i, kind)
<1>1. i \in Nat /\ Len(b) \in Nat /\ DOMAIN b = 1 .. Len(b)
  BY StreamBounds, LenProperties DEF Indexes
<1>2. Fresh(s, i)
  <2> SUFFICES ASSUME NEW j \in Indexes, j >= i, s.kind[j] # "none"
               PROVE  FALSE
    BY DEF Fresh
  <2>1. j < Len(b) /\ j \in Nat
    BY StreamBounds DEF Sent, Indexes
  <2>2. j = i
    BY <1>1, <2>1
  <2> QED
    BY <2>2
<1>3. kind \in Kinds /\ kind # "tool" /\ kind # "none"
  BY DEF Kinds
<1>4. b[i + 1].kind = kind
  OBVIOUS
<1> HIDE DEF kind
<1>5. /\ t.open = s.open \cup {i} /\ t.kind[i] = kind
      /\ t.text = s.text /\ t.reasoning = s.reasoning
      /\ \A j \in Indexes : j # i => t.kind[j] = s.kind[j]
  BY <1>2, <1>3, StartingSpot
<1>6. t.calls = s.calls
  BY <1>2, <1>3, StartingSpot
<1> HIDE DEF t
<1>7. Tells(b, t)
  BY <1>5, <1>6 DEF Sent, Tells, Reads
<1>8. \A j \in Indexes : t.kind[j] # "none" => j < Len(b) /\ b[j + 1].kind = t.kind[j]
  BY <1>1, <1>4, <1>5 DEF Sent
<1>9. Stands(b, i + 1, t, i)
  BY <1>1, <1>3, <1>4, <1>5 DEF Stands, Alike, kind
<1>10. Sent(b, t)
  BY <1>5, <1>7, <1>8, <1>9 DEF Sent
<1> QED
  BY <1>2, <1>10 DEF t, kind

LEMMA SentSays ==
  ASSUME NEW b \in Seq(Block), NEW c \in Seq(Block), NEW s \in Spots, Sent(b, s),
         NEW i \in s.open, Newest(s, i) \/ s.kind[i] = "tool",
         NEW p \in Nat, Grows(b, c, i + 1, Pieces(p))
  PROVE  Sent(c, Saying(s, i, p))
<1> DEFINE t == Saying(s, i, p)
<1>1. i \in Indexes /\ s.kind[i] # "none" /\ Len(b) \in Nat /\ DOMAIN b = 1 .. Len(b)
      /\ DOMAIN c = 1 .. Len(c) /\ s.open \subseteq Indexes
  BY SpotParts, LenProperties
<1>2. /\ t \in Spots /\ t.kind = s.kind /\ t.open = s.open /\ t.call = s.call
      /\ SaidMore(s, t, i, p)
  BY <1>1, SayingSpot
<1> HIDE DEF t
<1>3. Takes(b, i + 1, s, i)
  BY StandsTakes DEF Sent
<1>4. Tells(c, t)
  <2>1. Reads(b, s) /\ ToolCalls(b) = s.calls
    BY DEF Sent, Tells
  <2> QED
    BY <1>1, <1>2, <1>3, <2>1, TakesGrows DEF Tells
<1>5. Aligned(b, c)
  BY GrowsAligned
<1>6. ASSUME NEW j \in Indexes, t.kind[j] # "none"
      PROVE  j < Len(c) /\ c[j + 1].kind = t.kind[j]
  <2>1. j < Len(b) /\ b[j + 1].kind = s.kind[j] /\ j \in Nat
    BY <1>2, <1>6, StreamBounds DEF Sent, Indexes
  <2>2. j + 1 \in 1 .. Len(b)
    BY <1>1, <2>1
  <2> QED
    BY <1>2, <1>5, <2>1, <2>2 DEF Aligned
<1>7. ASSUME NEW j \in t.open
      PROVE  Stands(c, j + 1, t, j)
  <2>1. Stands(b, j + 1, s, j)
    BY <1>2 DEF Sent
  <2> QED
    BY <1>2, <1>5, <2>1, StandsAligned
<1>8. Sent(c, t)
  BY <1>4, <1>6, <1>7 DEF Sent
<1> QED
  BY <1>8 DEF t

(* The empty piece says nothing.                                           *)
LEMMA SentNothing ==
  ASSUME NEW b \in Seq(Block), NEW c \in Seq(Block), NEW s \in Spots, Sent(b, s),
         NEW k, Grows(b, c, k, <<>>)
  PROVE  Sent(c, s)
<1>1. Len(b) \in Nat /\ DOMAIN b = 1 .. Len(b) /\ Len(c) = Len(b)
  BY LenProperties DEF Grows
<1>2. Aligned(b, c)
  BY GrowsAligned
<1>3. \A n \in 1 .. Len(b) : c[n].data = b[n].data
  <2> TAKE n \in 1 .. Len(b)
  <2>1. b[n].data \in Seq(Nat)
    <3>1. b[n] \in Block
      BY <1>1, ElementOfSeq
    <3> QED
      BY <3>1 DEF Block
  <2>2. b[n].data \o <<>> = b[n].data
    BY <2>1, NothingSaid
  <2> QED
    BY <2>2 DEF Grows
<1>4. Tells(c, s)
  BY <1>2, <1>3, AnswersAligned DEF Sent, Tells, Reads
<1>5. ASSUME NEW j \in Indexes, s.kind[j] # "none"
      PROVE  j < Len(c) /\ c[j + 1].kind = s.kind[j]
  <2>1. j < Len(b) /\ b[j + 1].kind = s.kind[j] /\ j \in Nat
    BY <1>5, StreamBounds DEF Sent, Indexes
  <2>2. j + 1 \in 1 .. Len(b)
    BY <1>1, <2>1
  <2> QED
    BY <1>2, <2>1, <2>2 DEF Aligned
<1>6. \A j \in s.open : Stands(c, j + 1, s, j)
  BY <1>2, StandsAligned DEF Sent
<1> QED
  BY <1>4, <1>5, <1>6 DEF Sent

(* A new block of which the reader hears nothing yet.                      *)
LEMMA SentSilently ==
  ASSUME NEW b \in Seq(Block), NEW s \in Spots, Sent(b, s), s.open = {}, NEW at \in Nat
  PROVE  Sent(Append(b, Opened(at, "reasoning", <<>>)), s)
<1> DEFINE x == Opened(at, "reasoning", <<>>)
           c == Append(b, x)
<1>1. x \in Block /\ x.kind = "reasoning" /\ x.data = <<>> /\ Len(b) \in Nat
  BY LenProperties DEF Opened, Block, Kinds
<1> HIDE DEF x
<1>2. c \in Seq(Block) /\ Len(c) = Len(b) + 1 /\ \A k \in 1 .. Len(b) : c[k] = b[k]
  BY <1>1, AppendProperties
<1>3. /\ Text(c) = Text(b) /\ Reasoning(c) = Reasoning(b) \o <<>> /\ ToolCalls(c) = ToolCalls(b)
  <2>1. x.kind \notin Alike("text")
    BY <1>1 DEF Alike
  <2> QED
    BY <1>1, <2>1, AnswersMore
<1>4. Reasoning(c) = Reasoning(b)
  BY <1>3, AnswerTypes, NothingSaid
<1>5. Tells(c, s)
  BY <1>3, <1>4 DEF Sent, Tells, Reads
<1>6. ASSUME NEW j \in Indexes, s.kind[j] # "none"
      PROVE  j < Len(c) /\ c[j + 1].kind = s.kind[j]
  <2>1. j < Len(b) /\ b[j + 1].kind = s.kind[j] /\ j \in Nat
    BY <1>6, StreamBounds DEF Sent, Indexes
  <2>2. j + 1 \in 1 .. Len(b)
    BY <1>1, <2>1
  <2> QED
    BY <1>1, <1>2, <2>1, <2>2
<1>7. Sent(c, s)
  BY <1>5, <1>6 DEF Sent
<1> QED
  BY <1>7 DEF c, x

-----------------------------------------------------------------------------

(* What Adding makes of the blocks sent: a new one, or more of one of them.*)
LEMMA AddingNew ==
  ASSUME up \in Upstream, NEW at \in Nat, NEW kind \in Kinds, NEW p,
         \A k \in DOMAIN up.sent : up.sent[k].at # at
  PROVE  Adding(at, kind, p).sent = Append(up.sent, Opened(at, kind, Pieces(p)))
BY DEF Adding, Upstream

LEMMA OpenedGrows ==
  ASSUME NEW b \in Seq(Block), NEW at \in Nat, NEW kind \in Kinds, NEW p \in Nat
  PROVE  /\ Append(b, Opened(at, kind, Pieces(p))) \in Seq(Block)
         /\ Grows(Append(b, Opened(at, kind, <<>>)), Append(b, Opened(at, kind, Pieces(p))),
                  Len(b) + 1, Pieces(p))
<1> DEFINE x == Opened(at, kind, <<>>)
           y == Opened(at, kind, Pieces(p))
<1>1. x \in Block /\ y \in Block /\ x.kind = y.kind /\ x.data = <<>> /\ y.data = Pieces(p)
      /\ <<>> \o Pieces(p) = Pieces(p)
  <2>1. Pieces(p) \in Seq(Nat)
    BY PieceSeq
  <2> QED
    BY <2>1, ConcatEmptySeq DEF Opened, Block
<1> HIDE DEF x, y
<1>2. /\ Append(b, x) \in Seq(Block) /\ Len(Append(b, x)) = Len(b) + 1
      /\ Append(b, x)[Len(b) + 1] = x /\ \A k \in 1 .. Len(b) : Append(b, x)[k] = b[k]
  BY <1>1, AppendProperties
<1>3. /\ Append(b, y) \in Seq(Block) /\ Len(Append(b, y)) = Len(b) + 1
      /\ Append(b, y)[Len(b) + 1] = y /\ \A k \in 1 .. Len(b) : Append(b, y)[k] = b[k]
  BY <1>1, AppendProperties
<1>4. Len(b) \in Nat
  BY LenProperties
<1>5. ASSUME NEW n \in 1 .. Len(b) + 1
      PROVE  /\ Append(b, y)[n].kind = Append(b, x)[n].kind
             /\ Append(b, y)[n].data =
                  IF n = Len(b) + 1 THEN Append(b, x)[n].data \o Pieces(p) ELSE Append(b, x)[n].data
  <2>1. CASE n = Len(b) + 1
    BY <1>1, <1>2, <1>3, <2>1
  <2>2. CASE n # Len(b) + 1
    <3>1. n \in 1 .. Len(b)
      BY <1>4, <2>2
    <3> QED
      BY <1>2, <1>3, <2>2, <3>1
  <2> QED
    BY <2>1, <2>2
<1>6. Grows(Append(b, x), Append(b, y), Len(b) + 1, Pieces(p))
  <2>1. Len(b) + 1 \in 1 .. Len(b) + 1
    BY <1>4
  <2> HIDE DEF Pieces
  <2> QED
    BY <1>2, <1>3, <1>5, <2>1 DEF Grows
<1> QED
  BY <1>3, <1>6 DEF x, y

LEMMA AddingKnown ==
  ASSUME up \in Upstream, NEW at \in Nat, NEW kind \in Kinds, NEW p \in NextPiece,
         NEW k \in DOMAIN up.sent, up.sent[k].at = at,
         \A j \in DOMAIN up.sent : up.sent[j].at = at => j = k
  PROVE  LET c == Adding(at, kind, p).sent IN
         /\ c \in Seq(Block)
         /\ Grows(up.sent, c, k, Pieces(p))
         /\ \A j \in DOMAIN up.sent : c[j].at = up.sent[j].at
<1> DEFINE b == up.sent
           c == [j \in DOMAIN b |-> IF b[j].at = at THEN [b[j] EXCEPT !.data = @ \o Pieces(p)]
                                                    ELSE b[j]]
           more == Pieces(p)
<1>1. b \in Seq(Block) /\ Len(b) \in Nat /\ DOMAIN b = 1 .. Len(b)
  BY LenProperties DEF Upstream
<1>2. Adding(at, kind, p).sent = c
  BY DEF Adding, Upstream
<1>3. c \in Seq(Block)
  <2>1. Adding(at, kind, p) \in Upstream
    BY AddingTyped
  <2> QED
    BY <1>2, <2>1 DEF Upstream
<1>4. DOMAIN c = DOMAIN b
  OBVIOUS
<1>5. Len(c) = Len(b)
  BY <1>1, <1>3, <1>4, LenProperties
<1> HIDE DEF more
<1>6. ASSUME NEW j \in DOMAIN b
      PROVE  /\ c[j].kind = b[j].kind /\ c[j].at = b[j].at
             /\ c[j].data = IF j = k THEN b[j].data \o more ELSE b[j].data
  <2>1. b[j] \in Block
    BY <1>1, ElementOfSeq
  <2>2. CASE j = k
    <3>1. c[j] = [b[j] EXCEPT !.data = @ \o more]
      BY <2>2 DEF more
    <3> QED
      BY <2>1, <2>2, <3>1 DEF Block
  <2>3. CASE j # k
    <3>1. c[j] = b[j]
      BY <2>3
    <3> QED
      BY <2>3, <3>1
  <2> QED
    BY <2>2, <2>3
<1> HIDE DEF b, c
<1>7. Grows(b, c, k, more)
  BY <1>1, <1>5, <1>6 DEF Grows, b
<1> QED
  BY <1>2, <1>3, <1>6, <1>7 DEF b, more

-----------------------------------------------------------------------------

(* What the decoder of each format knows of the blocks.                    *)
SaidByAnthropic(s) ==
  /\ up.next = Len(up.sent)
  /\ \A k \in DOMAIN up.sent : up.sent[k].at + 1 = k
  /\ up.phase = "idle" => ~s.begun
  /\ up.phase \in {"message", "stopping"} => s.begun
  /\ up.phase = "stopping" => up.open = "none"
  /\ up.open # "reasoning" =>
       fromAnthropic.thinkingBlocks = {} /\ fromAnthropic.thinkingStarted = {}
  /\ up.open # "none" => up.sent # <<>> /\ up.sent[up.next].kind = up.open
  /\ up.open = "none" => s.open = {}
  /\ up.open \in {"text", "tool"} => s.open = {up.next - 1}
  /\ up.open = "reasoning" =>
       /\ fromAnthropic.thinkingBlocks = {up.next - 1}
       /\ \/ fromAnthropic.thinkingStarted = {up.next - 1} /\ s.open = {up.next - 1}
          \/ fromAnthropic.thinkingStarted = {} /\ s.open = {} /\ s.kind[up.next - 1] = "none"

(* The text and the calls of a Chat Completions stream have their blocks.  *)
ChatKind(at) == IF at = ChatText THEN "text" ELSE "tool"

ChatBlock(at) ==
  IF at = ChatText THEN fromOpenAI.textBlock ELSE fromOpenAI.toolBlocks[at]

ChatPlaces ==
  /\ \A k \in DOMAIN up.sent :
       /\ up.sent[k].at \in 0 .. MaxCalls
       /\ up.sent[k].kind = ChatKind(up.sent[k].at)
       /\ ChatBlock(up.sent[k].at) + 1 = k
  /\ \A at \in 0 .. MaxCalls : ChatBlock(at) # NoBlock =>
       ChatBlock(at) < Len(up.sent) /\ up.sent[ChatBlock(at) + 1].at = at

SaidByOpenAI(s) ==
  /\ s.begun = fromOpenAI.started
  /\ fromOpenAI.nextBlock = Len(up.sent)
  /\ fromOpenAI.openBlocks = s.open
  /\ up.phase \in {"idle", "message"} => s.open = {i \in Indexes : i < Len(up.sent)}
  /\ up.phase = "stopping" => s.begun
  /\ fromOpenAI.closing => s.begun /\ s.ended = "no"
  /\ ChatPlaces

SaidByGemini(s) ==
  /\ s.begun = fromGemini.started
  /\ s.ended # "no" => s.begun
  /\ fromGemini.nextBlock = Len(up.sent)
  /\ s.open = IF fromGemini.active = NoBlock THEN {} ELSE {fromGemini.active}
  /\ fromGemini.active = NoBlock <=> fromGemini.kind = "none"
  /\ fromGemini.active # NoBlock =>
       fromGemini.active + 1 = Len(up.sent) /\ s.kind[fromGemini.active] = fromGemini.kind
  /\ \A k \in DOMAIN up.sent : up.sent[k].at + 1 = k

(* The decoder has passed on what a reader at s has read.                  *)
Said(s) ==
  /\ s.ended # "no" => up.phase = "over"
  /\ s.ended = "stop" => ~up.reported
  /\ Sent(up.sent, s)
  /\ pipe.from = "anthropic" => SaidByAnthropic(s)
  /\ pipe.from = "openai" => SaidByOpenAI(s)
  /\ pipe.from = "gemini" => SaidByGemini(s)

SaysOn(s) == \E t \in Spots : Said(t)' /\ Leads(queue', s, t)

LEMMA LeadsTwo ==
  ASSUME NEW x \in Event, NEW y \in Event, NEW s, NEW t, NEW u,
         Leads(<<x>>, s, t), Leads(<<y>>, t, u)
  PROVE  Leads(<<x, y>>, s, u)
<1> DEFINE a == <<x>>
           b == <<y>>
<1>1. a \in Seq(Event) /\ b \in Seq(Event) /\ Leads(a, s, t) /\ Leads(b, t, u)
  OBVIOUS
<1>2. a \o b = <<x, y>>
  <2> DEFINE c == a \o b
             d == <<x, y>>
  <2>1. d \in Seq(Event) /\ Len(d) = 2 /\ d[1] = x /\ d[2] = y
    OBVIOUS
  <2>2. Len(a) = 1 /\ Len(b) = 1 /\ a[1] = x /\ b[1] = y
    OBVIOUS
  <2> HIDE DEF a, b, d
  <2>3. /\ c \in Seq(Event) /\ Len(c) = Len(a) + Len(b)
        /\ \A i \in 1 .. Len(c) : c[i] = IF i <= Len(a) THEN a[i] ELSE b[i - Len(a)]
    BY <1>1, ConcatProperties
  <2> HIDE DEF c
  <2>4. Len(c) = 2 /\ c[1] = x /\ c[2] = y
    BY <2>2, <2>3
  <2>5. c = d
    <3>1. \A i \in 1 .. Len(c) : i = 1 \/ i = 2
      BY <2>4
    <3>2. \A i \in 1 .. Len(c) : c[i] = d[i]
      BY <2>1, <2>4, <3>1
    <3> QED
      BY <2>1, <2>3, <2>4, <3>2, SeqEqual
  <2> QED
    BY <2>5 DEF c, d
<1> HIDE DEF a, b
<1>3. Leads(a \o b, s, u)
  BY <1>1, LeadsOn
<1> QED
  BY <1>2, <1>3

LEMMA BegunLeads ==
  ASSUME NEW s \in Spots, s.ended = "no"
  PROVE  /\ ~s.begun => Leads(<<ResponseStart>>, s, Begun(s))
         /\ s.begun => Begun(s) = s
         /\ Leads(IF s.begun THEN <<>> ELSE <<ResponseStart>>, s, Begun(s))
         /\ Begun(s) \in Spots /\ Begun(s).begun /\ Begun(s).ended = "no"
         /\ SameAnswer(s, Begun(s)) /\ Begun(s).open = s.open
<1>1. /\ Begun(s) \in Spots /\ Begun(s).begun /\ Begun(s).ended = "no"
      /\ SameAnswer(s, Begun(s)) /\ Begun(s).open = s.open
  BY BegunSpot DEF SameAnswer
<1>2. ResponseStart \in Event /\ ResponseStart.type = "response_start"
  BY EventsTyped, InnerMiddle DEF ResponseStart, Plain
<1>3. ASSUME ~s.begun PROVE Leads(<<ResponseStart>>, s, Begun(s))
  <2>1. Step(s, ResponseStart, Begun(s))
    BY <1>2, <1>3 DEF Step, Begins
  <2> QED
    BY <1>2, <2>1, LeadsOne
<1>4. ASSUME s.begun PROVE Begun(s) = s
  BY <1>4 DEF Begun, Spots, Spot
<1>5. s.begun => Leads(<<>>, s, Begun(s))
  BY <1>4, LeadsNowhere
<1> QED
  BY <1>1, <1>3, <1>4, <1>5

LEMMA UsageLeads ==
  ASSUME NEW s \in Spots, NEW counts \in Counts
  PROVE  Leads(<<Usage(counts)>>, s, s) /\ Usage(counts) \in Event
<1>1. Usage(counts) \in Event /\ Usage(counts).type = "usage"
  BY EventsTyped, InnerMiddle DEF Usage, Plain
<1>2. Step(s, Usage(counts), s)
  BY <1>1 DEF Step
<1> QED
  BY <1>1, <1>2, LeadsOne

LEMMA ClosingLeads ==
  ASSUME NEW s \in Spots, s.ended = "no", s.begun, NEW i \in s.open, \A j \in s.open : i <= j
  PROVE  Leads(<<ContentStop(i)>>, s, Closing(s, i)) /\ ContentStop(i) \in Event
<1>1. i \in Indexes
  BY SpotParts
<1>2. /\ ContentStop(i) \in Event
      /\ ContentStop(i).type = "content_stop" /\ ContentStop(i).index = i
  BY <1>1, EventsTyped, InnerMiddle DEF ContentStop, Plain
<1>3. Step(s, ContentStop(i), Closing(s, i))
  BY <1>2 DEF Step, Closes
<1> QED
  BY <1>2, <1>3, LeadsOne

LEMMA StoppingLeads ==
  ASSUME NEW s \in Spots, s.ended = "no", s.begun, s.open = {}, NEW reason \in Reasons
  PROVE  Leads(<<ResponseStop(reason)>>, s, Stopping(s, reason)) /\ ResponseStop(reason) \in Event
<1>1. /\ ResponseStop(reason) \in Event
      /\ ResponseStop(reason).type = "response_stop" /\ ResponseStop(reason).reason = reason
      /\ reason # "none"
  BY EventsTyped, InnerMiddle DEF ResponseStop, Plain, Reasons
<1>2. Step(s, ResponseStop(reason), Stopping(s, reason))
  BY <1>1 DEF Step, Stops
<1> QED
  BY <1>1, <1>2, LeadsOne

-----------------------------------------------------------------------------

(***************************************************************************)
(* An Anthropic upstream that keeps its format.                            *)
(***************************************************************************)

LEMMA AnthropicTurns ==
  ASSUME pipe.from = "anthropic", pipe' = pipe, NEW s \in Spots, Said(s),
         NEW t, SameAnswer(s, t), t.open = s.open,
         up'.sent = up.sent, up'.next = up.next, up'.open = up.open,
         fromAnthropic'.thinkingBlocks = fromAnthropic.thinkingBlocks,
         fromAnthropic'.thinkingStarted = fromAnthropic.thinkingStarted,
         t.ended # "no" => up'.phase = "over", t.ended = "stop" => ~up'.reported,
         up'.phase = "idle" => ~t.begun,
         up'.phase \in {"message", "stopping"} => t.begun,
         up'.phase = "stopping" => up'.open = "none"
  PROVE  Said(t)'
<1>1. Sent(up'.sent, t)
  BY SentSame DEF Said
<1>2. SaidByAnthropic(t)'
  BY DEF Said, SaidByAnthropic, SameAnswer
<1> QED
  BY <1>1, <1>2 DEF Said

(* The upstream's last block is the one that is open, and the reader's last*)
(* too.                                                                    *)
LEMMA LastBlock ==
  ASSUME Decoding, pipe.from = "anthropic", NEW s \in Spots, Said(s), up.open # "none",
         NEW i \in Indexes, i + 1 = up.next
  PROVE  /\ up.sent \in Seq(Block) /\ Len(up.sent) = i + 1 /\ i + 1 \in DOMAIN up.sent
         /\ DOMAIN up.sent = 1 .. Len(up.sent)
         /\ up.sent[i + 1].kind = up.open /\ up.sent[i + 1].at = i
         /\ \A j \in DOMAIN up.sent : up.sent[j].at = i => j = i + 1
         /\ s.kind[i] # "none" => s.kind[i] = up.open /\ Newest(s, i)
<1>1. /\ up.sent \in Seq(Block) /\ Len(up.sent) = i + 1 /\ i \in Nat
      /\ up.sent[i + 1].kind = up.open
      /\ \A k \in DOMAIN up.sent : up.sent[k].at + 1 = k /\ up.sent[k] \in Block
  BY ElementOfSeq, StreamBounds DEF Decoding, Upstream, Said, SaidByAnthropic, Indexes
<1>2. DOMAIN up.sent = 1 .. Len(up.sent) /\ i + 1 \in DOMAIN up.sent
  BY <1>1, LenProperties
<1>3. \A k \in DOMAIN up.sent : up.sent[k].at \in Nat
  BY <1>1 DEF Block
<1>4. \A j \in Indexes : j > i => s.kind[j] = "none"
  BY <1>1, StreamBounds DEF Said, Sent, Indexes
<1>5. s.kind[i] # "none" => s.kind[i] = up.open
  BY <1>1 DEF Said, Sent
<1>6. s.kind[i] # "none" => Newest(s, i)
  BY <1>4 DEF Newest
<1>7. up.sent[i + 1].at = i
  BY <1>1, <1>2, <1>3
<1>8. \A j \in DOMAIN up.sent : up.sent[j].at = i => j = i + 1
  BY <1>1
<1> QED
  BY <1>1, <1>2, <1>5, <1>6, <1>7, <1>8

LEMMA MessageStartSays ==
  ASSUME Decoding, pipe.lawful, pipe.from = "anthropic", pipe' = pipe,
         NEW counts \in Counts, MessageStart(counts), NEW s \in Spots, Said(s)
  PROVE  SaysOn(s)
<1> DEFINE t == Begun(s)
<1>1. /\ up' = [up EXCEPT !.phase = "message"] /\ up.phase = "idle" /\ up \in Upstream
      /\ fromAnthropic' = [fromAnthropic EXCEPT !.started = TRUE]
      /\ fromAnthropic \in AnthropicDecoder
      /\ queue' = <<ResponseStart, Usage(counts)>>
  BY DEF MessageStart, Says, Sends, Lawful, Emit, Decoding, DecodersTyped
<1>2. s.ended = "no" /\ ~s.begun
  BY <1>1 DEF Said, SaidByAnthropic
<1>3. /\ Leads(<<ResponseStart>>, s, t) /\ t \in Spots /\ t.begun /\ t.ended = "no"
      /\ SameAnswer(s, t) /\ t.open = s.open
  BY <1>2, BegunLeads
<1> HIDE DEF t
<1>4. Leads(<<Usage(counts)>>, t, t) /\ Usage(counts) \in Event /\ ResponseStart \in Event
  BY <1>3, UsageLeads, EventsTyped, InnerMiddle
<1>5. Leads(queue', s, t)
  BY <1>1, <1>3, <1>4, LeadsTwo
<1>7. /\ up'.sent = up.sent /\ up'.next = up.next /\ up'.open = up.open /\ up'.phase = "message"
      /\ fromAnthropic'.thinkingBlocks = fromAnthropic.thinkingBlocks
      /\ fromAnthropic'.thinkingStarted = fromAnthropic.thinkingStarted
  BY <1>1 DEF Upstream, AnthropicDecoder
<1>8. Said(t)'
  BY <1>3, <1>7, AnthropicTurns
<1> QED
  BY <1>3, <1>5, <1>8 DEF SaysOn

LEMMA MessageDeltaSays ==
  ASSUME Decoding, pipe.lawful, pipe.from = "anthropic", pipe' = pipe,
         NEW reason \in Pending, NEW counts \in Counts, MessageDelta(reason, counts),
         NEW s \in Spots, Said(s)
  PROVE  SaysOn(s)
<1>1. /\ up' = [up EXCEPT !.phase = "stopping"] /\ up.phase = "message" /\ up \in Upstream
      /\ up.open = "none"
      /\ \E r \in Pending : fromAnthropic' = [fromAnthropic EXCEPT !.pendingStop = r]
      /\ fromAnthropic \in AnthropicDecoder
      /\ queue' = <<Usage(counts)>>
  BY DEF MessageDelta, Says, Sends, Lawful, Emit, Decoding, DecodersTyped, AnthropicDecoder
<1>2. s.ended = "no" /\ s.begun
  BY <1>1 DEF Said, SaidByAnthropic
<1>3. Leads(queue', s, s)
  BY <1>1, UsageLeads
<1>4. /\ up'.sent = up.sent /\ up'.next = up.next /\ up'.open = up.open /\ up'.phase = "stopping"
      /\ fromAnthropic'.thinkingBlocks = fromAnthropic.thinkingBlocks
      /\ fromAnthropic'.thinkingStarted = fromAnthropic.thinkingStarted
  BY <1>1 DEF Upstream, AnthropicDecoder
<1>5. Said(s)'
  BY <1>1, <1>2, <1>4, AnthropicTurns DEF SameAnswer
<1> QED
  BY <1>3, <1>5 DEF SaysOn

LEMMA MessageEndsSay ==
  ASSUME Decoding, pipe.lawful, pipe.from = "anthropic", pipe' = pipe, UpstreamFacts,
         MessageStop \/ MessageError, NEW s \in Spots, Said(s)
  PROVE  SaysOn(s)
<1>0. up \in Upstream /\ fromAnthropic \in AnthropicDecoder
  BY DEF Decoding, DecodersTyped
<1>1. up.phase # "over" /\ up'.phase = "over" /\ s.ended = "no"
      /\ up'.sent = up.sent /\ up'.next = up.next /\ up'.open = up.open
  BY <1>0 DEF MessageStop, MessageError, Says, Sends, Lawful, Said, Upstream
<1>2. /\ fromAnthropic'.thinkingBlocks = fromAnthropic.thinkingBlocks
      /\ fromAnthropic'.thinkingStarted = fromAnthropic.thinkingStarted
  BY <1>0 DEF MessageStop, MessageError, AnthropicDecoder
<1>3. \A t \in Spots : SameAnswer(s, t) /\ t.open = s.open
                        /\ (t.ended = "stop" => ~up'.reported) => Said(t)'
  BY <1>1, <1>2, AnthropicTurns
<1>4. CASE queue' = <<>>
  <2>1. Leads(queue', s, s)
    BY <1>4, LeadsNowhere
  <2>2. Said(s)'
    BY <1>1, <1>3 DEF SameAnswer
  <2> QED
    BY <2>1, <2>2 DEF SaysOn
<1>5. CASE MessageStop /\ queue' # <<>>
  <2>1. PICK reason \in Reasons : queue' = <<ResponseStop(reason)>>
    BY <1>0, <1>5 DEF MessageStop, Fail, Emit, AnthropicDecoder, Pending
  <2>2. up.phase = "stopping" /\ up'.reported = up.reported
    BY <1>0, <1>5 DEF MessageStop, Says, Sends, Lawful, Upstream
  <2>3. s.begun /\ s.open = {} /\ ~up.reported
    BY <2>2 DEF Said, SaidByAnthropic, UpstreamFacts
  <2> DEFINE t == Stopping(s, reason)
  <2>4. Leads(queue', s, t)
    BY <1>1, <2>1, <2>3, StoppingLeads
  <2>5. t \in Spots /\ SameAnswer(s, t) /\ t.open = s.open
    BY StoppingSpot DEF SameAnswer
  <2> HIDE DEF t
  <2>6. Said(t)'
    BY <1>3, <2>2, <2>3, <2>5
  <2> QED
    BY <2>4, <2>5, <2>6 DEF SaysOn
<1>6. CASE MessageError
  <2> DEFINE t == Broken(s)
  <2>1. queue' = <<StreamError>> /\ StreamError \in Event /\ StreamError.type = "error"
    BY <1>6, EventsTyped DEF MessageError, Emit, StreamError, Plain
  <2>2. t \in Spots /\ SameAnswer(s, t) /\ t.open = s.open /\ t.ended = "error"
    BY <1>1, BrokenSpot DEF SameAnswer
  <2>3. Step(s, StreamError, t)
    BY <1>1, <2>1 DEF Step, Breaks
  <2> HIDE DEF t
  <2>4. Leads(queue', s, t)
    BY <2>1, <2>3, LeadsOne
  <2>5. Said(t)'
    BY <1>3, <2>2
  <2> QED
    BY <2>2, <2>4, <2>5 DEF SaysOn
<1> QED
  BY <1>4, <1>5, <1>6

-----------------------------------------------------------------------------

(* A start with the empty piece; of a text, without a delta.               *)
LEMMA BlockStartSays ==
  ASSUME Decoding, pipe.lawful, pipe.from = "anthropic", pipe' = pipe,
         NEW i \in Indexes, NEW kind \in Kinds, NEW p \in NextPiece, BlockStart(i, kind, p),
         NEW s \in Spots, Said(s)
  PROVE  /\ p = Empty /\ up.open = "none"
         /\ s.ended = "no" /\ s.begun /\ s.open = {} /\ i = Len(up.sent)
         /\ fromAnthropic.thinkingBlocks = {} /\ fromAnthropic.thinkingStarted = {}
         /\ up.sent \in Seq(Block) /\ i \in Nat
         /\ up'.sent = Append(up.sent, Opened(i, kind, <<>>))
         /\ up'.sent # <<>> /\ up'.next = i + 1 /\ up'.next = Len(up'.sent)
         /\ up'.sent[up'.next].kind = kind
         /\ \A k \in DOMAIN up'.sent : up'.sent[k].at + 1 = k
         /\ up'.open = kind /\ up'.phase = "message"
<1> DEFINE x == Opened(i, kind, <<>>)
<1>1. /\ up \in Upstream /\ up.phase = "message" /\ p = Empty /\ up.open = "none" /\ i = up.next
      /\ up' = [Adding(i, kind, p) EXCEPT !.open = kind, !.next = @ + 1]
      /\ fromAnthropic \in AnthropicDecoder
  BY DEF BlockStart, Sends, Lawful, Decoding, DecodersTyped
<1>2. s.ended = "no" /\ s.begun /\ s.open = {} /\ i = Len(up.sent)
      /\ fromAnthropic.thinkingBlocks = {} /\ fromAnthropic.thinkingStarted = {}
      /\ \A k \in DOMAIN up.sent : up.sent[k].at + 1 = k
  BY <1>1 DEF Said, SaidByAnthropic
<1>3. up.sent \in Seq(Block) /\ i \in Nat /\ DOMAIN up.sent = 1 .. i
  BY <1>1, <1>2, LenProperties, StreamBounds DEF Upstream, Indexes
<1>4. \A k \in DOMAIN up.sent : up.sent[k].at # i
  BY <1>2, <1>3
<1>5. Adding(i, kind, p).sent = Append(up.sent, x)
  <2>1. Adding(i, kind, p).sent = Append(up.sent, Opened(i, kind, Pieces(p)))
    BY <1>1, <1>3, <1>4, AddingNew
  <2> QED
    BY <1>1, <2>1 DEF Pieces
<1>6. /\ up'.sent = Adding(i, kind, p).sent /\ up'.next = i + 1 /\ up'.open = kind
      /\ up'.phase = "message"
  BY <1>1 DEF Adding, Upstream
<1>7. x \in Block /\ x.kind = kind /\ x.at = i
  BY <1>3 DEF Opened, Block
<1> HIDE DEF x
<1>8. /\ Append(up.sent, x) \in Seq(Block) /\ Len(Append(up.sent, x)) = i + 1
      /\ Append(up.sent, x)[i + 1] = x
      /\ \A k \in 1 .. i : Append(up.sent, x)[k] = up.sent[k]
  BY <1>2, <1>3, <1>7, AppendProperties
<1>9. DOMAIN up'.sent = 1 .. i + 1 /\ up'.sent # <<>>
  <2>1. DOMAIN Append(up.sent, x) = 1 .. i + 1
    BY <1>8, LenProperties
  <2>2. Append(up.sent, x) # <<>>
    BY <1>3, <1>8, EmptySeq
  <2> QED
    BY <1>5, <1>6, <2>1, <2>2
<1>10. \A k \in DOMAIN up'.sent : up'.sent[k].at + 1 = k
  <2> TAKE k \in DOMAIN up'.sent
  <2>1. CASE k = i + 1
    BY <1>5, <1>6, <1>7, <1>8, <2>1
  <2>2. CASE k # i + 1
    <3>1. k \in 1 .. i
      BY <1>3, <1>9, <2>2
    <3> QED
      BY <1>2, <1>3, <1>5, <1>6, <1>8, <3>1
  <2> QED
    BY <2>1, <2>2
<1>11. Len(up'.sent) = i + 1 /\ up'.sent[up'.next].kind = kind
  BY <1>5, <1>6, <1>7, <1>8
<1> QED
  BY <1>1, <1>2, <1>3, <1>5, <1>6, <1>9, <1>10, <1>11 DEF x

LEMMA BlockStartsSay ==
  ASSUME Decoding, pipe.lawful, pipe.from = "anthropic", pipe' = pipe,
         NEW i \in Indexes, NEW p \in NextPiece,
         TextBlockStart(i, p) \/ ToolBlockStart(i, p), NEW s \in Spots, Said(s)
  PROVE  SaysOn(s)
<1>1. PICK kind \in {"text", "tool"} :
        /\ BlockStart(i, kind, p) /\ UNCHANGED decoders
        /\ p = Empty => queue' = <<ContentStart(i, kind, Empty)>>
  <2>1. \A e \in Event : <<e>> \o <<>> = <<e>>
    BY ConcatEmptySeq
  <2>2. ASSUME TextBlockStart(i, p) /\ p = Empty
        PROVE  queue' = <<ContentStart(i, "text", Empty)>>
    <3>1. ContentStart(i, "text", Empty) \in Event
      BY EventsTyped, InnerMiddle, StreamBounds DEF Empty, Kinds
    <3>2. queue' = <<ContentStart(i, "text", Empty)>> \o <<>>
      BY <2>2 DEF TextBlockStart, Emit
    <3> QED
      BY <2>1, <3>1, <3>2
  <2> QED
    BY <2>2 DEF TextBlockStart, ToolBlockStart, Emit
<1> DEFINE t == Starting(s, i, kind)
<1>2. /\ kind \in Kinds /\ p = Empty
      /\ s.ended = "no" /\ s.begun /\ s.open = {} /\ i = Len(up.sent)
      /\ fromAnthropic.thinkingBlocks = {} /\ fromAnthropic.thinkingStarted = {}
      /\ up.sent \in Seq(Block) /\ i \in Nat
      /\ up'.sent = Append(up.sent, Opened(i, kind, <<>>))
      /\ up'.sent # <<>> /\ up'.next = i + 1 /\ up'.next = Len(up'.sent)
      /\ up'.sent[up'.next].kind = kind
      /\ \A k \in DOMAIN up'.sent : up'.sent[k].at + 1 = k
      /\ up'.open = kind /\ up'.phase = "message"
  <2>1. kind \in Kinds
    BY DEF Kinds
  <2> QED
    BY <1>1, <2>1, BlockStartSays
<1>3. Fresh(s, i) /\ Sent(up'.sent, t)
  BY <1>2, SentStarts DEF Said
<1>4. Leads(queue', s, t)
  BY <1>1, <1>2, <1>3, StartLeads
<1>5. t \in Spots /\ t.ended = s.ended /\ t.open = s.open \cup {i}
  BY <1>2, <1>3, StartingSpot
<1>6. t.begun = s.begun
  BY <1>2, <1>3 DEF Starting, Spots, Spot
<1> HIDE DEF t
<1>7. /\ fromAnthropic'.thinkingBlocks = {} /\ fromAnthropic'.thinkingStarted = {}
  BY <1>1, <1>2 DEF decoders
<1>8. SaidByAnthropic(t)'
  <2>1. t.open = {up'.next - 1} /\ kind # "none" /\ kind # "reasoning"
    BY <1>2, <1>5
  <2> QED
    BY <1>2, <1>6, <1>7, <2>1 DEF SaidByAnthropic
<1>9. Said(t)'
  BY <1>2, <1>3, <1>5, <1>8 DEF Said
<1> QED
  BY <1>4, <1>5, <1>9 DEF SaysOn

LEMMA ThinkingStartSays ==
  ASSUME Decoding, pipe.lawful, pipe.from = "anthropic", pipe' = pipe,
         NEW i \in Indexes, NEW p \in NextPiece, ThinkingBlockStart(i, p),
         NEW s \in Spots, Said(s)
  PROVE  SaysOn(s)
<1> DEFINE kind == "reasoning"
<1>1. /\ p = Empty
      /\ s.ended = "no" /\ s.begun /\ s.open = {} /\ i = Len(up.sent)
      /\ fromAnthropic.thinkingBlocks = {} /\ fromAnthropic.thinkingStarted = {}
      /\ up.sent \in Seq(Block) /\ i \in Nat
      /\ up'.sent = Append(up.sent, Opened(i, kind, <<>>))
      /\ up'.sent # <<>> /\ up'.next = i + 1 /\ up'.next = Len(up'.sent)
      /\ up'.sent[up'.next].kind = kind
      /\ \A k \in DOMAIN up'.sent : up'.sent[k].at + 1 = k
      /\ up'.open = kind /\ up'.phase = "message"
  <2>1. kind \in Kinds /\ BlockStart(i, kind, p)
    BY DEF Kinds, ThinkingBlockStart
  <2> HIDE DEF kind
  <2> QED
    BY <2>1, BlockStartSays
<1>2. /\ fromAnthropic'.thinkingBlocks = {i} /\ fromAnthropic'.thinkingStarted = {}
      /\ queue' = <<>>
  BY <1>1 DEF ThinkingBlockStart, Emit, Decoding, DecodersTyped, AnthropicDecoder
<1>3. Sent(up'.sent, s)
  BY <1>1, SentSilently DEF Said
<1>4. s.kind[i] = "none"
  BY <1>1 DEF Said, Sent
<1>5. SaidByAnthropic(s)'
  <2>1. up'.next - 1 = i
    BY <1>1
  <2> QED
    BY <1>1, <1>2, <1>4, <2>1 DEF SaidByAnthropic
<1>6. Said(s)'
  BY <1>1, <1>3, <1>5 DEF Said
<1> QED
  BY <1>2, <1>6, LeadsNowhere DEF SaysOn

-----------------------------------------------------------------------------

LEMMA BlockDeltaSays ==
  ASSUME Decoding, pipe.lawful, pipe.from = "anthropic", pipe' = pipe,
         NEW i \in Indexes, NEW kind \in Kinds, NEW p \in NextPiece, BlockDelta(i, kind, p),
         NEW s \in Spots, Said(s)
  PROVE  /\ up.open = kind /\ i + 1 = up.next /\ p \in Nat
         /\ s.ended = "no" /\ s.begun /\ up'.sent \in Seq(Block)
         /\ Grows(up.sent, up'.sent, i + 1, Pieces(p))
         /\ up'.open = up.open /\ up'.next = up.next /\ up'.phase = "message"
         /\ up'.next = Len(up'.sent) /\ up'.sent # <<>> /\ up'.sent[up'.next].kind = up.open
         /\ \A k \in DOMAIN up'.sent : up'.sent[k].at + 1 = k
<1>1. /\ up \in Upstream /\ up.phase = "message" /\ up.open = kind /\ i + 1 = up.next
      /\ up' = Adding(i, kind, p) /\ p \in Nat /\ kind # "none" /\ i \in Nat
  <2>1. up \in Upstream
    BY DEF Decoding
  <2>2. up.phase = "message" /\ up.open = kind /\ i + 1 = up.next /\ up' = Adding(i, kind, p)
    BY DEF BlockDelta, Sends, Lawful
  <2>3. p \in Nat
    BY <2>1 DEF NextPiece, Empty, Upstream
  <2>4. kind # "none" /\ i \in Nat
    BY StreamBounds DEF Kinds, Indexes
  <2> QED
    BY <2>1, <2>2, <2>3, <2>4
<1>2. /\ up.sent \in Seq(Block) /\ Len(up.sent) = i + 1 /\ i + 1 \in DOMAIN up.sent
      /\ DOMAIN up.sent = 1 .. Len(up.sent)
      /\ up.sent[i + 1].kind = up.open /\ up.sent[i + 1].at = i
      /\ \A j \in DOMAIN up.sent : up.sent[j].at = i => j = i + 1
  BY <1>1, LastBlock
<1>3. /\ up'.sent \in Seq(Block)
      /\ Grows(up.sent, up'.sent, i + 1, Pieces(p))
      /\ \A j \in DOMAIN up.sent : up'.sent[j].at = up.sent[j].at
  <2> DEFINE c == Adding(i, kind, p).sent
  <2>1. /\ c \in Seq(Block) /\ Grows(up.sent, c, i + 1, Pieces(p))
        /\ \A j \in DOMAIN up.sent : c[j].at = up.sent[j].at
    <3>1. /\ up \in Upstream /\ i \in Nat /\ i + 1 \in DOMAIN up.sent /\ up.sent[i + 1].at = i
          /\ \A j \in DOMAIN up.sent : up.sent[j].at = i => j = i + 1
      BY <1>1, <1>2
    <3> QED
      BY <3>1, AddingKnown
  <2>2. up'.sent = c
    BY <1>1
  <2> QED
    BY <2>1, <2>2
<1>4. /\ up'.open = up.open /\ up'.next = up.next /\ up'.phase = "message"
  BY <1>1 DEF Adding, Upstream
<1>5. s.ended = "no" /\ s.begun /\ \A k \in DOMAIN up.sent : up.sent[k].at + 1 = k
  BY <1>1 DEF Said, SaidByAnthropic
<1>6. Len(up'.sent) = i + 1 /\ DOMAIN up'.sent = DOMAIN up.sent
      /\ up'.sent[i + 1].kind = up.open
  BY <1>2, <1>3, LenProperties DEF Grows
<1>7. up'.sent # <<>>
  BY <1>1, <1>6
<1> QED
  BY <1>1, <1>3, <1>4, <1>5, <1>6, <1>7

LEMMA TextOrInputDeltaSays ==
  ASSUME Decoding, pipe.lawful, pipe.from = "anthropic", pipe' = pipe,
         NEW i \in Indexes, NEW kind \in {"text", "tool"}, NEW p \in NextPiece,
         TextOrInputDelta(i, kind, p), NEW s \in Spots, Said(s)
  PROVE  SaysOn(s)
<1> DEFINE t == Saying(s, i, p)
<1>0. kind \in Kinds /\ kind # "none" /\ kind # "reasoning" /\ BlockDelta(i, kind, p)
      /\ queue' = <<Delta(i, kind, p)>> /\ UNCHANGED decoders
  BY DEF TextOrInputDelta, Kinds, Emit
<1>1. /\ up.open = kind /\ i + 1 = up.next /\ p \in Nat
      /\ s.ended = "no" /\ s.begun /\ up'.sent \in Seq(Block)
      /\ Grows(up.sent, up'.sent, i + 1, Pieces(p))
      /\ up'.open = up.open /\ up'.next = up.next /\ up'.phase = "message"
      /\ up'.next = Len(up'.sent) /\ up'.sent # <<>> /\ up'.sent[up'.next].kind = up.open
      /\ \A k \in DOMAIN up'.sent : up'.sent[k].at + 1 = k
  BY <1>0, BlockDeltaSays
<1>2. i \in s.open /\ i = up.next - 1
  <2>1. i = up.next - 1
    BY <1>1, StreamBounds DEF Indexes
  <2> QED
    BY <1>1, <2>1 DEF Said, SaidByAnthropic
<1>3. up.sent \in Seq(Block) /\ s.kind[i] = kind /\ Newest(s, i)
  <2>1. s.kind[i] # "none"
    BY <1>2, SpotParts
  <2>2. up.sent \in Seq(Block) /\ (s.kind[i] # "none" => s.kind[i] = up.open /\ Newest(s, i))
    BY <1>0, <1>1, LastBlock
  <2> QED
    BY <1>1, <2>1, <2>2
<1>4. Leads(<<Delta(i, s.kind[i], p)>>, s, t)
  BY <1>1, <1>2, <1>3, DeltaLeads
<1>5. Sent(up'.sent, t)
  BY <1>1, <1>2, <1>3, SentSays DEF Said
<1>6. t \in Spots /\ t.begun = s.begun /\ t.ended = s.ended /\ t.open = s.open /\ t.kind = s.kind
  BY ZenonT(40), <1>0, <1>1, <1>3, SayingSpot
<1> HIDE DEF t
<1>7. SaidByAnthropic(t)'
  <2>1. fromAnthropic' = fromAnthropic
    BY <1>0 DEF decoders
  <2> QED
    BY <1>0, <1>1, <1>6, <2>1 DEF Said, SaidByAnthropic
<1>8. Said(t)'
  BY <1>1, <1>5, <1>6, <1>7 DEF Said
<1> QED
  BY <1>0, <1>3, <1>4, <1>6, <1>8 DEF SaysOn

(* Thinking that is heard of says something; the first time, it starts.    *)
LEMMA ThinkingDeltaSays ==
  ASSUME Decoding, pipe.lawful, pipe.from = "anthropic", pipe' = pipe,
         NEW i \in Indexes, NEW p \in NextPiece,
         ThinkingDelta(i, p), NEW s \in Spots, Said(s)
  PROVE  SaysOn(s)
<1> DEFINE kind == "reasoning"
           heard == i \in fromAnthropic.thinkingStarted
           u == Starting(s, i, kind)
           start == <<ContentStart(i, "reasoning", Empty)>>
           delta == IF p = Empty THEN <<>> ELSE <<Delta(i, "reasoning", p)>>
<1>1. /\ up.open = kind /\ i + 1 = up.next /\ p \in Nat
      /\ s.ended = "no" /\ s.begun /\ up'.sent \in Seq(Block)
      /\ Grows(up.sent, up'.sent, i + 1, Pieces(p))
      /\ up'.open = up.open /\ up'.next = up.next /\ up'.phase = "message"
      /\ up'.next = Len(up'.sent) /\ up'.sent # <<>> /\ up'.sent[up'.next].kind = up.open
      /\ \A k \in DOMAIN up'.sent : up'.sent[k].at + 1 = k
  <2>1. kind \in Kinds /\ BlockDelta(i, kind, p)
    BY DEF ThinkingDelta, Kinds
  <2> HIDE DEF kind
  <2> QED
    BY <2>1, BlockDeltaSays
<1>2. i = up.next - 1 /\ fromAnthropic \in AnthropicDecoder
  BY <1>1, StreamBounds DEF Indexes, Decoding, DecodersTyped
<1>3. /\ fromAnthropic.thinkingBlocks = {i}
      /\ \/ fromAnthropic.thinkingStarted = {i} /\ s.open = {i}
         \/ fromAnthropic.thinkingStarted = {} /\ s.open = {} /\ s.kind[i] = "none"
  BY <1>1, <1>2 DEF Said, SaidByAnthropic
<1>4. /\ fromAnthropic'.thinkingBlocks = {i} /\ fromAnthropic'.thinkingStarted = {i}
      /\ queue' = (IF heard THEN <<>> ELSE start) \o delta
  BY <1>2, <1>3 DEF ThinkingDelta, Emit, AnthropicDecoder
<1>5. /\ up.sent \in Seq(Block) /\ i + 1 = Len(up.sent) /\ up.sent[i + 1].kind = kind
      /\ s.kind[i] # "none" => s.kind[i] = kind /\ Newest(s, i)
  BY <1>1, <1>3, LastBlock
<1>6. start \in Seq(Event) /\ delta \in Seq(Event) /\ <<>> \in Seq(Event)
  <2>1. /\ ContentStart(i, "reasoning", Empty) \in Event
        /\ Delta(i, "reasoning", p) \in Event
    BY <1>1, EventsTyped, InnerMiddle, StreamBounds DEF Empty, Kinds
  <2> QED
    BY <2>1
<1>7. ASSUME NEW t \in Spots, Sent(up'.sent, t), t.begun, t.ended = "no", t.open = {i}
      PROVE  Said(t)'
  <2>1. SaidByAnthropic(t)'
    BY <1>1, <1>2, <1>4, <1>7 DEF SaidByAnthropic
  <2> QED
    BY <1>7, <2>1 DEF Said
(* What is said once the block is open.                                    *)
<1>8. ASSUME NEW v \in Spots, Sent(up.sent, v), v.begun, v.ended = "no", v.open = {i},
             v.kind[i] = kind, Newest(v, i)
      PROVE  \E t \in Spots : Said(t)' /\ Leads(delta, v, t)
  <2>1. CASE p = Empty
    <3>1. Sent(up'.sent, v)
      BY <1>1, <1>5, <1>8, <2>1, SentNothing DEF Pieces
    <3>2. Leads(delta, v, v)
      BY <2>1, LeadsNowhere
    <3> QED
      BY <1>7, <1>8, <3>1, <3>2
  <2>2. CASE p # Empty
    <3> DEFINE t == Saying(v, i, p)
    <3>1. Leads(<<Delta(i, v.kind[i], p)>>, v, t)
      BY <1>1, <1>8, DeltaLeads
    <3>2. Sent(up'.sent, t)
      BY <1>1, <1>5, <1>8, SentSays
    <3>3. t \in Spots /\ t.begun = v.begun /\ t.ended = v.ended /\ t.open = v.open
      BY <1>1, <1>8, SayingSpot
    <3> HIDE DEF t
    <3>4. Leads(delta, v, t)
      BY <1>8, <2>2, <3>1
    <3> QED
      BY <1>7, <1>8, <3>2, <3>3, <3>4
  <2> QED
    BY <2>1, <2>2
<1> HIDE DEF start, delta
<1>9. CASE heard
  <2>1. s.open = {i} /\ s.kind[i] = kind /\ Newest(s, i) /\ Sent(up.sent, s)
    BY <1>3, <1>5, <1>9, SpotParts DEF Said
  <2>2. PICK t \in Spots : Said(t)' /\ Leads(delta, s, t)
    BY <1>1, <1>8, <2>1
  <2>3. queue' = delta
    BY <1>4, <1>6, <1>9, ConcatEmptySeq
  <2> QED
    BY <2>2, <2>3 DEF SaysOn
<1>10. CASE ~heard
  <2>1. s.open = {} /\ s.kind[i] = "none" /\ Sent(up.sent, s)
    BY <1>3, <1>10 DEF Said
  <2>2. Fresh(s, i) /\ Sent(up.sent, u)
    BY <1>5, <2>1, SentLate
  <2>3. Leads(start, s, u)
    BY <1>1, <2>2, StartLeads DEF start, Kinds
  <2>4. kind \in Kinds
    BY DEF Kinds
  <2>5. /\ u \in Spots /\ u.ended = s.ended /\ u.open = s.open \cup {i} /\ u.kind[i] = kind
        /\ \A j \in Indexes : j # i => u.kind[j] = s.kind[j]
    BY <2>2, <2>4, StartingSpot
  <2>6. u.begun = s.begun
    BY <2>2, <2>4 DEF Starting, Spots, Spot
  <2>7. Newest(u, i)
    <3>1. \A j \in Indexes : j > i => j # i /\ j >= i
      BY StreamBounds DEF Indexes
    <3> QED
      BY <2>2, <2>5, <3>1 DEF Newest, Fresh
  <2> HIDE DEF u
  <2>8. PICK t \in Spots : Said(t)' /\ Leads(delta, u, t)
    BY <1>1, <1>8, <2>1, <2>2, <2>5, <2>6, <2>7
  <2>9. queue' = start \o delta
    BY <1>4, <1>10
  <2>10. Leads(start \o delta, s, t)
    BY <1>6, <2>3, <2>8, LeadsOn
  <2> QED
    BY <2>8, <2>9, <2>10 DEF SaysOn
<1> QED
  BY <1>9, <1>10

LEMMA BlockStopSays ==
  ASSUME Decoding, pipe.lawful, pipe.from = "anthropic", pipe' = pipe,
         NEW i \in Indexes, BlockStop(i), NEW s \in Spots, Said(s)
  PROVE  SaysOn(s)
<1>1. /\ up \in Upstream /\ up.phase = "message" /\ up.open # "none" /\ i + 1 = up.next
      /\ up' = [up EXCEPT !.open = "none"] /\ fromAnthropic \in AnthropicDecoder
  BY DEF BlockStop, Sends, Lawful, Decoding, DecodersTyped
<1>2. /\ up'.sent = up.sent /\ up'.next = up.next /\ up'.open = "none" /\ up'.phase = "message"
  BY <1>1 DEF Upstream
<1>3. i = up.next - 1 /\ s.ended = "no" /\ s.begun
  BY <1>1, StreamBounds DEF Indexes, Said, SaidByAnthropic
<1>4. fromAnthropic.thinkingBlocks \subseteq {i} /\ fromAnthropic.thinkingStarted \subseteq {i}
      /\ (fromAnthropic.thinkingBlocks = {} => fromAnthropic.thinkingStarted = {})
  BY <1>3 DEF Said, SaidByAnthropic
<1>5. fromAnthropic'.thinkingBlocks = {} /\ fromAnthropic'.thinkingStarted = {}
  BY <1>1, <1>4 DEF BlockStop, AnthropicDecoder
<1>6. ASSUME NEW t \in Spots, SameAnswer(s, t), t.begun, t.ended = "no", t.open = {}
      PROVE  Said(t)'
  <2>1. Sent(up'.sent, t)
    BY <1>2, <1>6, SentSame DEF Said
  <2>2. SaidByAnthropic(t)'
    BY <1>2, <1>5, <1>6 DEF Said, SaidByAnthropic
  <2> QED
    BY <1>6, <2>1, <2>2 DEF Said
<1>7. CASE i \in fromAnthropic.thinkingBlocks \ fromAnthropic.thinkingStarted
  <2>1. queue' = <<>>
    BY <1>7 DEF BlockStop, Emit
  <2>2. s.open = {}
    BY <1>3, <1>7 DEF Said, SaidByAnthropic
  <2>3. Said(s)'
    BY <1>3, <1>6, <2>2 DEF SameAnswer
  <2> QED
    BY <2>1, <2>3, LeadsNowhere DEF SaysOn
<1>8. CASE ~(i \in fromAnthropic.thinkingBlocks \ fromAnthropic.thinkingStarted)
  <2> DEFINE t == Closing(s, i)
  <2>1. queue' = <<ContentStop(i)>>
    BY <1>8 DEF BlockStop, Emit
  <2>2. s.open = {i} /\ i \in Nat
    BY <1>1, <1>3, <1>8, StreamBounds
       DEF Said, SaidByAnthropic, Upstream, Kinds, Indexes
  <2>3. Leads(queue', s, t)
    BY <1>3, <2>1, <2>2, ClosingLeads
  <2>4. t \in Spots /\ SameAnswer(s, t) /\ t.begun = s.begun /\ t.ended = s.ended
        /\ t.open = s.open \ {i}
    BY ClosingSpot DEF SameAnswer
  <2> HIDE DEF t
  <2>5. Said(t)'
    BY <1>3, <1>6, <2>2, <2>4
  <2> QED
    BY <2>3, <2>4, <2>5 DEF SaysOn
<1> QED
  BY <1>7, <1>8

-----------------------------------------------------------------------------

(* The events of a piece, and of a block that starts with one.             *)
DeltaOf(i, kind, p) == IF p = Empty THEN <<>> ELSE <<Delta(i, kind, p)>>

LEMMA DeltaOfTyped ==
  ASSUME NEW i \in Indexes, NEW kind \in Kinds, NEW p \in Nat
  PROVE  /\ DeltaOf(i, kind, p) \in Seq(Event)
         /\ <<ContentStart(i, kind, Empty)>> \in Seq(Event)
<1>1. ContentStart(i, kind, Empty) \in Event /\ Delta(i, kind, p) \in Event
  BY EventsTyped, InnerMiddle, StreamBounds DEF Empty
<1> QED
  BY <1>1 DEF DeltaOf

LEMMA SentPiece ==
  ASSUME NEW b \in Seq(Block), NEW c \in Seq(Block), NEW v \in Spots, Sent(b, v),
         v.begun, v.ended = "no", NEW i \in v.open, Newest(v, i) \/ v.kind[i] = "tool",
         NEW p \in Nat, Grows(b, c, i + 1, Pieces(p))
  PROVE  \E t \in Spots :
           /\ Sent(c, t) /\ t.begun /\ t.ended = "no"
           /\ t.open = v.open /\ t.kind = v.kind
           /\ Leads(DeltaOf(i, v.kind[i], p), v, t)
<1>1. CASE p = Empty
  <2>1. Sent(c, v)
    BY <1>1, SentNothing DEF Pieces
  <2>2. Leads(DeltaOf(i, v.kind[i], p), v, v)
    BY <1>1, LeadsNowhere DEF DeltaOf
  <2> QED
    BY <2>1, <2>2
<1>2. CASE p # Empty
  <2> DEFINE t == Saying(v, i, p)
  <2>1. Leads(DeltaOf(i, v.kind[i], p), v, t)
    BY <1>2, DeltaLeads DEF DeltaOf
  <2>2. Sent(c, t)
    BY SentSays
  <2>3. i \in Indexes /\ v.kind[i] # "none"
    BY SpotParts
  <2>4. t \in Spots /\ t.kind = v.kind /\ t.open = v.open
    BY <2>3, SayingSpot
  <2>5. t.begun = v.begun /\ t.ended = v.ended
    BY <2>3 DEF Saying, Spots, Spot
  <2> HIDE DEF t
  <2> QED
    BY <2>1, <2>2, <2>4, <2>5
<1> QED
  BY <1>1, <1>2

LEMMA SentNew ==
  ASSUME NEW b \in Seq(Block), NEW v \in Spots, Sent(b, v), v.begun, v.ended = "no",
         NEW i \in Indexes, i = Len(b), NEW kind \in Kinds, NEW at \in Nat, NEW p \in Nat
  PROVE  \E u \in Spots, t \in Spots :
           /\ Sent(Append(b, Opened(at, kind, Pieces(p))), t) /\ t.begun /\ t.ended = "no"
           /\ t.open = v.open \cup {i} /\ t.kind[i] = kind
           /\ Leads(<<ContentStart(i, kind, Empty)>>, v, u)
           /\ Leads(DeltaOf(i, kind, p), u, t)
<1> DEFINE u == Starting(v, i, kind)
           c == Append(b, Opened(at, kind, <<>>))
           d == Append(b, Opened(at, kind, Pieces(p)))
<1>1. Fresh(v, i) /\ c \in Seq(Block) /\ Sent(c, u)
  BY SentStarts
<1>2. d \in Seq(Block) /\ Grows(c, d, i + 1, Pieces(p))
  BY OpenedGrows
<1>3. Leads(<<ContentStart(i, kind, Empty)>>, v, u)
  BY <1>1, StartLeads
<1>4. /\ u \in Spots /\ u.ended = v.ended /\ u.open = v.open \cup {i} /\ u.kind[i] = kind
      /\ \A j \in Indexes : j # i => u.kind[j] = v.kind[j]
  BY <1>1, StartingSpot
<1>5. u.begun = v.begun
  BY <1>1 DEF Starting, Spots, Spot
<1>6. Newest(u, i)
  <2>1. \A j \in Indexes : j > i => j # i /\ j >= i
    BY StreamBounds DEF Indexes
  <2>2. kind # "none"
    BY DEF Kinds
  <2> QED
    BY <1>1, <1>4, <2>1, <2>2 DEF Newest, Fresh
<1> HIDE DEF u, c, d
<1>7. i \in u.open /\ u.begun /\ u.ended = "no"
  BY <1>4, <1>5
<1>8. PICK t \in Spots :
        /\ Sent(d, t) /\ t.begun /\ t.ended = "no" /\ t.open = u.open /\ t.kind = u.kind
        /\ Leads(DeltaOf(i, u.kind[i], p), u, t)
  BY <1>1, <1>2, <1>4, <1>6, <1>7, SentPiece
<1> QED
  BY <1>3, <1>4, <1>8 DEF d

-----------------------------------------------------------------------------
(***************************************************************************)
(* A Chat Completions upstream that keeps its format.                      *)
(***************************************************************************)

LEMMA ChatTurns ==
  ASSUME pipe.from = "openai", pipe' = pipe, NEW s \in Spots, Said(s),
         NEW t, SameAnswer(s, t), t.open \subseteq s.open,
         up'.sent = up.sent, fromOpenAI'.nextBlock = fromOpenAI.nextBlock,
         fromOpenAI'.textBlock = fromOpenAI.textBlock,
         fromOpenAI'.toolBlocks = fromOpenAI.toolBlocks,
         fromOpenAI'.openBlocks = t.open, fromOpenAI'.started = t.begun,
         fromOpenAI'.closing => t.begun /\ t.ended = "no",
         t.ended # "no" => up'.phase = "over", t.ended = "stop" => ~up'.reported,
         up'.phase \in {"idle", "message"} => up.phase \in {"idle", "message"} /\ t.open = s.open,
         up'.phase = "stopping" => t.begun
  PROVE  Said(t)'
<1>1. Sent(up'.sent, t)
  BY SentSame DEF Said
<1>2. SaidByOpenAI(t)'
  BY DEF Said, SaidByOpenAI, ChatPlaces, ChatBlock
<1> QED
  BY <1>1, <1>2 DEF Said

LEMMA ChatBegins ==
  ASSUME Decoding, pipe.from = "openai", NEW s \in Spots, Said(s), s.ended = "no"
  PROVE  Leads(ChatStarts, s, Begun(s)) /\ ChatStarts \in Seq(Event)
<1>1. s.begun = fromOpenAI.started
  BY DEF Said, SaidByOpenAI
<1>2. ChatStarts = IF s.begun THEN <<>> ELSE <<ResponseStart>>
  BY <1>1 DEF ChatStarts
<1>3. ResponseStart \in Event
  BY EventsTyped, InnerMiddle
<1> QED
  BY <1>2, <1>3, BegunLeads

LEMMA ChatUsageSays ==
  ASSUME Decoding, pipe.lawful, pipe.from = "openai", pipe' = pipe,
         NEW counts \in Counts, ChatUsage(counts), NEW s \in Spots, Said(s)
  PROVE  SaysOn(s)
<1> DEFINE t == Begun(s)
<1>1. /\ up \in Upstream /\ up.phase # "over" /\ up' = [up EXCEPT !.phase = up.phase]
      /\ fromOpenAI' = [fromOpenAI EXCEPT !.started = TRUE] /\ fromOpenAI \in OpenAIDecoder
      /\ ~fromOpenAI.closing /\ queue' = ChatStarts \o <<Usage(counts)>>
  BY DEF ChatUsage, ReadingChunk, Says, Sends, Lawful, Emit, Decoding, DecodersTyped, Upstream
<1>2. s.ended = "no"
  BY <1>1 DEF Said
<1>3. /\ t \in Spots /\ t.begun = TRUE /\ t.ended = "no" /\ SameAnswer(s, t) /\ t.open = s.open
      /\ Leads(ChatStarts, s, t) /\ ChatStarts \in Seq(Event)
  BY <1>2, BegunLeads, ChatBegins, BegunSpot, SpotParts
<1> HIDE DEF t
<1>4. Leads(<<Usage(counts)>>, t, t) /\ <<Usage(counts)>> \in Seq(Event)
  BY <1>3, UsageLeads
<1>5. Leads(queue', s, t)
  BY <1>1, <1>3, <1>4, LeadsOn
<1>6. /\ up'.sent = up.sent /\ up'.phase = up.phase
      /\ fromOpenAI'.nextBlock = fromOpenAI.nextBlock
      /\ fromOpenAI'.textBlock = fromOpenAI.textBlock
      /\ fromOpenAI'.toolBlocks = fromOpenAI.toolBlocks
      /\ fromOpenAI'.openBlocks = fromOpenAI.openBlocks
      /\ fromOpenAI'.closing = fromOpenAI.closing /\ fromOpenAI'.started = TRUE
  BY <1>1 DEF Upstream, OpenAIDecoder
<1>7. fromOpenAI.openBlocks = s.open
  BY DEF Said, SaidByOpenAI
<1>8. Said(t)'
  BY <1>1, <1>3, <1>6, <1>7, ChatTurns
<1> QED
  BY <1>3, <1>5, <1>8 DEF SaysOn

LEMMA ChatFinishSays ==
  ASSUME Decoding, pipe.lawful, pipe.from = "openai", pipe' = pipe,
         NEW reason \in ChatReasons, ChatFinish(reason), NEW s \in Spots, Said(s)
  PROVE  SaysOn(s)
<1> DEFINE t == Begun(s)
<1>1. /\ up \in Upstream /\ up.phase # "over" /\ up' = [up EXCEPT !.phase = "stopping"]
      /\ fromOpenAI' = [fromOpenAI EXCEPT !.started = TRUE, !.pendingStop = reason]
      /\ fromOpenAI \in OpenAIDecoder
      /\ ~fromOpenAI.closing /\ queue' = ChatStarts
  BY DEF ChatFinish, ReadingChunk, Says, Sends, Lawful, Emit, Decoding, DecodersTyped, Upstream
<1>2. s.ended = "no"
  BY <1>1 DEF Said
<1>3. /\ t \in Spots /\ t.begun = TRUE /\ t.ended = "no" /\ SameAnswer(s, t) /\ t.open = s.open
      /\ Leads(queue', s, t)
  BY <1>1, <1>2, BegunLeads, ChatBegins, BegunSpot, SpotParts
<1> HIDE DEF t
<1>6. /\ up'.sent = up.sent /\ up'.phase = "stopping"
      /\ fromOpenAI'.nextBlock = fromOpenAI.nextBlock
      /\ fromOpenAI'.textBlock = fromOpenAI.textBlock
      /\ fromOpenAI'.toolBlocks = fromOpenAI.toolBlocks
      /\ fromOpenAI'.openBlocks = fromOpenAI.openBlocks
      /\ fromOpenAI'.closing = fromOpenAI.closing /\ fromOpenAI'.started = TRUE
  BY <1>1 DEF Upstream, OpenAIDecoder
<1>7. fromOpenAI.openBlocks = s.open
  BY DEF Said, SaidByOpenAI
<1>8. Said(t)'
  BY <1>1, <1>3, <1>6, <1>7, ChatTurns
<1> QED
  BY <1>3, <1>8 DEF SaysOn

LEMMA ChatEndsSay ==
  ASSUME Decoding, pipe.lawful, pipe.from = "openai", pipe' = pipe, UpstreamFacts, queue = <<>>,
         ChatDone \/ CloseOpenBlock \/ ChatStops, NEW s \in Spots, Said(s)
  PROVE  SaysOn(s)
<1>0. up \in Upstream /\ fromOpenAI \in OpenAIDecoder /\ ~up.reported
      /\ fromOpenAI.openBlocks = s.open /\ s.begun = fromOpenAI.started
  BY DEF Decoding, DecodersTyped, UpstreamFacts, Said, SaidByOpenAI
<1>1. CASE ChatDone
  <2>1. /\ up.phase = "stopping" /\ up' = [up EXCEPT !.phase = "over"] /\ queue' = <<>>
        /\ fromOpenAI' = [fromOpenAI EXCEPT !.done = TRUE, !.closing = fromOpenAI.pendingStop # "none"]
    BY <1>1 DEF ChatDone, ReadingChunk, Says, Sends, Lawful, Fail
  <2>2. s.ended = "no" /\ s.begun
    BY <2>1 DEF Said, SaidByOpenAI
  <2>3. /\ up'.sent = up.sent /\ up'.phase = "over" /\ up'.reported = up.reported
        /\ fromOpenAI'.nextBlock = fromOpenAI.nextBlock
        /\ fromOpenAI'.textBlock = fromOpenAI.textBlock
        /\ fromOpenAI'.toolBlocks = fromOpenAI.toolBlocks
        /\ fromOpenAI'.openBlocks = fromOpenAI.openBlocks
        /\ fromOpenAI'.started = fromOpenAI.started
    BY <1>0, <2>1 DEF Upstream, OpenAIDecoder
  <2>4. Said(s)'
    BY <1>0, <2>2, <2>3, ChatTurns DEF SameAnswer
  <2> QED
    BY <2>1, <2>4, LeadsNowhere DEF SaysOn
<1>2. CASE CloseOpenBlock
  <2>1. PICK i \in s.open :
          /\ \A j \in s.open : i <= j
          /\ fromOpenAI' = [fromOpenAI EXCEPT !.openBlocks = @ \ {i}]
          /\ queue' = <<ContentStop(i)>>
    BY <1>0, <1>2 DEF CloseOpenBlock, Emit
  <2>2. s.begun /\ s.ended = "no" /\ up' = up /\ up.phase = "over"
    BY <1>2 DEF CloseOpenBlock, Said, SaidByOpenAI, UpstreamFacts
  <2> DEFINE t == Closing(s, i)
  <2>3. Leads(queue', s, t)
    BY <2>1, <2>2, ClosingLeads
  <2>4. t \in Spots /\ SameAnswer(s, t) /\ t.begun = s.begun /\ t.ended = s.ended
        /\ t.open = s.open \ {i}
    BY ClosingSpot DEF SameAnswer
  <2>5. /\ fromOpenAI'.nextBlock = fromOpenAI.nextBlock
        /\ fromOpenAI'.textBlock = fromOpenAI.textBlock
        /\ fromOpenAI'.toolBlocks = fromOpenAI.toolBlocks
        /\ fromOpenAI'.openBlocks = fromOpenAI.openBlocks \ {i}
        /\ fromOpenAI'.started = fromOpenAI.started
    BY <1>0, <2>1 DEF OpenAIDecoder
  <2> HIDE DEF t
  <2>6. Said(t)'
    BY <1>0, <2>2, <2>4, <2>5, ChatTurns
  <2> QED
    BY <2>3, <2>4, <2>6 DEF SaysOn
<1>3. CASE ChatStops
  <2>1. PICK reason \in Reasons : queue' = <<ResponseStop(reason)>>
    BY <1>0, <1>3 DEF ChatStops, Emit, OpenAIDecoder, Pending, Decoding, DecodersTyped
  <2>2. s.begun /\ s.ended = "no" /\ up' = up /\ up.phase = "over" /\ s.open = {}
        /\ fromOpenAI' = [fromOpenAI EXCEPT !.closing = FALSE]
    BY <1>3 DEF ChatStops, Said, SaidByOpenAI, UpstreamFacts
  <2> DEFINE t == Stopping(s, reason)
  <2>3. Leads(queue', s, t)
    BY <2>1, <2>2, StoppingLeads
  <2>4. t \in Spots /\ SameAnswer(s, t) /\ t.begun = s.begun /\ t.open = s.open
    BY StoppingSpot DEF SameAnswer
  <2>5. /\ fromOpenAI'.nextBlock = fromOpenAI.nextBlock
        /\ fromOpenAI'.textBlock = fromOpenAI.textBlock
        /\ fromOpenAI'.toolBlocks = fromOpenAI.toolBlocks
        /\ fromOpenAI'.openBlocks = fromOpenAI.openBlocks
        /\ fromOpenAI'.closing = FALSE
        /\ fromOpenAI'.started = fromOpenAI.started
    BY <1>0, <2>2 DEF OpenAIDecoder
  <2> HIDE DEF t
  <2>6. Said(t)'
    BY <1>0, <2>2, <2>4, <2>5, ChatTurns
  <2> QED
    BY <2>3, <2>4, <2>6 DEF SaysOn
<1> QED
  BY <1>1, <1>2, <1>3

-----------------------------------------------------------------------------

(* A block that one decoder knows has its own place.                       *)
LEMMA ChatAdds ==
  ASSUME up \in Upstream, fromOpenAI \in OpenAIDecoder, ChatPlaces,
         fromOpenAI.nextBlock = Len(up.sent), NEW at \in 0 .. MaxCalls
  PROVE  /\ up.sent \in Seq(Block) /\ Len(up.sent) \in Nat /\ Len(up.sent) <= MaxBlocks
         /\ DOMAIN up.sent = 1 .. Len(up.sent)
         /\ ChatBlock(at) \in Indexes \cup {NoBlock}
         /\ ChatBlock(at) = NoBlock => \A k \in DOMAIN up.sent : up.sent[k].at # at
         /\ ChatBlock(at) # NoBlock =>
              /\ ChatBlock(at) + 1 \in DOMAIN up.sent
              /\ up.sent[ChatBlock(at) + 1].at = at
              /\ up.sent[ChatBlock(at) + 1].kind = ChatKind(at)
              /\ \A k \in DOMAIN up.sent : up.sent[k].at = at => k = ChatBlock(at) + 1
<1>1. up.sent \in Seq(Block) /\ Len(up.sent) \in Nat /\ DOMAIN up.sent = 1 .. Len(up.sent)
  BY LenProperties DEF Upstream
<1>2. Len(up.sent) <= MaxBlocks
  BY StreamBounds DEF OpenAIDecoder
<1>3. ChatBlock(at) \in Indexes \cup {NoBlock}
  <2>1. at = ChatText \/ at \in Calls
    BY CallBound DEF ChatText, Calls
  <2> QED
    BY <2>1 DEF ChatBlock, OpenAIDecoder
<1>4. ASSUME ChatBlock(at) = NoBlock, NEW k \in DOMAIN up.sent, up.sent[k].at = at PROVE FALSE
  <2>1. MaxBlocks + 1 = k
    BY <1>4 DEF ChatPlaces, NoBlock
  <2> QED
    BY <1>1, <1>2, <2>1, StreamBounds
<1>5. ASSUME ChatBlock(at) # NoBlock
      PROVE  /\ ChatBlock(at) + 1 \in DOMAIN up.sent
             /\ up.sent[ChatBlock(at) + 1].at = at
             /\ up.sent[ChatBlock(at) + 1].kind = ChatKind(at)
             /\ \A k \in DOMAIN up.sent : up.sent[k].at = at => k = ChatBlock(at) + 1
  <2>1. ChatBlock(at) < Len(up.sent) /\ up.sent[ChatBlock(at) + 1].at = at
    BY <1>5 DEF ChatPlaces
  <2>2. ChatBlock(at) \in Nat
    BY <1>3, <1>5, StreamBounds DEF Indexes
  <2>3. ChatBlock(at) + 1 \in DOMAIN up.sent
    BY <1>1, <2>1, <2>2
  <2> QED
    BY <2>1, <2>3 DEF ChatPlaces
<1> QED
  BY <1>1, <1>2, <1>3, <1>4, <1>5

(* A piece of the text, or of a call's arguments.                          *)
ChatSpoken(at, p, i, opens) ==
  /\ up.phase \in {"idle", "message"} /\ up' = Adding(at, ChatKind(at), p)
  /\ i = IF opens THEN fromOpenAI.nextBlock ELSE ChatBlock(at)
  /\ opens <=> ChatBlock(at) = NoBlock
  /\ \A o \in 0 .. MaxCalls : ChatBlock(o)' = IF o = at THEN i ELSE ChatBlock(o)
  /\ fromOpenAI'.started = TRUE /\ fromOpenAI'.closing = FALSE
  /\ fromOpenAI'.nextBlock = IF opens THEN fromOpenAI.nextBlock + 1 ELSE fromOpenAI.nextBlock
  /\ fromOpenAI'.openBlocks = IF opens THEN fromOpenAI.openBlocks \cup {i}
                                       ELSE fromOpenAI.openBlocks
  /\ queue' = ChatStarts \o
              (IF opens THEN <<ContentStart(i, ChatKind(at), Empty)>> ELSE <<>>) \o
              DeltaOf(i, ChatKind(at), p)

LEMMA ChatOpensSays ==
  ASSUME Decoding, pipe.lawful, pipe.from = "openai", pipe' = pipe, NEW s \in Spots, Said(s),
         NEW at \in 0 .. MaxCalls, NEW p \in NextPiece, NEW i \in Indexes,
         ChatSpoken(at, p, i, TRUE)
  PROVE  SaysOn(s)
<1> DEFINE v == Begun(s)
           b == up.sent
           kind == ChatKind(at)
           c == Append(b, Opened(at, kind, Pieces(p)))
<1>1. /\ up \in Upstream /\ fromOpenAI \in OpenAIDecoder /\ s.ended = "no" /\ ChatPlaces
      /\ fromOpenAI.nextBlock = Len(b) /\ fromOpenAI.openBlocks = s.open
      /\ s.open = {j \in Indexes : j < Len(b)} /\ Sent(b, s)
  BY DEF ChatSpoken, Said, SaidByOpenAI, Decoding, DecodersTyped
<1>2. /\ b \in Seq(Block) /\ Len(b) \in Nat /\ DOMAIN b = 1 .. Len(b)
      /\ \A k \in DOMAIN b : b[k].at # at
  BY <1>1, ChatAdds DEF ChatSpoken
<1>3. at \in Nat /\ kind \in Kinds /\ p \in Nat /\ i = Len(b) /\ i \in Nat
  BY <1>1, <1>2, CallBound DEF ChatSpoken, ChatKind, Kinds, NextPiece, Upstream, Empty
<1>4. up' = Adding(at, kind, p) /\ up'.sent = c
  <2>1. up' = Adding(at, kind, p)
    BY DEF ChatSpoken
  <2> HIDE DEF kind
  <2> QED
    BY <1>1, <1>2, <1>3, <2>1, AddingNew
<1>5. up'.phase = "message" /\ up'.reported = up.reported
  BY <1>1, <1>4 DEF Adding, Upstream
<1>6. /\ v \in Spots /\ v.begun /\ v.ended = "no" /\ v.open = s.open /\ SameAnswer(s, v)
      /\ Leads(ChatStarts, s, v) /\ ChatStarts \in Seq(Event)
  BY <1>1, BegunLeads, ChatBegins
<1> HIDE DEF v, kind
<1>7. Sent(b, v)
  BY <1>1, <1>6, SentSame
<1>8. PICK u \in Spots, t \in Spots :
        /\ Sent(c, t) /\ t.begun /\ t.ended = "no"
        /\ t.open = v.open \cup {i} /\ t.kind[i] = kind
        /\ Leads(<<ContentStart(i, kind, Empty)>>, v, u)
        /\ Leads(DeltaOf(i, kind, p), u, t)
  BY <1>2, <1>3, <1>6, <1>7, SentNew
<1>9. Leads(queue', s, t)
  <2> DEFINE start == <<ContentStart(i, kind, Empty)>>
             delta == DeltaOf(i, kind, p)
             first == ChatStarts \o start
  <2>1. start \in Seq(Event) /\ delta \in Seq(Event)
    BY <1>3, DeltaOfTyped
  <2>2. queue' = first \o delta
    BY DEF ChatSpoken, kind
  <2>3. Leads(start, v, u) /\ Leads(delta, u, t)
    BY <1>8
  <2> HIDE DEF start, delta
  <2>4. first \in Seq(Event)
    BY <1>6, <2>1, ConcatProperties
  <2>5. Leads(first, s, u)
    BY <1>6, <2>1, <2>3, LeadsOn
  <2> HIDE DEF first
  <2> QED
    BY <2>1, <2>2, <2>3, <2>4, <2>5, LeadsOn
<1>10. c \in Seq(Block) /\ Len(c) = Len(b) + 1 /\ DOMAIN c = 1 .. Len(b) + 1
       /\ c[Len(b) + 1].at = at /\ c[Len(b) + 1].kind = kind
       /\ \A k \in 1 .. Len(b) : c[k] = b[k]
  <2> DEFINE x == Opened(at, kind, Pieces(p))
  <2>1. x \in Block /\ x.at = at /\ x.kind = kind
    BY <1>3, PieceSeq DEF Opened, Block
  <2> HIDE DEF x
  <2> DEFINE d == Append(b, x)
  <2>2. d \in Seq(Block) /\ Len(d) = Len(b) + 1 /\ d[Len(b) + 1] = x
        /\ \A k \in 1 .. Len(b) : d[k] = b[k]
    BY <1>2, <2>1, AppendProperties
  <2>3. DOMAIN d = 1 .. Len(b) + 1
    BY <2>2, LenProperties
  <2> QED
    BY <2>1, <2>2, <2>3 DEF x
<1> HIDE DEF c
<1>11. ChatPlaces'
  <2>1. \A o \in 0 .. MaxCalls : ChatBlock(o)' = IF o = at THEN i ELSE ChatBlock(o)
    BY DEF ChatSpoken
  <2>2. ASSUME NEW k \in DOMAIN c
        PROVE  /\ c[k].at \in 0 .. MaxCalls /\ c[k].kind = ChatKind(c[k].at)
               /\ \A o \in 0 .. MaxCalls : o = c[k].at => ChatBlock(o)' + 1 = k
    <3>1. CASE k = Len(b) + 1
      BY <1>3, <1>10, <2>1, <3>1 DEF kind
    <3>2. CASE k # Len(b) + 1
      <4>1. k \in 1 .. Len(b)
        BY <1>2, <1>10, <3>2
      <4>2. c[k] = b[k] /\ b[k].at # at
        BY <1>2, <1>10, <4>1
      <4> QED
        BY <1>1, <1>2, <2>1, <4>1, <4>2 DEF ChatPlaces
    <3> QED
      BY <3>1, <3>2
  <2>3. ASSUME NEW o \in 0 .. MaxCalls, ChatBlock(o)' # NoBlock
        PROVE  ChatBlock(o)' < Len(c) /\ c[ChatBlock(o)' + 1].at = o
    <3>1. CASE o = at
      <4>1. ChatBlock(o)' = i
        BY <2>1, <3>1
      <4> QED
        BY <1>3, <1>10, <3>1, <4>1
    <3>2. CASE o # at
      <4>1. ChatBlock(o)' = ChatBlock(o)
        BY <2>1, <3>2
      <4>2. ChatBlock(o) + 1 \in DOMAIN b /\ b[ChatBlock(o) + 1].at = o
            /\ ChatBlock(o) \in Indexes \cup {NoBlock}
        BY <1>1, <2>3, <4>1, ChatAdds
      <4>3. ChatBlock(o) \in Nat
        BY <2>3, <4>1, <4>2, StreamBounds DEF Indexes
      <4> QED
        BY <1>2, <1>10, <4>1, <4>2, <4>3
    <3> QED
      BY <3>1, <3>2
  <2> QED
    BY <1>4, <2>2, <2>3 DEF ChatPlaces
<1>12. SaidByOpenAI(t)'
  <2>1. t.open = {j \in Indexes : j < Len(c)}
    <3>1. \A j \in Indexes : j < Len(c) <=> j < Len(b) \/ j = i
      BY <1>2, <1>3, <1>10, StreamBounds DEF Indexes
    <3>2. t.open = {j \in Indexes : j < Len(b)} \cup {i}
      BY <1>1, <1>6, <1>8
    <3> QED
      BY <3>1, <3>2
  <2>2. fromOpenAI'.nextBlock = Len(c) /\ fromOpenAI'.openBlocks = t.open
        /\ fromOpenAI'.started = TRUE /\ fromOpenAI'.closing = FALSE
    BY <1>1, <1>6, <1>8, <1>10 DEF ChatSpoken
  <2> QED
    BY <1>4, <1>5, <1>8, <1>11, <2>1, <2>2, SpotParts DEF SaidByOpenAI
<1>13. Said(t)'
  BY <1>4, <1>5, <1>8, <1>12 DEF Said
<1> QED
  BY <1>9, <1>13 DEF SaysOn

LEMMA ChatPieceSays ==
  ASSUME Decoding, pipe.lawful, pipe.from = "openai", pipe' = pipe, NEW s \in Spots, Said(s),
         NEW at \in 0 .. MaxCalls, NEW p \in NextPiece, NEW i \in Indexes,
         ChatSpoken(at, p, i, FALSE)
  PROVE  SaysOn(s)
<1> DEFINE v == Begun(s)
           b == up.sent
           c == up'.sent
           kind == ChatKind(at)
<1>1. /\ up \in Upstream /\ fromOpenAI \in OpenAIDecoder /\ s.ended = "no" /\ ChatPlaces
      /\ fromOpenAI.nextBlock = Len(b) /\ fromOpenAI.openBlocks = s.open
      /\ s.open = {j \in Indexes : j < Len(b)} /\ Sent(b, s)
  BY DEF ChatSpoken, Said, SaidByOpenAI, Decoding, DecodersTyped
<1>2. /\ b \in Seq(Block) /\ Len(b) \in Nat /\ DOMAIN b = 1 .. Len(b)
      /\ i + 1 \in DOMAIN b /\ b[i + 1].at = at /\ b[i + 1].kind = kind
      /\ \A k \in DOMAIN b : b[k].at = at => k = i + 1
  BY <1>1, ChatAdds DEF ChatSpoken
<1>3. at \in Nat /\ kind \in Kinds /\ p \in Nat /\ i \in Nat
  BY <1>1, CallBound, StreamBounds DEF ChatKind, Kinds, NextPiece, Upstream, Empty, Indexes
<1>4. up' = Adding(at, kind, p)
  BY DEF ChatSpoken
<1>5. up'.phase = "message" /\ up'.reported = up.reported
  BY <1>1, <1>4 DEF Adding, Upstream
<1>6. /\ v \in Spots /\ v.begun /\ v.ended = "no" /\ v.open = s.open /\ SameAnswer(s, v)
      /\ Leads(ChatStarts, s, v) /\ ChatStarts \in Seq(Event)
  BY <1>1, BegunLeads, ChatBegins
<1> HIDE DEF v
<1>7. Sent(b, v)
  BY <1>1, <1>6, SentSame
<1>8. /\ c \in Seq(Block) /\ Grows(b, c, i + 1, Pieces(p))
      /\ \A j \in DOMAIN b : c[j].at = b[j].at
  <2> DEFINE d == Adding(at, kind, p).sent
  <2> HIDE DEF kind
  <2>1. /\ d \in Seq(Block) /\ Grows(b, d, i + 1, Pieces(p))
        /\ \A j \in DOMAIN b : d[j].at = b[j].at
    BY <1>1, <1>2, <1>3, AddingKnown
  <2>2. c = d
    BY <1>4
  <2> QED
    BY <2>1, <2>2
<1>9. i \in v.open /\ v.kind[i] = kind
  <2>1. i \in v.open
    BY <1>1, <1>2, <1>3, <1>6
  <2>2. v.kind[i] # "none"
    BY <1>6, <2>1, SpotParts
  <2> QED
    BY <1>2, <1>7, <2>1, <2>2 DEF Sent
<1>10. Newest(v, i) \/ v.kind[i] = "tool"
  <2> SUFFICES ASSUME v.kind[i] # "tool", NEW j \in Indexes, j > i, v.kind[j] = v.kind[i]
               PROVE  FALSE
    BY DEF Newest
  <2>1. at = ChatText /\ v.kind[j] = "text"
    BY <1>9 DEF ChatKind
  <2>2. j < Len(b) /\ b[j + 1].kind = "text" /\ j \in Nat
    BY <1>7, <2>1, StreamBounds DEF Sent, Indexes
  <2>3. j + 1 \in DOMAIN b
    BY <1>2, <2>2
  <2>4. b[j + 1].at = ChatText
    BY <1>1, <2>2, <2>3 DEF ChatPlaces, ChatKind
  <2>5. j + 1 = i + 1
    BY <1>2, <2>1, <2>3, <2>4
  <2> QED
    BY <1>3, <2>2, <2>5
<1>11. PICK t \in Spots :
         /\ Sent(c, t) /\ t.begun /\ t.ended = "no"
         /\ t.open = v.open /\ t.kind = v.kind
         /\ Leads(DeltaOf(i, v.kind[i], p), v, t)
  BY <1>2, <1>3, <1>6, <1>7, <1>8, <1>9, <1>10, SentPiece
<1>12. Leads(queue', s, t)
  <2> DEFINE delta == DeltaOf(i, kind, p)
             first == ChatStarts
  <2>1. delta \in Seq(Event)
    BY <1>3, DeltaOfTyped
  <2>2. queue' = first \o <<>> \o delta
    BY DEF ChatSpoken
  <2>3. Leads(first, s, v) /\ Leads(delta, v, t) /\ first \in Seq(Event)
    BY <1>6, <1>9, <1>11
  <2> HIDE DEF delta, first
  <2>4. first \o <<>> = first
    BY <2>3, ConcatEmptySeq
  <2> QED
    BY <2>1, <2>2, <2>3, <2>4, LeadsOn
<1>13. Len(c) = Len(b) /\ DOMAIN c = DOMAIN b /\ \A k \in DOMAIN b : c[k].kind = b[k].kind
  BY <1>2, <1>8, LenProperties DEF Grows
<1>14. ChatPlaces'
  <2>1. \A o \in 0 .. MaxCalls : ChatBlock(o)' = ChatBlock(o)
    BY DEF ChatSpoken
  <2>2. ASSUME NEW k \in DOMAIN c
        PROVE  /\ c[k].at \in 0 .. MaxCalls /\ c[k].kind = ChatKind(c[k].at)
               /\ \A o \in 0 .. MaxCalls : o = c[k].at => ChatBlock(o)' + 1 = k
    BY <1>1, <1>8, <1>13, <2>1 DEF ChatPlaces
  <2>3. ASSUME NEW o \in 0 .. MaxCalls, ChatBlock(o)' # NoBlock
        PROVE  ChatBlock(o)' < Len(c) /\ c[ChatBlock(o)' + 1].at = o
    BY <1>1, <1>8, <1>13, <2>1, <2>3, ChatAdds DEF ChatPlaces
  <2> QED
    BY <2>2, <2>3 DEF ChatPlaces
<1>15. SaidByOpenAI(t)'
  <2>1. fromOpenAI'.nextBlock = Len(c) /\ fromOpenAI'.openBlocks = t.open
        /\ fromOpenAI'.started = TRUE /\ fromOpenAI'.closing = FALSE
    BY <1>1, <1>6, <1>11, <1>13 DEF ChatSpoken
  <2>2. t.open = {j \in Indexes : j < Len(c)}
    BY <1>1, <1>6, <1>11, <1>13
  <2> QED
    BY <1>5, <1>11, <1>14, <2>1, <2>2, SpotParts DEF SaidByOpenAI
<1>16. Said(t)'
  BY <1>5, <1>11, <1>15 DEF Said
<1> QED
  BY <1>12, <1>16 DEF SaysOn

LEMMA ChatContentSays ==
  ASSUME Decoding, pipe.lawful, pipe.from = "openai", pipe' = pipe,
         NEW p \in NextPiece, ChatContent(p), NEW s \in Spots, Said(s)
  PROVE  SaysOn(s)
<1>0. fromOpenAI \in OpenAIDecoder /\ ChatText \in 0 .. MaxCalls /\ MaxCalls \in Nat
  BY CallBound DEF Decoding, DecodersTyped, ChatText
<1>1. PICK opens \in BOOLEAN : opens <=> fromOpenAI.textBlock = NoBlock
  OBVIOUS
<1>2. PICK i \in Indexes : i = IF opens THEN fromOpenAI.nextBlock ELSE fromOpenAI.textBlock
  BY <1>1 DEF ChatContent
<1>3. /\ up.phase \in {"idle", "message"} /\ up' = Adding(ChatText, "text", p)
      /\ fromOpenAI' =
           [fromOpenAI EXCEPT !.started = TRUE, !.textBlock = i,
              !.nextBlock = IF opens THEN @ + 1 ELSE @,
              !.openBlocks = IF opens THEN @ \cup {i} ELSE @]
      /\ fromOpenAI.closing = FALSE
      /\ queue' = ChatStarts \o (IF opens THEN <<ContentStart(i, "text", Empty)>> ELSE <<>>) \o
                  DeltaOf(i, "text", p)
  BY <1>0, <1>1, <1>2 DEF ChatContent, ReadingChunk, Lawful, Sends, Emit, DeltaOf, OpenAIDecoder
<1>4. /\ fromOpenAI'.started = TRUE /\ fromOpenAI'.closing = FALSE
      /\ fromOpenAI'.textBlock = i /\ fromOpenAI'.toolBlocks = fromOpenAI.toolBlocks
      /\ fromOpenAI'.nextBlock = IF opens THEN fromOpenAI.nextBlock + 1 ELSE fromOpenAI.nextBlock
      /\ fromOpenAI'.openBlocks = IF opens THEN fromOpenAI.openBlocks \cup {i}
                                           ELSE fromOpenAI.openBlocks
  BY <1>0, <1>3 DEF OpenAIDecoder
<1>5. \A o \in 0 .. MaxCalls : ChatBlock(o)' = IF o = ChatText THEN i ELSE ChatBlock(o)
  BY <1>4 DEF ChatBlock
<1>6. ChatKind(ChatText) = "text" /\ ChatBlock(ChatText) = fromOpenAI.textBlock
  BY DEF ChatKind, ChatBlock
<1>7. ChatSpoken(ChatText, p, i, opens)
  BY <1>1, <1>2, <1>3, <1>4, <1>5, <1>6 DEF ChatSpoken
<1> QED
  BY <1>0, <1>1, <1>7, ChatOpensSays, ChatPieceSays

LEMMA ChatToolCallSays ==
  ASSUME Decoding, pipe.lawful, pipe.from = "openai", pipe' = pipe,
         NEW call \in Calls, NEW p \in NextPiece, ChatToolCall(call, p), NEW s \in Spots, Said(s)
  PROVE  SaysOn(s)
<1>0. fromOpenAI \in OpenAIDecoder /\ call \in 0 .. MaxCalls /\ call # ChatText
      /\ \A o \in 0 .. MaxCalls : o # ChatText => o \in Calls
  BY CallBound DEF Decoding, DecodersTyped, ChatText, Calls
<1>1. PICK opens \in BOOLEAN : opens <=> fromOpenAI.toolBlocks[call] = NoBlock
  OBVIOUS
<1>2. PICK i \in Indexes : i = IF opens THEN fromOpenAI.nextBlock ELSE fromOpenAI.toolBlocks[call]
  BY <1>1 DEF ChatToolCall
<1>3. /\ up.phase \in {"idle", "message"} /\ up' = Adding(call, "tool", p)
      /\ fromOpenAI' =
           [fromOpenAI EXCEPT !.started = TRUE, !.toolBlocks[call] = i,
              !.nextBlock = IF opens THEN @ + 1 ELSE @,
              !.openBlocks = IF opens THEN @ \cup {i} ELSE @]
      /\ fromOpenAI.closing = FALSE
      /\ queue' = ChatStarts \o (IF opens THEN <<ContentStart(i, "tool", Empty)>> ELSE <<>>) \o
                  DeltaOf(i, "tool", p)
  BY <1>0, <1>1, <1>2 DEF ChatToolCall, ReadingChunk, Lawful, Sends, Emit, DeltaOf, OpenAIDecoder
<1>4. /\ fromOpenAI'.started = TRUE /\ fromOpenAI'.closing = FALSE
      /\ fromOpenAI'.textBlock = fromOpenAI.textBlock
      /\ fromOpenAI'.toolBlocks = [fromOpenAI.toolBlocks EXCEPT ![call] = i]
      /\ fromOpenAI'.nextBlock = IF opens THEN fromOpenAI.nextBlock + 1 ELSE fromOpenAI.nextBlock
      /\ fromOpenAI'.openBlocks = IF opens THEN fromOpenAI.openBlocks \cup {i}
                                           ELSE fromOpenAI.openBlocks
  BY <1>0, <1>3 DEF OpenAIDecoder
<1>5. \A o \in 0 .. MaxCalls : ChatBlock(o)' = IF o = call THEN i ELSE ChatBlock(o)
  <2>1. fromOpenAI.toolBlocks \in [Calls -> Indexes \cup {NoBlock}]
    BY <1>0 DEF OpenAIDecoder
  <2> QED
    BY <1>0, <1>4, <2>1 DEF ChatBlock
<1>6. ChatKind(call) = "tool" /\ ChatBlock(call) = fromOpenAI.toolBlocks[call]
  BY <1>0 DEF ChatKind, ChatBlock
<1>7. ChatSpoken(call, p, i, opens)
  BY <1>1, <1>2, <1>3, <1>4, <1>5, <1>6 DEF ChatSpoken
<1> QED
  BY <1>0, <1>1, <1>7, ChatOpensSays, ChatPieceSays

-----------------------------------------------------------------------------

-----------------------------------------------------------------------------
(***************************************************************************)
(* A Gemini upstream that keeps its format.                                *)
(***************************************************************************)

LEMMA GeminiTurns ==
  ASSUME pipe.from = "gemini", pipe' = pipe, NEW s \in Spots, Said(s),
         NEW t, SameAnswer(s, t), t.open \subseteq s.open,
         up'.sent = up.sent, fromGemini'.nextBlock = fromGemini.nextBlock,
         fromGemini'.started = t.begun,
         \/ fromGemini'.active = fromGemini.active /\ fromGemini'.kind = fromGemini.kind
            /\ t.open = s.open
         \/ fromGemini'.active = NoBlock /\ fromGemini'.kind = "none" /\ t.open = {},
         t.ended # "no" => t.begun /\ up'.phase = "over", t.ended = "stop" => ~up'.reported
  PROVE  Said(t)'
<1>1. Sent(up'.sent, t)
  BY SentSame DEF Said
<1>2. SaidByGemini(t)'
  BY DEF Said, SaidByGemini, SameAnswer
<1> QED
  BY <1>1, <1>2 DEF Said

LEMMA GeminiBegins ==
  ASSUME Decoding, pipe.from = "gemini", NEW s \in Spots, Said(s), s.ended = "no"
  PROVE  Leads(GeminiStarts, s, Begun(s)) /\ GeminiStarts \in Seq(Event)
<1>1. s.begun = fromGemini.started
  BY DEF Said, SaidByGemini
<1>2. GeminiStarts = IF s.begun THEN <<>> ELSE <<ResponseStart>>
  BY <1>1 DEF GeminiStarts
<1>3. ResponseStart \in Event
  BY EventsTyped, InnerMiddle
<1> QED
  BY <1>2, <1>3, BegunLeads

LEMMA GeminiCloses ==
  ASSUME Decoding, pipe.from = "gemini", NEW s \in Spots, Said(s),
         NEW v \in Spots, v.begun, v.ended = "no", v.open = s.open
  PROVE  /\ CloseActive \in Seq(Event)
         /\ \E w \in Spots : /\ SameAnswer(v, w) /\ w.begun /\ w.ended = "no" /\ w.open = {}
                             /\ Leads(CloseActive, v, w)
<1>1. v.open = IF fromGemini.active = NoBlock THEN {} ELSE {fromGemini.active}
  BY DEF Said, SaidByGemini
<1>2. CASE fromGemini.active = NoBlock
  <2>1. CloseActive = <<>> /\ v.open = {}
    BY <1>1, <1>2 DEF CloseActive
  <2>2. Leads(CloseActive, v, v)
    BY <2>1, LeadsNowhere
  <2> QED
    BY <2>1, <2>2 DEF SameAnswer
<1>3. CASE fromGemini.active # NoBlock
  <2>1. PICK i \in v.open : i = fromGemini.active
    BY <1>1, <1>3
  <2>2. CloseActive = <<ContentStop(i)>> /\ v.open = {i} /\ i \in Nat
    BY <1>1, <1>3, <2>1, SpotParts, StreamBounds DEF CloseActive, Indexes
  <2> DEFINE w == Closing(v, i)
  <2>3. Leads(<<ContentStop(i)>>, v, w) /\ ContentStop(i) \in Event
    BY <2>2, ClosingLeads
  <2>4. w \in Spots /\ SameAnswer(v, w) /\ w.begun = v.begun /\ w.ended = v.ended
        /\ w.open = v.open \ {i}
    BY ClosingSpot DEF SameAnswer
  <2> HIDE DEF w
  <2>5. <<ContentStop(i)>> \in Seq(Event)
    BY <2>3
  <2>6. w.open = {}
    BY <2>2, <2>4
  <2>7. Leads(CloseActive, v, w)
    BY <2>2, <2>3
  <2> QED
    BY <2>2, <2>4, <2>5, <2>6, <2>7
<1> QED
  BY <1>2, <1>3

LEMMA EmptyChunkSays ==
  ASSUME Decoding, pipe.lawful, pipe.from = "gemini", pipe' = pipe,
         NEW counts \in Counts, EmptyChunk(counts), NEW s \in Spots, Said(s)
  PROVE  SaysOn(s)
<1>1. /\ up \in Upstream /\ up' = [up EXCEPT !.phase = IF up.phase = "idle" THEN "message" ELSE up.phase]
      /\ fromGemini \in GeminiDecoder /\ fromGemini' = [fromGemini EXCEPT !.started = TRUE]
      /\ queue' = GeminiStarts \o <<Usage(counts)>>
  BY DEF EmptyChunk, Says, Sends, Emit, Decoding, DecodersTyped
<1>2. /\ up'.sent = up.sent /\ up'.reported = up.reported
      /\ up.phase = "over" => up'.phase = "over"
      /\ fromGemini'.nextBlock = fromGemini.nextBlock
      /\ fromGemini'.active = fromGemini.active /\ fromGemini'.kind = fromGemini.kind
      /\ fromGemini'.started = TRUE
  BY <1>1 DEF Upstream, GeminiDecoder
<1>3. \E t \in Spots : /\ SameAnswer(s, t) /\ t.open = s.open /\ t.begun = TRUE /\ t.ended = s.ended
                       /\ Leads(GeminiStarts, s, t) /\ GeminiStarts \in Seq(Event)
  <2>1. CASE s.ended = "no"
    BY <2>1, BegunLeads, GeminiBegins, SpotParts
  <2>2. CASE s.ended # "no"
    <3>1. s.begun /\ fromGemini.started
      BY <2>2 DEF Said, SaidByGemini
    <3>2. GeminiStarts = <<>> /\ <<>> \in Seq(Event)
      BY <3>1 DEF GeminiStarts
    <3> QED
      BY <3>1, <3>2, LeadsNowhere, SpotParts DEF SameAnswer
  <2> QED
    BY <2>1, <2>2
<1>4. PICK t \in Spots : /\ SameAnswer(s, t) /\ t.open = s.open /\ t.begun = TRUE
                         /\ t.ended = s.ended
                         /\ Leads(GeminiStarts, s, t) /\ GeminiStarts \in Seq(Event)
  BY <1>3
<1>5. Leads(<<Usage(counts)>>, t, t) /\ <<Usage(counts)>> \in Seq(Event)
  BY UsageLeads
<1>6. Leads(queue', s, t)
  BY <1>1, <1>4, <1>5, LeadsOn
<1>7. Said(t)'
  <2>1. t.ended # "no" => up.phase = "over"
    BY <1>4 DEF Said
  <2>2. t.ended = "stop" => ~up.reported
    BY <1>4 DEF Said
  <2> QED
    BY <1>2, <1>4, <2>1, <2>2, GeminiTurns
<1> QED
  BY <1>6, <1>7 DEF SaysOn

LEMMA GeminiFinishSays ==
  ASSUME Decoding, pipe.lawful, pipe.from = "gemini", pipe' = pipe, UpstreamFacts,
         NEW reason \in GeminiReasons, GeminiFinish(reason), NEW s \in Spots, Said(s)
  PROVE  SaysOn(s)
<1> DEFINE v == Begun(s)
<1>0. PICK r \in Reasons : r = IF fromGemini.sawTool /\ reason = "end_turn" THEN "tool_use" ELSE reason
  BY DEF GeminiReasons, Reasons
<1>1. /\ up \in Upstream /\ up' = [up EXCEPT !.phase = "over"] /\ up.phase # "over"
      /\ ~up.reported /\ fromGemini \in GeminiDecoder
      /\ fromGemini' = [fromGemini EXCEPT !.started = TRUE, !.stopped = TRUE,
                                      !.active = NoBlock, !.kind = "none"]
      /\ queue' = (GeminiStarts \o CloseActive) \o <<ResponseStop(r)>>
  BY <1>0 DEF GeminiFinish, Says, Sends, Lawful, Emit, Decoding, DecodersTyped, UpstreamFacts
<1>2. s.ended = "no"
  BY <1>1 DEF Said
<1>3. /\ v \in Spots /\ v.begun /\ v.ended = "no" /\ SameAnswer(s, v) /\ v.open = s.open
      /\ Leads(GeminiStarts, s, v) /\ GeminiStarts \in Seq(Event)
  BY <1>2, BegunLeads, GeminiBegins
<1> HIDE DEF v
<1>4. CloseActive \in Seq(Event)
  BY <1>3, GeminiCloses
<1>5. PICK w \in Spots : /\ SameAnswer(v, w) /\ w.begun /\ w.ended = "no" /\ w.open = {}
                         /\ Leads(CloseActive, v, w)
  BY <1>3, GeminiCloses
<1> DEFINE t == Stopping(w, r)
<1>6. Leads(<<ResponseStop(r)>>, w, t) /\ ResponseStop(r) \in Event
  BY <1>5, StoppingLeads
<1>7. t \in Spots /\ SameAnswer(w, t) /\ t.begun = w.begun /\ t.open = w.open
  BY <1>5, StoppingSpot DEF SameAnswer
<1> HIDE DEF t
<1>8. Leads(queue', s, t)
  <2> DEFINE first == GeminiStarts \o CloseActive
             last == <<ResponseStop(r)>>
  <2>1. first \in Seq(Event)
    BY <1>3, <1>4, ConcatProperties
  <2>2. Leads(first, s, w)
    BY <1>3, <1>4, <1>5, LeadsOn
  <2>3. last \in Seq(Event) /\ Leads(last, w, t) /\ queue' = first \o last
    BY <1>1, <1>6
  <2> HIDE DEF first, last
  <2> QED
    BY <2>1, <2>2, <2>3, LeadsOn
<1>9. /\ up'.sent = up.sent /\ up'.phase = "over" /\ ~up'.reported
      /\ fromGemini'.nextBlock = fromGemini.nextBlock
      /\ fromGemini'.active = NoBlock /\ fromGemini'.kind = "none"
      /\ fromGemini'.started = TRUE
  BY <1>1 DEF Upstream, GeminiDecoder
<1>10. Said(t)'
  <2>1. SameAnswer(s, t) /\ t.begun = TRUE /\ t.open = {}
    BY <1>3, <1>5, <1>7, SpotParts DEF SameAnswer
  <2> QED
    BY <1>9, <2>1, GeminiTurns
<1> QED
  BY <1>7, <1>8, <1>10 DEF SaysOn

LEMMA GeminiAgainSays ==
  ASSUME Decoding, pipe.lawful, pipe.from = "gemini", pipe' = pipe,
         NEW changed, FunctionCallAgain(changed), NEW s \in Spots, Said(s)
  PROVE  SaysOn(s)
<1>1. /\ up \in Upstream /\ up' = [up EXCEPT !.phase = up.phase] /\ fromGemini' = fromGemini
      /\ queue' = <<>>
  BY DEF FunctionCallAgain, Says, Sends, Emit, Fail, Decoding, decoders
<1>2. up' = up
  BY <1>1 DEF Upstream
<1>3. Said(s)'
  BY <1>1, <1>2 DEF Said, SaidByGemini
<1> QED
  BY <1>1, <1>3, LeadsNowhere DEF SaysOn

-----------------------------------------------------------------------------

(* A new block, with its first piece.                                      *)
LEMMA GeminiNew ==
  ASSUME Decoding, pipe.lawful, pipe.from = "gemini", pipe' = pipe, NEW s \in Spots, Said(s),
         NEW kind \in Kinds, NEW p \in NextPiece, NEW i \in Indexes, i = fromGemini.nextBlock,
         up.phase \in {"idle", "message"}, up' = Adding(i, kind, p),
         fromGemini' = Activated(kind)
  PROVE  /\ p \in Nat /\ GeminiStarts \in Seq(Event) /\ CloseActive \in Seq(Event)
         /\ \E v, w, u, t \in Spots :
              /\ Leads(GeminiStarts, s, v) /\ Leads(CloseActive, v, w)
              /\ Leads(<<ContentStart(i, kind, Empty)>>, w, u)
              /\ Leads(DeltaOf(i, kind, p), u, t)
              /\ Said(t)'
<1> DEFINE v == Begun(s)
           b == up.sent
           c == Append(b, Opened(i, kind, Pieces(p)))
<1>1. /\ up \in Upstream /\ fromGemini \in GeminiDecoder /\ s.ended = "no"
      /\ fromGemini.nextBlock = Len(b) /\ Sent(b, s)
      /\ \A k \in DOMAIN b : b[k].at + 1 = k
  BY DEF Said, SaidByGemini, Decoding, DecodersTyped
<1>2. /\ b \in Seq(Block) /\ Len(b) \in Nat /\ DOMAIN b = 1 .. Len(b)
      /\ i = Len(b) /\ i \in Nat /\ p \in Nat
  BY <1>1, LenProperties, StreamBounds DEF Upstream, Indexes, NextPiece, Empty
<1>3. \A k \in DOMAIN b : b[k].at # i
  BY <1>1, <1>2
<1>4. up'.sent = c
  BY <1>1, <1>2, <1>3, AddingNew
<1>5. up'.phase = "message" /\ up'.reported = up.reported
  BY <1>1 DEF Adding, Upstream
<1>6. /\ v \in Spots /\ v.begun /\ v.ended = "no" /\ v.open = s.open /\ SameAnswer(s, v)
      /\ Leads(GeminiStarts, s, v) /\ GeminiStarts \in Seq(Event)
  BY <1>1, BegunLeads, GeminiBegins
<1> HIDE DEF v
<1>7. CloseActive \in Seq(Event)
  BY <1>6, GeminiCloses
<1>8. PICK w \in Spots : /\ SameAnswer(v, w) /\ w.begun /\ w.ended = "no" /\ w.open = {}
                         /\ Leads(CloseActive, v, w)
  BY <1>6, GeminiCloses
<1>9. Sent(b, w)
  <2>1. SameAnswer(s, w) /\ w.open \subseteq s.open
    BY <1>6, <1>8 DEF SameAnswer
  <2> QED
    BY <1>1, <2>1, SentSame
<1>10. PICK u \in Spots, t \in Spots :
        /\ Sent(c, t) /\ t.begun /\ t.ended = "no"
        /\ t.open = w.open \cup {i} /\ t.kind[i] = kind
        /\ Leads(<<ContentStart(i, kind, Empty)>>, w, u)
        /\ Leads(DeltaOf(i, kind, p), u, t)
  <2>1. /\ b \in Seq(Block) /\ i \in Indexes /\ i = Len(b) /\ i \in Nat /\ p \in Nat
        /\ kind \in Kinds /\ w \in Spots /\ Sent(b, w) /\ w.begun /\ w.ended = "no"
    BY <1>2, <1>8, <1>9
  <2> HIDE DEF b
  <2> QED
    BY ZenonT(40), <2>1, SentNew
<1>11. /\ Len(c) = Len(b) + 1 /\ DOMAIN c = 1 .. Len(b) + 1
       /\ c[Len(b) + 1].at = i /\ \A k \in 1 .. Len(b) : c[k] = b[k]
  <2> DEFINE x == Opened(i, kind, Pieces(p))
  <2>1. x \in Block /\ x.at = i
    BY <1>2, PieceSeq DEF Opened, Block
  <2> HIDE DEF x
  <2> DEFINE d == Append(b, x)
  <2>2. d \in Seq(Block) /\ Len(d) = Len(b) + 1 /\ d[Len(b) + 1] = x
        /\ \A k \in 1 .. Len(b) : d[k] = b[k]
    BY <1>2, <2>1, AppendProperties
  <2>3. DOMAIN d = 1 .. Len(b) + 1
    BY <2>2, LenProperties
  <2> QED
    BY <2>1, <2>2, <2>3 DEF x
<1> HIDE DEF c
<1>12. \A k \in DOMAIN c : c[k].at + 1 = k
  <2> TAKE k \in DOMAIN c
  <2>1. CASE k = Len(b) + 1
    BY <1>2, <1>11, <2>1
  <2>2. CASE k # Len(b) + 1
    <3>1. k \in 1 .. Len(b)
      BY <1>2, <1>11, <2>2
    <3> QED
      BY <1>1, <1>2, <1>11, <3>1
  <2> QED
    BY <2>1, <2>2
<1>13. /\ fromGemini'.nextBlock = Len(c) /\ fromGemini'.active = i
       /\ fromGemini'.kind = kind /\ fromGemini'.started = TRUE /\ i # NoBlock /\ kind # "none"
  <2>1. i # NoBlock /\ kind # "none"
    BY StreamBounds DEF Indexes, NoBlock, Kinds
  <2> QED
    BY <1>1, <1>11, <2>1 DEF Activated, GeminiDecoder
<1>14. SaidByGemini(t)'
  <2>1. t.open = {i} /\ t.begun = TRUE
    BY <1>8, <1>10, SpotParts
  <2> QED
    BY ZenonT(40), <1>2, <1>4, <1>10, <1>11, <1>12, <1>13, <2>1 DEF SaidByGemini
<1>15. Said(t)'
  BY <1>4, <1>5, <1>10, <1>14 DEF Said
<1> QED
  BY <1>2, <1>6, <1>7, <1>8, <1>10, <1>15

(* The block that is open goes on.                                         *)
LEMMA GeminiMore ==
  ASSUME Decoding, pipe.lawful, pipe.from = "gemini", pipe' = pipe, UpstreamFacts,
         NEW s \in Spots, Said(s),
         NEW kind \in Kinds, NEW p \in NextPiece, NEW i \in Indexes,
         kind = fromGemini.kind, i = fromGemini.active,
         up.phase \in {"idle", "message"}, up' = Adding(i, kind, p),
         fromGemini' = fromGemini, queue' = GeminiStarts \o <<>> \o DeltaOf(i, kind, p)
  PROVE  SaysOn(s)
<1> DEFINE b == up.sent
           c == up'.sent
<1>1. /\ up \in Upstream /\ fromGemini \in GeminiDecoder /\ s.ended = "no"
      /\ fromGemini.nextBlock = Len(b) /\ Sent(b, s)
      /\ \A k \in DOMAIN b : b[k].at + 1 = k
  BY DEF Said, SaidByGemini, Decoding, DecodersTyped
<1>2. /\ b \in Seq(Block) /\ Len(b) \in Nat /\ DOMAIN b = 1 .. Len(b)
      /\ i \in Nat /\ p \in Nat /\ i # NoBlock /\ kind # "none"
  BY <1>1, LenProperties, StreamBounds DEF Upstream, Indexes, NextPiece, Empty, NoBlock, Kinds
<1>3. /\ i + 1 = Len(b) /\ s.kind[i] = kind /\ s.open = {i}
      /\ s.begun = TRUE /\ fromGemini.started = TRUE
  BY <1>1, <1>2, SpotParts DEF Said, SaidByGemini, UpstreamFacts
<1>4. i + 1 \in DOMAIN b /\ b[i + 1].at = i /\ \A k \in DOMAIN b : b[k].at = i => k = i + 1
  <2>1. i + 1 \in DOMAIN b
    BY <1>2, <1>3
  <2>2. b[i + 1] \in Block
    BY <1>2, <2>1, ElementOfSeq
  <2>3. b[i + 1].at \in Nat
    BY <2>2 DEF Block
  <2>4. b[i + 1].at + 1 = i + 1
    BY <1>1, <2>1
  <2>5. b[i + 1].at = i
    BY <1>2, <2>3, <2>4
  <2>6. ASSUME NEW k \in DOMAIN b, b[k].at = i PROVE k = i + 1
    BY <1>1, <2>6
  <2> QED
    BY <2>1, <2>5, <2>6
<1>5. /\ c \in Seq(Block) /\ Grows(b, c, i + 1, Pieces(p))
      /\ \A j \in DOMAIN b : c[j].at = b[j].at
  <2> DEFINE d == Adding(i, kind, p).sent
  <2>1. /\ d \in Seq(Block) /\ Grows(b, d, i + 1, Pieces(p))
        /\ \A j \in DOMAIN b : d[j].at = b[j].at
    <3>1. /\ up \in Upstream /\ i \in Nat /\ kind \in Kinds /\ p \in NextPiece
          /\ i + 1 \in DOMAIN up.sent /\ up.sent[i + 1].at = i
          /\ \A k \in DOMAIN up.sent : up.sent[k].at = i => k = i + 1
      BY <1>1, <1>2, <1>4
    <3> QED
      BY SMTT(15), <3>1, AddingKnown
  <2>2. c = d
    OBVIOUS
  <2> QED
    BY <2>1, <2>2
<1>6. up'.phase = "message" /\ up'.reported = up.reported
  BY <1>1 DEF Adding, Upstream
<1>7. Newest(s, i)
  <2> SUFFICES ASSUME NEW j \in Indexes, j > i, s.kind[j] = s.kind[i]
               PROVE  FALSE
    BY DEF Newest
  <2>1. j < Len(b) /\ j \in Nat
    BY <1>1, <1>2, <1>3, StreamBounds DEF Sent, Indexes
  <2> QED
    BY <1>2, <1>3, <2>1
<1>8. PICK t \in Spots :
        /\ Sent(c, t) /\ t.begun /\ t.ended = "no" /\ t.open = s.open /\ t.kind = s.kind
        /\ Leads(DeltaOf(i, s.kind[i], p), s, t)
  <2>1. /\ b \in Seq(Block) /\ c \in Seq(Block) /\ Sent(b, s) /\ s.begun /\ s.ended = "no"
        /\ i \in s.open /\ Newest(s, i) /\ p \in Nat /\ Grows(b, c, i + 1, Pieces(p))
    BY <1>1, <1>2, <1>3, <1>5, <1>7
  <2> HIDE DEF b, c
  <2> QED
    BY <2>1, SentPiece
<1>9. Leads(queue', s, t)
  <2> DEFINE delta == DeltaOf(i, kind, p)
  <2>1. delta \in Seq(Event) /\ Leads(delta, s, t)
    BY <1>2, <1>3, <1>8, DeltaOfTyped
  <2>2. GeminiStarts = <<>>
    BY <1>3 DEF GeminiStarts
  <2>3. queue' = <<>> \o <<>> \o delta
    BY <2>2
  <2> HIDE DEF delta
  <2>4. <<>> \o <<>> \o delta = delta
    BY <2>1, ConcatEmptySeq
  <2> QED
    BY <2>1, <2>3, <2>4
<1>10. Len(c) = Len(b) /\ DOMAIN c = DOMAIN b
  BY <1>2, <1>5, LenProperties DEF Grows
<1>11. SaidByGemini(t)'
  <2>1. t.begun = TRUE /\ t.open = {i} /\ t.kind[i] = kind
    BY <1>3, <1>8, SpotParts
  <2> QED
    BY <1>1, <1>2, <1>3, <1>5, <1>8, <1>10, <2>1 DEF SaidByGemini
<1>12. Said(t)'
  BY <1>6, <1>8, <1>11 DEF Said
<1> QED
  BY <1>9, <1>12 DEF SaysOn

LEMMA GeminiTextSays ==
  ASSUME Decoding, pipe.lawful, pipe.from = "gemini", pipe' = pipe, UpstreamFacts,
         NEW kind \in {"text", "reasoning"}, NEW p \in NextPiece, GeminiText(kind, p),
         NEW s \in Spots, Said(s)
  PROVE  SaysOn(s)
<1>0. kind \in Kinds
  BY DEF Kinds
<1>1. CASE Activates(kind)
  <2>1. PICK i \in Indexes : i = fromGemini.nextBlock
    BY <1>1 DEF GeminiText
  <2>2. /\ up.phase \in {"idle", "message"} /\ up' = Adding(i, kind, p)
        /\ fromGemini' = Activated(kind)
        /\ queue' = GeminiStarts \o (CloseActive \o <<ContentStart(i, kind, Empty)>>) \o
                    DeltaOf(i, kind, p)
    BY <1>1, <2>1 DEF GeminiText, Lawful, Sends, Emit, DeltaOf
  <2>3. p \in Nat /\ GeminiStarts \in Seq(Event) /\ CloseActive \in Seq(Event)
    BY <1>0, <2>1, <2>2, GeminiNew
  <2>4. PICK v, w, u, t \in Spots :
              /\ Leads(GeminiStarts, s, v) /\ Leads(CloseActive, v, w)
              /\ Leads(<<ContentStart(i, kind, Empty)>>, w, u)
              /\ Leads(DeltaOf(i, kind, p), u, t)
              /\ Said(t)'
    BY <1>0, <2>1, <2>2, GeminiNew
  <2>5. Leads(queue', s, t)
    <3> DEFINE starts == GeminiStarts
               closes == CloseActive
               start == <<ContentStart(i, kind, Empty)>>
               delta == DeltaOf(i, kind, p)
               middle == closes \o start
               first == starts \o middle
    <3>1. start \in Seq(Event) /\ delta \in Seq(Event)
      BY <1>0, <2>3, DeltaOfTyped
    <3>2. queue' = first \o delta
      BY <2>2
    <3>3. /\ starts \in Seq(Event) /\ closes \in Seq(Event)
          /\ Leads(starts, s, v) /\ Leads(closes, v, w) /\ Leads(start, w, u)
          /\ Leads(delta, u, t)
      BY <2>3, <2>4
    <3> HIDE DEF starts, closes, start, delta
    <3>4. middle \in Seq(Event) /\ Leads(middle, v, u)
      BY <3>1, <3>3, ConcatProperties, LeadsOn
    <3> HIDE DEF middle
    <3>5. first \in Seq(Event) /\ Leads(first, s, u)
      BY <3>3, <3>4, ConcatProperties, LeadsOn
    <3> HIDE DEF first
    <3> QED
      BY <3>1, <3>2, <3>3, <3>5, LeadsOn
  <2> QED
    BY <2>4, <2>5 DEF SaysOn
<1>2. CASE ~Activates(kind)
  <2>1. PICK i \in Indexes : i = fromGemini.active
    BY <1>2 DEF GeminiText
  <2>2. /\ up.phase \in {"idle", "message"} /\ up' = Adding(i, kind, p)
        /\ fromGemini' = fromGemini /\ kind = fromGemini.kind
        /\ queue' = GeminiStarts \o <<>> \o DeltaOf(i, kind, p)
    BY <1>2, <2>1 DEF GeminiText, Activates, Lawful, Sends, Emit, DeltaOf
  <2> QED
    BY <1>0, <2>1, <2>2, GeminiMore
<1> QED
  BY <1>1, <1>2

LEMMA FunctionCallSays ==
  ASSUME Decoding, pipe.lawful, pipe.from = "gemini", pipe' = pipe,
         NEW p \in NextPiece, FunctionCall(p), NEW s \in Spots, Said(s)
  PROVE  SaysOn(s)
<1> DEFINE kind == "tool"
<1>0. kind \in Kinds
  BY DEF Kinds
<1>1. PICK i \in Indexes : i = fromGemini.nextBlock
  BY DEF FunctionCall
<1>2. /\ up.phase \in {"idle", "message"} /\ up' = Adding(i, kind, p)
      /\ fromGemini' = Activated(kind) /\ p # Empty
      /\ queue' = (GeminiStarts \o CloseActive) \o
                  <<ContentStart(i, kind, Empty), Delta(i, kind, p)>>
  BY <1>1 DEF FunctionCall, Lawful, Sends, Emit
<1> HIDE DEF kind
<1>3. p \in Nat /\ GeminiStarts \in Seq(Event) /\ CloseActive \in Seq(Event)
  BY <1>0, <1>1, <1>2, GeminiNew
<1>4. PICK v, w, u, t \in Spots :
            /\ Leads(GeminiStarts, s, v) /\ Leads(CloseActive, v, w)
            /\ Leads(<<ContentStart(i, kind, Empty)>>, w, u)
            /\ Leads(DeltaOf(i, kind, p), u, t)
            /\ Said(t)'
  BY <1>0, <1>1, <1>2, GeminiNew
<1>5. Leads(queue', s, t)
  <2> DEFINE starts == GeminiStarts
             closes == CloseActive
             x == ContentStart(i, kind, Empty)
             y == Delta(i, kind, p)
             last == <<x, y>>
             first == starts \o closes
  <2>1. x \in Event /\ y \in Event
    BY <1>0, <1>3, EventsTyped, InnerMiddle, StreamBounds DEF Empty
  <2>2. Leads(<<x>>, w, u) /\ Leads(<<y>>, u, t)
    BY <1>2, <1>4 DEF DeltaOf
  <2>3. queue' = first \o last
    BY <1>2
  <2>4. /\ starts \in Seq(Event) /\ closes \in Seq(Event)
        /\ Leads(starts, s, v) /\ Leads(closes, v, w)
    BY <1>3, <1>4
  <2> HIDE DEF starts, closes, x, y
  <2>5. last \in Seq(Event) /\ Leads(last, w, t)
    BY <2>1, <2>2, LeadsTwo
  <2>6. first \in Seq(Event) /\ Leads(first, s, w)
    BY <2>4, ConcatProperties, LeadsOn
  <2> HIDE DEF first, last
  <2> QED
    BY <2>3, <2>5, <2>6, LeadsOn
<1> QED
  BY <1>4, <1>5 DEF SaysOn

-----------------------------------------------------------------------------

(* Every event of an upstream that keeps its format is passed on as what   *)
(* it says.                                                                *)
LEMMA DecodeSays ==
  ASSUME Decoding, pipe.lawful, pipe' = pipe, UpstreamFacts, queue = <<>>, Decode,
         NEW s \in Spots, Said(s)
  PROVE  SaysOn(s)
<1>1. CASE DecodeMessages
  <2>1. pipe.from = "anthropic"
    BY <1>1 DEF DecodeMessages, MessageStart, TextBlockStart, ToolBlockStart, ThinkingBlockStart,
                BlockStart, TextOrInputDelta, ThinkingDelta, BlockDelta, BlockStop, MessageDelta,
                MessageStop, MessageError, Reading
  <2>2. ASSUME NEW counts \in {"plain", "cache_write"}, MessageStart(counts) PROVE SaysOn(s)
    BY <2>1, <2>2, MessageStartSays DEF Counts
  <2>3. ASSUME NEW i \in Indexes, NEW p \in NextPiece, TextBlockStart(i, p) \/ ToolBlockStart(i, p)
        PROVE  SaysOn(s)
    BY <2>1, <2>3, BlockStartsSay
  <2>4. ASSUME NEW i \in Indexes, NEW p \in NextPiece, ThinkingBlockStart(i, p)
        PROVE  SaysOn(s)
    BY <2>1, <2>4, ThinkingStartSays
  <2>5. ASSUME NEW i \in Indexes, NEW p \in NextPiece, ThinkingDelta(i, p)
        PROVE  SaysOn(s)
    BY <2>1, <2>5, ThinkingDeltaSays
  <2>6. ASSUME NEW i \in Indexes, NEW p \in NextPiece, NEW kind \in {"text", "tool"},
               TextOrInputDelta(i, kind, p)
        PROVE  SaysOn(s)
    BY <2>1, <2>6, TextOrInputDeltaSays
  <2>7. ASSUME NEW i \in Indexes, BlockStop(i) PROVE SaysOn(s)
    BY <2>1, <2>7, BlockStopSays
  <2>8. ASSUME NEW reason \in MessagesReasons \cup {"none"}, NEW counts \in {"plain", "cache_write"},
               MessageDelta(reason, counts)
        PROVE  SaysOn(s)
    BY <2>1, <2>8, MessageDeltaSays DEF Counts, MessagesReasons, Pending
  <2>9. ASSUME MessageStop \/ MessageError PROVE SaysOn(s)
    BY <2>1, <2>9, MessageEndsSay
  <2> QED
    BY <1>1, <2>2, <2>3, <2>4, <2>5, <2>6, <2>7, <2>8, <2>9 DEF DecodeMessages
<1>2. CASE DecodeChat
  <2>1. pipe.from = "openai"
    BY <1>2 DEF DecodeChat, ChatUsage, ChatContent, ChatToolCall, ChatFinish, ChatDone,
                CloseOpenBlock, ChatStops, ReadingChunk, Reading, UpstreamFacts
  <2>2. ASSUME NEW counts \in {"plain", "reasoning_tokens"}, ChatUsage(counts) PROVE SaysOn(s)
    BY <2>1, <2>2, ChatUsageSays DEF Counts
  <2>3. ASSUME NEW p \in NextPiece, ChatContent(p) PROVE SaysOn(s)
    BY <2>1, <2>3, ChatContentSays
  <2>4. ASSUME NEW p \in NextPiece, NEW call \in Calls, ChatToolCall(call, p) PROVE SaysOn(s)
    BY <2>1, <2>4, ChatToolCallSays
  <2>5. ASSUME NEW reason \in ChatReasons, ChatFinish(reason) PROVE SaysOn(s)
    BY <2>1, <2>5, ChatFinishSays
  <2>6. ASSUME ChatDone \/ CloseOpenBlock \/ ChatStops PROVE SaysOn(s)
    BY <2>1, <2>6, ChatEndsSay
  <2> QED
    BY <1>2, <2>2, <2>3, <2>4, <2>5, <2>6 DEF DecodeChat
<1>3. CASE DecodeGenerateContent
  <2>1. pipe.from = "gemini"
    BY <1>3 DEF DecodeGenerateContent, EmptyChunk, GeminiText, FunctionCall, FunctionCallAgain,
                GeminiFinish, Reading
  <2>2. ASSUME NEW counts \in {"plain", "reasoning_tokens"}, EmptyChunk(counts) PROVE SaysOn(s)
    BY <2>1, <2>2, EmptyChunkSays DEF Counts
  <2>3. ASSUME NEW p \in NextPiece, NEW kind \in {"text", "reasoning"}, GeminiText(kind, p)
        PROVE  SaysOn(s)
    BY <2>1, <2>3, GeminiTextSays
  <2>4. ASSUME NEW p \in NextPiece, FunctionCall(p) PROVE SaysOn(s)
    BY <2>1, <2>4, FunctionCallSays
  <2>5. ASSUME NEW changed \in BOOLEAN, FunctionCallAgain(changed) PROVE SaysOn(s)
    BY <2>1, <2>5, GeminiAgainSays
  <2>6. ASSUME NEW reason \in GeminiReasons, GeminiFinish(reason) PROVE SaysOn(s)
    BY <2>1, <2>6, GeminiFinishSays
  <2> QED
    BY <1>3, <2>2, <2>3, <2>4, <2>5, <2>6 DEF DecodeGenerateContent
<1>4. CASE Garbage
  BY <1>4 DEF Garbage
<1> QED
  BY <1>1, <1>2, <1>3, <1>4 DEF Decode

-----------------------------------------------------------------------------

(***************************************************************************)
(* The turn that is kept.                                                  *)
(***************************************************************************)

(* The accumulator has noted what a reader at s has read, the reasoning    *)
(* only as something it cannot keep.                                       *)
Notes(turn, s) ==
  /\ turn.texts = {i \in Indexes : s.kind[i] = "text"}
  /\ turn.tools = {i \in Indexes : s.kind[i] = "tool"}
  /\ \A i \in Indexes : turn.initial[i] = <<>>

Keeps(turn, s) ==
  /\ Notes(turn, s)
  /\ turn.nonportable <=> \E i \in Indexes : s.kind[i] = "reasoning"
  /\ turn.stopReason = s.reason
  /\ Text(StoredBlocks(turn)) = s.text
  /\ ToolCalls(StoredBlocks(turn)) = s.calls
  /\ \A i \in s.open : s.kind[i] # "reasoning" => Stands(StoredBlocks(turn), i + 1, s, i)

LEMMA StoredTyped ==
  ASSUME NEW turn \in Accumulator
  PROVE  /\ StoredBlocks(turn) \in Seq(Block) /\ Len(StoredBlocks(turn)) = MaxBlocks
         /\ DOMAIN StoredBlocks(turn) = 1 .. MaxBlocks /\ MaxBlocks \in Nat
         /\ \A i \in Indexes : /\ i + 1 \in 1 .. MaxBlocks /\ i \in Nat
                               /\ StoredBlocks(turn)[i + 1] = StoredBlock(turn, i)
         /\ \A k \in 1 .. MaxBlocks : k - 1 \in Indexes /\ (k - 1) + 1 = k
<1>1. MaxBlocks \in Nat
  BY StreamBounds
<1>2. ASSUME NEW i \in Indexes
      PROVE  StoredBlock(turn, i) \in Block
  <2>1. turn.text[i] \in Seq(Nat) /\ turn.arguments[i] \in Seq(Nat) /\ turn.initial[i] \in Seq(Nat)
    BY DEF Accumulator
  <2>2. i \in Nat
    BY <1>1 DEF Indexes
  <2>3. \A kind \in Kinds, data \in Seq(Nat) : Opened(i, kind, data) \in Block
    BY <2>2 DEF Opened, Block
  <2>4. <<>> \in Seq(Nat)
    OBVIOUS
  <2> QED
    BY <2>1, <2>3, <2>4 DEF StoredBlock, Kinds
<1>3. \A k \in 1 .. MaxBlocks : k - 1 \in Indexes /\ (k - 1) + 1 = k
  BY <1>1 DEF Indexes
<1> DEFINE b == StoredBlocks(turn)
<1>4. b \in [1 .. MaxBlocks -> Block]
  BY <1>2, <1>3 DEF StoredBlocks
<1>5. \A i \in Indexes : i + 1 \in 1 .. MaxBlocks /\ i \in Nat /\ (i + 1) - 1 = i
  BY <1>1 DEF Indexes
<1>6. \A i \in Indexes : b[i + 1] = StoredBlock(turn, i)
  <2> TAKE i \in Indexes
  <2>1. b[i + 1] = StoredBlock(turn, (i + 1) - 1)
    BY <1>5 DEF StoredBlocks
  <2> QED
    BY <1>5, <2>1
<1> HIDE DEF b
<1>7. b \in Seq(Block) /\ Len(b) = MaxBlocks /\ DOMAIN b = 1 .. MaxBlocks
  BY <1>1, <1>4
<1> QED
  BY <1>1, <1>3, <1>5, <1>6, <1>7 DEF b

LEMMA NotedBlocks ==
  ASSUME NEW turn \in Accumulator, NEW s \in Spots, Notes(turn, s), NEW i \in Indexes
  PROVE  /\ StoredBlocks(turn)[i + 1].kind =
              IF s.kind[i] \in {"text", "tool"} THEN s.kind[i] ELSE "reasoning"
         /\ StoredBlocks(turn)[i + 1].data =
              CASE s.kind[i] = "text" -> turn.text[i]
                [] s.kind[i] = "tool" -> turn.arguments[i]
                [] OTHER -> <<>>
<1>1. StoredBlocks(turn)[i + 1] = StoredBlock(turn, i)
  BY StoredTyped
<1>2. (i \in turn.texts <=> s.kind[i] = "text") /\ (i \in turn.tools <=> s.kind[i] = "tool")
      /\ turn.initial[i] = <<>>
  BY DEF Notes
<1>3. CASE s.kind[i] = "text"
  <2>1. StoredBlock(turn, i) = Opened(i, "text", turn.text[i])
    BY <1>2, <1>3 DEF StoredBlock
  <2> QED
    BY <1>1, <1>3, <2>1 DEF Opened
<1>4. CASE s.kind[i] = "tool"
  <2>1. StoredBlock(turn, i) = Opened(i, "tool", turn.arguments[i])
    BY <1>2, <1>4 DEF StoredBlock
  <2> QED
    BY <1>1, <1>4, <2>1 DEF Opened
<1>5. CASE s.kind[i] \notin {"text", "tool"}
  <2>1. StoredBlock(turn, i) = Opened(i, "reasoning", <<>>)
    BY <1>2, <1>5 DEF StoredBlock
  <2> QED
    BY <1>1, <1>5, <2>1 DEF Opened
<1> QED
  BY <1>3, <1>4, <1>5

(* Block k, and none after it, had nothing in it; now it has kind, but no  *)
(* data.                                                                   *)
Fills(b, c, k, kind) ==
  /\ Len(c) = Len(b) /\ k \in 1 .. Len(b)
  /\ \A n \in 1 .. Len(b) : n >= k => b[n].kind = "reasoning"
  /\ c[k].kind = kind /\ c[k].data = <<>>
  /\ \A n \in 1 .. Len(b) : n # k => c[n].kind = b[n].kind /\ c[n].data = b[n].data

LEMMA FillsAnswers ==
  ASSUME NEW b \in Seq(Block), NEW c \in Seq(Block), NEW k, NEW kind \in {"text", "tool"},
         Fills(b, c, k, kind)
  PROVE  /\ Text(c) = Text(b)
         /\ ToolCalls(c) = IF kind = "tool" THEN Append(ToolCalls(b), <<>>) ELSE ToolCalls(b)
         /\ \A n \in 1 .. Len(b) : n < k => RankOf(c, n) = RankOf(b, n)
         /\ kind = "tool" => RankOf(c, k) = Len(ToolCalls(b)) + 1
<1>1. Len(b) \in Nat /\ Len(c) = Len(b) /\ k \in 1 .. Len(b) /\ k \in Nat
  BY LenProperties DEF Fills
<1>2. k - 1 \in 0 .. Len(b) /\ k \in 0 .. Len(b) /\ k - 1 <= Len(b) /\ (k - 1) + 1 = k
  BY <1>1
<1>3. \A n \in k + 1 .. Len(b) : n \in 1 .. Len(b) /\ n >= k /\ n # k
  BY <1>1
<1>4. \A n \in (k - 1) + 1 .. Len(b) : b[n].kind = "reasoning"
  BY <1>1, <1>2 DEF Fills
<1>5. \A n \in k + 1 .. Len(c) : c[n].kind = "reasoning"
  BY <1>1, <1>3 DEF Fills
<1>6. \A n \in 1 .. k - 1 : n \in 1 .. Len(b) /\ n # k
  BY <1>1
<1>7. \A n \in 1 .. k - 1 : c[n].kind = b[n].kind /\ c[n].data = b[n].data
  BY <1>6 DEF Fills
<1>8. k - 1 \in Nat /\ k - 1 <= Len(c)
  BY <1>1
<1>9. ASSUME NEW kinds, "reasoning" \notin kinds
      PROVE  /\ \A n \in 0 .. k - 1 : DataUpTo(b, kinds)[n] = DataUpTo(c, kinds)[n]
             /\ DataOf(b, kinds) = DataUpTo(c, kinds)[k - 1]
             /\ DataOf(c, kinds) = DataUpTo(c, kinds)[k]
             /\ DataUpTo(c, kinds)[k] = IF kind \in kinds
                                        THEN Append(DataUpTo(c, kinds)[k - 1], <<>>)
                                        ELSE DataUpTo(c, kinds)[k - 1]
  <2>1. Same(b, c, k - 1, kinds)
    BY <1>1, <1>7, <1>8 DEF Same
  <2>2. \A n \in 0 .. k - 1 : DataUpTo(b, kinds)[n] = DataUpTo(c, kinds)[n]
    BY <2>1, DataAgrees
  <2>3. DataUpTo(b, kinds)[Len(b)] = DataUpTo(b, kinds)[k - 1]
    BY <1>2, <1>4, <1>9, DataSkips
  <2>4. DataUpTo(c, kinds)[Len(c)] = DataUpTo(c, kinds)[k]
    BY <1>1, <1>2, <1>5, <1>9, DataSkips
  <2>5. DataSteps(DataUpTo(c, kinds), c, kinds)
    BY DataComputed
  <2>6. k - 1 \in 0 .. k - 1 /\ c[k].kind = kind /\ c[k].data = <<>>
    BY <1>8 DEF Fills
  <2> QED
    BY <1>1, <2>2, <2>3, <2>4, <2>5, <2>6 DEF DataSteps, DataOf
<1>10. ASSUME NEW kinds, "reasoning" \notin kinds
       PROVE  Joined(c, kinds) = Joined(b, kinds)
  <2>1. Same(b, c, k - 1, kinds)
    BY <1>1, <1>7, <1>8 DEF Same
  <2>2. \A n \in 0 .. k - 1 : JoinedUpTo(b, kinds)[n] = JoinedUpTo(c, kinds)[n]
    BY <2>1, JoinedAgrees
  <2>3. JoinedUpTo(b, kinds)[Len(b)] = JoinedUpTo(b, kinds)[k - 1]
    BY <1>2, <1>4, <1>10, JoinedSkips
  <2>4. JoinedUpTo(c, kinds)[Len(c)] = JoinedUpTo(c, kinds)[k]
    BY <1>1, <1>2, <1>5, <1>10, JoinedSkips
  <2>5. JoinedSteps(JoinedUpTo(c, kinds), c, kinds)
    BY JoinedComputed
  <2>6. k - 1 \in 0 .. k - 1 /\ c[k].kind = kind /\ c[k].data = <<>>
    BY <1>8 DEF Fills
  <2> DEFINE x == JoinedUpTo(c, kinds)[k - 1]
  <2>7. x \in Seq(Nat)
    BY <1>1, <1>2, JoinedTyped
  <2>8. JoinedUpTo(c, kinds)[k] = IF kind \in kinds THEN x \o <<>> ELSE x
    BY <1>1, <2>5, <2>6 DEF JoinedSteps
  <2>9. JoinedUpTo(b, kinds)[k - 1] = x
    BY <2>2, <2>6
  <2> HIDE DEF x
  <2>10. x \o <<>> = x
    BY <2>7, NothingSaid
  <2> QED
    BY <2>3, <2>4, <2>8, <2>9, <2>10 DEF Joined
<1>11. Text(c) = Text(b)
  BY <1>10 DEF Text
<1>12. ToolCalls(c) = IF kind = "tool" THEN Append(ToolCalls(b), <<>>) ELSE ToolCalls(b)
  BY <1>9 DEF ToolCalls
<1>13. ASSUME NEW n \in 1 .. Len(b), n < k
       PROVE  RankOf(c, n) = RankOf(b, n)
  <2>1. n \in 0 .. k - 1
    BY <1>1, <1>13
  <2> QED
    BY <1>9, <2>1 DEF RankOf, Place
<1>14. ASSUME kind = "tool"
       PROVE  RankOf(c, k) = Len(ToolCalls(b)) + 1
  <2>1. RankOf(c, k) = Len(ToolCalls(c))
    BY <1>9 DEF RankOf, Place, ToolCalls
  <2>2. ToolCalls(b) \in Seq(Seq(Nat)) /\ <<>> \in Seq(Nat)
    BY AnswerTypes
  <2>3. Len(Append(ToolCalls(b), <<>>)) = Len(ToolCalls(b)) + 1
    BY <2>2, AppendProperties
  <2> QED
    BY <1>12, <1>14, <2>1, <2>3
<1> QED
  BY <1>11, <1>12, <1>13, <1>14

-----------------------------------------------------------------------------

(* Another account of the same blocks.                                     *)
LEMMA KeepsSame ==
  ASSUME NEW turn, NEW s \in Spots, Keeps(turn, s), NEW next, NEW u,
         next.texts = turn.texts, next.tools = turn.tools, next.text = turn.text,
         next.arguments = turn.arguments, next.initial = turn.initial,
         next.nonportable = turn.nonportable,
         SameAnswer(s, u), u.open \subseteq s.open, next.stopReason = u.reason
  PROVE  Keeps(next, u)
<1>1. StoredBlocks(next) = StoredBlocks(turn)
  BY DEF StoredBlocks, StoredBlock
<1>2. \A i \in u.open : u.kind[i] # "reasoning" => Stands(StoredBlocks(turn), i + 1, u, i)
  BY StandsSame DEF Keeps, SameAnswer
<1> QED
  BY <1>1, <1>2 DEF Keeps, Notes, SameAnswer

(* Reasoning starts, or goes on: only that is noted.                       *)
LEMMA KeepsReasoning ==
  ASSUME NEW turn \in Accumulator, NEW s \in Spots, Keeps(turn, s), NEW u \in Spots,
         NEW i \in Indexes, u.kind[i] = "reasoning", s.kind[i] \in {"none", "reasoning"},
         s.kind[i] = "none" => Fresh(s, i),
         \A j \in Indexes : j # i => u.kind[j] = s.kind[j] /\ u.call[j] = s.call[j],
         u.text = s.text, u.calls = s.calls, u.reason = s.reason, u.open \subseteq s.open \cup {i}
  PROVE  Keeps([turn EXCEPT !.nonportable = TRUE], u)
<1> DEFINE next == [turn EXCEPT !.nonportable = TRUE]
<1>1. /\ next.texts = turn.texts /\ next.tools = turn.tools /\ next.text = turn.text
      /\ next.arguments = turn.arguments /\ next.initial = turn.initial
      /\ next.nonportable = TRUE /\ next.stopReason = turn.stopReason
  BY DEF Accumulator
<1> HIDE DEF next
<1>2. StoredBlocks(next) = StoredBlocks(turn)
  BY <1>1 DEF StoredBlocks, StoredBlock
<1>3. Notes(next, u)
  <2>1. \A j \in Indexes : /\ u.kind[j] = "text" <=> s.kind[j] = "text"
                           /\ u.kind[j] = "tool" <=> s.kind[j] = "tool"
    OBVIOUS
  <2> QED
    BY <1>1, <2>1 DEF Keeps, Notes
<1>4. ASSUME NEW j \in u.open, u.kind[j] # "reasoning"
      PROVE  Stands(StoredBlocks(turn), j + 1, u, j)
  <2>1. j \in s.open /\ j # i /\ j \in Indexes
    BY <1>4, SpotParts
  <2>2. u.kind[j] = s.kind[j] /\ u.call[j] = s.call[j]
    BY <2>1
  <2>3. Stands(StoredBlocks(turn), j + 1, s, j)
    BY <1>4, <2>1, <2>2 DEF Keeps
  <2>4. s.kind[i] # s.kind[j]
    <3>1. s.kind[j] # "none"
      BY <2>1, SpotParts
    <3> QED
      BY <1>4, <2>2, <3>1
  <2>5. Newest(u, j) => Newest(s, j)
    BY <2>1, <2>2, <2>4 DEF Newest
  <2> QED
    BY <2>2, <2>3, <2>5 DEF Stands
<1>5. Keeps(next, u)
  BY <1>1, <1>2, <1>3, <1>4 DEF Keeps
<1> QED
  BY <1>5 DEF next

(* A text or a tool call starts.                                           *)
LEMMA KeepsStart ==
  ASSUME NEW turn \in Accumulator, NEW next \in Accumulator, NEW s \in Spots, Keeps(turn, s),
         NEW i \in Indexes, NEW kind \in {"text", "tool"}, Fresh(s, i),
         next.texts = IF kind = "text" THEN turn.texts \cup {i} ELSE turn.texts,
         next.tools = IF kind = "tool" THEN turn.tools \cup {i} ELSE turn.tools,
         \A j \in Indexes : j # i => /\ next.text[j] = turn.text[j]
                                     /\ next.arguments[j] = turn.arguments[j],
         kind = "text" => next.text[i] = <<>>,
         kind = "tool" => next.arguments[i] = <<>>,
         \A j \in Indexes : next.initial[j] = <<>>,
         next.nonportable = turn.nonportable, next.stopReason = turn.stopReason
  PROVE  Keeps(next, Starting(s, i, kind))
<1> DEFINE u == Starting(s, i, kind)
           b == StoredBlocks(turn)
           c == StoredBlocks(next)
<1>1. kind \in Kinds /\ kind # "reasoning" /\ kind # "none"
  BY DEF Kinds
<1>2. /\ u \in Spots /\ u.reason = s.reason /\ u.open = s.open \cup {i} /\ u.text = s.text
      /\ u.calls = IF kind = "tool" THEN Append(s.calls, <<>>) ELSE s.calls
      /\ kind = "tool" => u.call[i] = Len(s.calls) + 1
      /\ u.kind[i] = kind
      /\ \A j \in Indexes : j # i => u.kind[j] = s.kind[j] /\ u.call[j] = s.call[j]
  BY <1>1, StartingSpot
<1> HIDE DEF u
<1>3. s.kind[i] = "none" /\ \A j \in Indexes : j > i => s.kind[j] = "none"
  BY StreamBounds DEF Fresh, Indexes
<1>4. Notes(turn, s)
  BY DEF Keeps
<1>5. Notes(next, u)
  BY <1>1, <1>2, <1>3, <1>4 DEF Notes
<1>6. /\ b \in Seq(Block) /\ c \in Seq(Block) /\ Len(b) = MaxBlocks /\ Len(c) = MaxBlocks
      /\ DOMAIN b = 1 .. MaxBlocks /\ DOMAIN c = 1 .. MaxBlocks /\ MaxBlocks \in Nat
      /\ \A j \in Indexes : j + 1 \in 1 .. MaxBlocks /\ j \in Nat
      /\ \A k \in 1 .. MaxBlocks : k - 1 \in Indexes /\ (k - 1) + 1 = k
  BY StoredTyped
<1>7. ASSUME NEW j \in Indexes
      PROVE  /\ b[j + 1].kind = IF s.kind[j] \in {"text", "tool"} THEN s.kind[j] ELSE "reasoning"
             /\ b[j + 1].data = CASE s.kind[j] = "text" -> turn.text[j]
                                  [] s.kind[j] = "tool" -> turn.arguments[j]
                                  [] OTHER -> <<>>
  BY <1>4, NotedBlocks
<1>8. ASSUME NEW j \in Indexes
      PROVE  /\ c[j + 1].kind = IF u.kind[j] \in {"text", "tool"} THEN u.kind[j] ELSE "reasoning"
             /\ c[j + 1].data = CASE u.kind[j] = "text" -> next.text[j]
                                  [] u.kind[j] = "tool" -> next.arguments[j]
                                  [] OTHER -> <<>>
  BY <1>2, <1>5, NotedBlocks
<1> HIDE DEF b, c
<1>9. Fills(b, c, i + 1, kind)
  <2>1. c[i + 1].kind = kind /\ c[i + 1].data = <<>>
    BY <1>1, <1>2, <1>8
  <2>2. ASSUME NEW n \in 1 .. MaxBlocks, n >= i + 1
        PROVE  b[n].kind = "reasoning"
    <3> DEFINE j == n - 1
    <3>1. j \in Indexes /\ j + 1 = n /\ j >= i
      BY <1>6, <2>2
    <3> HIDE DEF j
    <3>2. s.kind[j] = "none"
      BY <3>1 DEF Fresh
    <3> QED
      BY <1>7, <3>1, <3>2
  <2>3. ASSUME NEW n \in 1 .. MaxBlocks, n # i + 1
        PROVE  c[n].kind = b[n].kind /\ c[n].data = b[n].data
    <3> DEFINE j == n - 1
    <3>1. j \in Indexes /\ j + 1 = n /\ j # i
      BY <1>6, <2>3
    <3> HIDE DEF j
    <3>2. u.kind[j] = s.kind[j] /\ next.text[j] = turn.text[j] /\ next.arguments[j] = turn.arguments[j]
      BY <1>2, <3>1
    <3> QED
      BY <1>7, <1>8, <3>1, <3>2
  <2> QED
    BY <1>6, <2>1, <2>2, <2>3 DEF Fills
<1>10. /\ Text(c) = Text(b)
       /\ ToolCalls(c) = IF kind = "tool" THEN Append(ToolCalls(b), <<>>) ELSE ToolCalls(b)
       /\ \A n \in 1 .. Len(b) : n < i + 1 => RankOf(c, n) = RankOf(b, n)
       /\ kind = "tool" => RankOf(c, i + 1) = Len(ToolCalls(b)) + 1
  BY <1>6, <1>9, FillsAnswers
<1>11. Text(b) = s.text /\ ToolCalls(b) = s.calls
  BY DEF Keeps, b
<1>12. ASSUME NEW j \in u.open, u.kind[j] # "reasoning"
       PROVE  Stands(c, j + 1, u, j)
  <2>1. CASE j = i
    <3>1. \A n \in DOMAIN c : n > i + 1 => c[n].kind = "reasoning"
      BY <1>6, <1>9 DEF Fills
    <3>2. "reasoning" \notin Alike(kind) /\ kind \in Alike(kind)
      BY <1>1 DEF Alike
    <3>3. c[i + 1].kind = kind /\ i + 1 \in DOMAIN c
      BY <1>6, <1>9 DEF Fills
    <3> QED
      BY <1>1, <1>2, <1>10, <1>11, <2>1, <3>1, <3>2, <3>3 DEF Stands
  <2>2. CASE j # i
    <3>1. j \in s.open /\ j \in Indexes
      BY <1>2, <2>2, SpotParts
    <3>2. u.kind[j] = s.kind[j] /\ u.call[j] = s.call[j] /\ s.kind[j] # "none"
      BY <1>2, <2>2, <3>1, SpotParts
    <3>3. Stands(b, j + 1, s, j)
      BY <1>12, <3>1, <3>2 DEF Keeps, b
    <3>4. j < i
      <4>1. i \in Nat /\ j \in Nat
        BY <1>6, <3>1
      <4> QED
        BY <1>3, <2>2, <3>1, <3>2, <4>1
    <3>5. j + 1 < i + 1 /\ j + 1 \in 1 .. Len(b) /\ j + 1 # i + 1
      BY <1>6, <3>1, <3>4
    <3>6. RankOf(c, j + 1) = RankOf(b, j + 1) /\ c[j + 1].kind = b[j + 1].kind
      BY <1>9, <1>10, <3>5 DEF Fills
    <3>7. ASSUME Newest(u, j), NEW n \in DOMAIN c, n > j + 1
          PROVE  c[n].kind \notin Alike(s.kind[j])
      <4>1. kind # s.kind[j]
        BY <1>2, <3>2, <3>4, <3>7 DEF Newest
      <4>2. Newest(s, j)
        BY <1>2, <1>3, <3>2, <3>7 DEF Newest
      <4>3. CASE n = i + 1
        <5>1. c[n].kind = kind
          BY <1>9, <4>3 DEF Fills
        <5> QED
          BY <4>1, <5>1 DEF Alike
      <4>4. CASE n # i + 1
        <5>1. c[n].kind = b[n].kind /\ n \in DOMAIN b
          BY <1>6, <1>9, <4>4 DEF Fills
        <5> QED
          BY <3>3, <3>7, <4>2, <5>1 DEF Stands
      <4> QED
        BY <4>3, <4>4
    <3> QED
      BY <1>6, <3>2, <3>3, <3>5, <3>6, <3>7 DEF Stands
  <2> QED
    BY <2>1, <2>2
<1>13. (\E j \in Indexes : u.kind[j] = "reasoning") <=> (\E j \in Indexes : s.kind[j] = "reasoning")
  BY <1>1, <1>2, <1>3
<1>14. Keeps(next, u)
  BY <1>2, <1>5, <1>10, <1>11, <1>12, <1>13 DEF Keeps, c
<1> QED
  BY <1>14 DEF u

(* A text or a tool call goes on.                                          *)
LEMMA KeepsMore ==
  ASSUME NEW turn \in Accumulator, NEW next \in Accumulator, NEW s \in Spots, Keeps(turn, s),
         NEW i \in s.open, s.kind[i] \in {"text", "tool"}, Newest(s, i) \/ s.kind[i] = "tool",
         NEW p \in Nat,
         next.texts = turn.texts, next.tools = turn.tools, next.initial = turn.initial,
         \A j \in Indexes : next.text[j] =
           IF j = i /\ s.kind[i] = "text" THEN turn.text[j] \o Pieces(p) ELSE turn.text[j],
         \A j \in Indexes : next.arguments[j] =
           IF j = i /\ s.kind[i] = "tool" THEN turn.arguments[j] \o Pieces(p) ELSE turn.arguments[j],
         next.nonportable = turn.nonportable, next.stopReason = turn.stopReason
  PROVE  Keeps(next, Saying(s, i, p))
<1> DEFINE u == Saying(s, i, p)
           b == StoredBlocks(turn)
           c == StoredBlocks(next)
           more == Pieces(p)
<1>1. i \in Indexes /\ s.kind[i] # "none" /\ s.kind[i] # "reasoning" /\ s.open \subseteq Indexes
  BY SpotParts
<1>2. /\ u \in Spots /\ u.reason = s.reason /\ u.kind = s.kind
      /\ u.open = s.open /\ u.call = s.call /\ SaidMore(s, u, i, p)
  BY <1>1, SayingSpot
<1> HIDE DEF u
<1>3. Notes(turn, s) /\ Notes(next, s)
  BY DEF Keeps, Notes
<1>4. /\ b \in Seq(Block) /\ c \in Seq(Block) /\ Len(b) = MaxBlocks /\ Len(c) = MaxBlocks
      /\ \A j \in Indexes : j + 1 \in 1 .. MaxBlocks /\ j \in Nat
      /\ \A k \in 1 .. MaxBlocks : k - 1 \in Indexes /\ (k - 1) + 1 = k
  BY StoredTyped
<1>5. ASSUME NEW j \in Indexes
      PROVE  /\ b[j + 1].kind = IF s.kind[j] \in {"text", "tool"} THEN s.kind[j] ELSE "reasoning"
             /\ b[j + 1].data = CASE s.kind[j] = "text" -> turn.text[j]
                                  [] s.kind[j] = "tool" -> turn.arguments[j]
                                  [] OTHER -> <<>>
  BY <1>3, NotedBlocks
<1>6. ASSUME NEW j \in Indexes
      PROVE  /\ c[j + 1].kind = IF s.kind[j] \in {"text", "tool"} THEN s.kind[j] ELSE "reasoning"
             /\ c[j + 1].data = CASE s.kind[j] = "text" -> next.text[j]
                                  [] s.kind[j] = "tool" -> next.arguments[j]
                                  [] OTHER -> <<>>
  BY <1>3, NotedBlocks
<1> HIDE DEF b, c, more
<1>7. ASSUME NEW j \in Indexes
      PROVE  /\ c[j + 1].kind = b[j + 1].kind
             /\ c[j + 1].data = IF j = i THEN b[j + 1].data \o more ELSE b[j + 1].data
  <2>1. CASE j = i
    <3>1. CASE s.kind[i] = "text"
      <4>1. b[j + 1].data = turn.text[j] /\ c[j + 1].data = next.text[j]
        BY <1>5, <1>6, <2>1, <3>1
      <4> QED
        BY <1>5, <1>6, <2>1, <3>1, <4>1 DEF more
    <3>2. CASE s.kind[i] = "tool"
      <4>1. b[j + 1].data = turn.arguments[j] /\ c[j + 1].data = next.arguments[j]
        BY <1>5, <1>6, <2>1, <3>2
      <4> QED
        BY <1>5, <1>6, <2>1, <3>2, <4>1 DEF more
    <3> QED
      BY <3>1, <3>2
  <2>2. CASE j # i
    <3>1. next.text[j] = turn.text[j] /\ next.arguments[j] = turn.arguments[j]
      BY <2>2
    <3> QED
      BY <1>5, <1>6, <2>2, <3>1
  <2> QED
    BY <2>1, <2>2
<1>8. Grows(b, c, i + 1, more)
  <2>1. ASSUME NEW n \in 1 .. MaxBlocks
        PROVE  c[n].kind = b[n].kind
               /\ c[n].data = IF n = i + 1 THEN b[n].data \o more ELSE b[n].data
    <3> DEFINE j == n - 1
    <3>1. j \in Indexes /\ j + 1 = n /\ (j = i <=> n = i + 1)
      BY <1>1, <1>4
    <3> HIDE DEF j
    <3> QED
      BY <1>7, <3>1
  <2> QED
    BY <1>1, <1>4, <2>1 DEF Grows
<1>9. Stands(b, i + 1, s, i)
  BY <1>1 DEF Keeps, b
<1>10. Takes(b, i + 1, s, i)
  BY <1>9, StandsTakes
<1>11. Text(b) = s.text /\ ToolCalls(b) = s.calls
  BY DEF Keeps, b
<1>12. Text(c) = u.text /\ ToolCalls(c) = u.calls
  BY <1>1, <1>2, <1>4, <1>8, <1>10, <1>11, TakesGrows DEF more
<1>13. Aligned(b, c)
  BY <1>8, GrowsAligned
<1>14. ASSUME NEW j \in u.open, u.kind[j] # "reasoning"
       PROVE  Stands(c, j + 1, u, j)
  <2>1. Stands(b, j + 1, s, j)
    BY <1>2, <1>14 DEF Keeps, b
  <2> QED
    BY <1>2, <1>4, <1>13, <2>1, StandsAligned
<1>15. Notes(next, u) /\ next.stopReason = u.reason
       /\ (next.nonportable <=> \E j \in Indexes : u.kind[j] = "reasoning")
  BY <1>2, <1>3 DEF Keeps, Notes
<1>16. Keeps(next, u)
  BY <1>12, <1>14, <1>15 DEF Keeps, c
<1> QED
  BY <1>16 DEF u

-----------------------------------------------------------------------------

LEMMA ObservedKeeps ==
  ASSUME kept \in Accumulator, NEW s \in Spots, NEW e \in Event, NEW u \in Spots,
         Step(s, e, u), Keeps(kept, s), Observed(e) \in Accumulator
  PROVE  Keeps(Observed(e), u)
<1> DEFINE next == Observed(e)
<1>1. e.index \in Indexes /\ e.piece \in Nat
  BY DEF Event
<1>2. CASE e.type = "usage"
  <2>1. u = s /\ next = kept
    BY <1>2 DEF Step, Begins, Opens, Speaks, Closes, Stops, Breaks, Starts, Deltas, Observed
  <2> QED
    BY <2>1
<1>3. CASE Begins(s, e, u)
  <2>1. u = Begun(s) /\ next = [kept EXCEPT !.named = pipe.named]
    BY <1>3 DEF Begins, Observed
  <2>2. SameAnswer(s, u) /\ u.open = s.open /\ u.reason = s.reason
    BY <2>1, BegunSpot DEF SameAnswer
  <2>3. /\ next.texts = kept.texts /\ next.tools = kept.tools /\ next.text = kept.text
        /\ next.arguments = kept.arguments /\ next.initial = kept.initial
        /\ next.nonportable = kept.nonportable /\ next.stopReason = kept.stopReason
    BY <2>1 DEF Accumulator
  <2>4. next.stopReason = u.reason
    BY <2>2, <2>3 DEF Keeps
  <2> HIDE DEF next
  <2>5. Keeps(next, u)
    BY <2>2, <2>3, <2>4, KeepsSame
  <2> QED
    BY <2>5 DEF next
<1>4. CASE Opens(s, e, u)
  <2> DEFINE i == e.index
             kind == e.kind
  <2>1. /\ Starts(e) /\ e.piece = Empty /\ Fresh(s, i) /\ u = Starting(s, i, kind)
        /\ e.type = "tool_call_start" <=> kind = "tool"
    BY <1>4 DEF Opens
  <2>2. kind \in Kinds
    BY <2>1 DEF Event, Starts
  <2>3. CASE kind = "reasoning"
    <3>1. next = [kept EXCEPT !.nonportable = TRUE]
      BY <2>1, <2>3 DEF Observed, Starts
    <3>2. s.kind[i] = "none"
      BY <1>1, <2>1, StreamBounds DEF Fresh, Indexes
    <3>3. /\ u.reason = s.reason /\ u.open = s.open \cup {i} /\ u.text = s.text
          /\ u.kind[i] = "reasoning"
          /\ \A j \in Indexes : j # i => u.kind[j] = s.kind[j] /\ u.call[j] = s.call[j]
      BY <1>1, <2>1, <2>2, <2>3, StartingSpot
    <3>4. u.calls = s.calls
      BY <1>1, <2>1, <2>2, <2>3, StartingSpot
    <3> HIDE DEF i, kind
    <3>5. Keeps([kept EXCEPT !.nonportable = TRUE], u)
      <4>1. i \in Indexes /\ Fresh(s, i) /\ u.open \subseteq s.open \cup {i}
        BY <1>1, <2>1, <3>3 DEF i
      <4> QED
        BY <3>2, <3>3, <3>4, <4>1, KeepsReasoning
    <3> QED
      BY <3>1, <3>5
  <2>4. CASE kind = "text"
    <3>1. next = [kept EXCEPT !.texts = @ \cup {i}, !.text[i] = <<>>]
      BY <2>1, <2>4 DEF Observed, Starts, Pieces
    <3>2. /\ next.texts = kept.texts \cup {i} /\ next.tools = kept.tools
          /\ next.text = [kept.text EXCEPT ![i] = <<>>]
          /\ next.arguments = kept.arguments /\ next.initial = kept.initial
          /\ next.nonportable = kept.nonportable /\ next.stopReason = kept.stopReason
      BY <3>1 DEF Accumulator
    <3>3. kept.text \in [Indexes -> Seq(Nat)] /\ \A j \in Indexes : kept.initial[j] = <<>>
      BY DEF Accumulator, Keeps, Notes
    <3>4. /\ kind \in {"text", "tool"} /\ i \in Indexes /\ Fresh(s, i) /\ next \in Accumulator
          /\ kind # "tool"
      BY <1>1, <2>1, <2>4
    <3>5. next.text[i] = <<>> /\ \A j \in Indexes : j # i => next.text[j] = kept.text[j]
      BY <1>1, <3>2, <3>3
    <3> HIDE DEF next, i, kind
    <3>6. Keeps(next, Starting(s, i, kind))
      BY <2>4, <3>2, <3>3, <3>4, <3>5, KeepsStart
    <3> QED
      BY <2>1, <3>6 DEF next
  <2>5. CASE kind = "tool"
    <3>1. next = [kept EXCEPT !.tools = @ \cup {i}, !.arguments[i] = <<>>, !.initial[i] = <<>>]
      BY <2>1, <2>5 DEF Observed, Starts, Pieces
    <3>2. /\ next.texts = kept.texts /\ next.tools = kept.tools \cup {i}
          /\ next.text = kept.text
          /\ next.arguments = [kept.arguments EXCEPT ![i] = <<>>]
          /\ next.initial = [kept.initial EXCEPT ![i] = <<>>]
          /\ next.nonportable = kept.nonportable /\ next.stopReason = kept.stopReason
      BY <3>1 DEF Accumulator
    <3>3. /\ kept.arguments \in [Indexes -> Seq(Nat)] /\ kept.initial \in [Indexes -> Seq(Nat)]
          /\ \A j \in Indexes : kept.initial[j] = <<>>
      BY DEF Accumulator, Keeps, Notes
    <3>4. /\ kind \in {"text", "tool"} /\ i \in Indexes /\ Fresh(s, i) /\ next \in Accumulator
          /\ kind # "text"
      BY <1>1, <2>1, <2>5
    <3>5. /\ next.arguments[i] = <<>>
          /\ \A j \in Indexes : j # i => next.arguments[j] = kept.arguments[j]
          /\ \A j \in Indexes : next.initial[j] = <<>>
      BY <1>1, <3>2, <3>3
    <3> HIDE DEF next, i, kind
    <3>6. Keeps(next, Starting(s, i, kind))
      BY <2>5, <3>2, <3>3, <3>4, <3>5, KeepsStart
    <3> QED
      BY <2>1, <3>6 DEF next
  <2> QED
    BY <2>2, <2>3, <2>4, <2>5 DEF Kinds
<1>5. CASE Speaks(s, e, u)
  <2> DEFINE i == e.index
             p == e.piece
  <2>1. /\ Deltas(e) /\ i \in s.open /\ s.kind[i] = DeltaKind(e)
        /\ Newest(s, i) \/ s.kind[i] = "tool"
        /\ u = Saying(s, i, p)
    BY <1>5 DEF Speaks
  <2>2. CASE DeltaKind(e) = "reasoning"
    <3>1. next = [kept EXCEPT !.nonportable = TRUE]
      BY <2>1, <2>2 DEF Observed, Deltas, DeltaKind
    <3>2. s.kind[i] = "reasoning" /\ s.kind[i] # "none" /\ s.kind[i] # "text" /\ s.kind[i] # "tool"
      BY <2>1, <2>2
    <3>3. /\ u.kind = s.kind /\ u.open = s.open /\ u.call = s.call /\ u.reason = s.reason
          /\ SaidMore(s, u, i, p)
      BY <1>1, <2>1, <3>2, SayingSpot
    <3>4. u.text = s.text /\ u.calls = s.calls
      BY <3>2, <3>3 DEF SaidMore
    <3> HIDE DEF i, p
    <3>5. Keeps([kept EXCEPT !.nonportable = TRUE], u)
      <4>1. i \in Indexes /\ u.open \subseteq s.open \cup {i} /\ u.kind[i] = "reasoning"
            /\ \A j \in Indexes : j # i => u.kind[j] = s.kind[j] /\ u.call[j] = s.call[j]
        BY <1>1, <3>2, <3>3 DEF i
      <4> QED
        BY <3>2, <3>3, <3>4, <4>1, KeepsReasoning
    <3> QED
      BY <3>1, <3>5
  <2>3. CASE DeltaKind(e) = "text"
    <3>1. next = [kept EXCEPT !.text[i] = @ \o Pieces(p)]
      BY <2>1, <2>3 DEF Observed, Deltas, DeltaKind
    <3>2. /\ next.texts = kept.texts /\ next.tools = kept.tools
          /\ next.text = [kept.text EXCEPT ![i] = @ \o Pieces(p)]
          /\ next.arguments = kept.arguments /\ next.initial = kept.initial
          /\ next.nonportable = kept.nonportable /\ next.stopReason = kept.stopReason
      BY <3>1 DEF Accumulator
    <3>3. kept.text \in [Indexes -> Seq(Nat)]
      BY DEF Accumulator
    <3>4. /\ s.kind[i] = "text" /\ s.kind[i] # "tool" /\ s.kind[i] \in {"text", "tool"}
          /\ next \in Accumulator
          /\ i \in s.open /\ i \in Indexes /\ p \in Nat /\ (Newest(s, i) \/ s.kind[i] = "tool")
      BY <1>1, <2>1, <2>3
    <3> HIDE DEF next, i, p
    <3>5. \A j \in Indexes : next.text[j] =
            IF j = i /\ s.kind[i] = "text" THEN kept.text[j] \o Pieces(p) ELSE kept.text[j]
      BY <3>2, <3>3, <3>4
    <3>6. \A j \in Indexes : next.arguments[j] =
            IF j = i /\ s.kind[i] = "tool" THEN kept.arguments[j] \o Pieces(p) ELSE kept.arguments[j]
      BY <3>2, <3>4
    <3>7. Keeps(next, Saying(s, i, p))
      BY <3>2, <3>4, <3>5, <3>6, KeepsMore
    <3> QED
      BY <2>1, <3>7 DEF next, i, p
  <2>4. CASE DeltaKind(e) = "tool"
    <3>1. next = [kept EXCEPT !.arguments[i] = @ \o Pieces(p)]
      BY <2>1, <2>4 DEF Observed, Deltas, DeltaKind
    <3>2. /\ next.texts = kept.texts /\ next.tools = kept.tools
          /\ next.text = kept.text
          /\ next.arguments = [kept.arguments EXCEPT ![i] = @ \o Pieces(p)]
          /\ next.initial = kept.initial
          /\ next.nonportable = kept.nonportable /\ next.stopReason = kept.stopReason
      BY <3>1 DEF Accumulator
    <3>3. kept.arguments \in [Indexes -> Seq(Nat)]
      BY DEF Accumulator
    <3>4. /\ s.kind[i] = "tool" /\ s.kind[i] # "text" /\ s.kind[i] \in {"text", "tool"}
          /\ next \in Accumulator
          /\ i \in s.open /\ i \in Indexes /\ p \in Nat /\ (Newest(s, i) \/ s.kind[i] = "tool")
      BY <1>1, <2>1, <2>4
    <3> HIDE DEF next, i, p
    <3>5. \A j \in Indexes : next.arguments[j] =
            IF j = i /\ s.kind[i] = "tool" THEN kept.arguments[j] \o Pieces(p) ELSE kept.arguments[j]
      BY <3>2, <3>3, <3>4
    <3>6. \A j \in Indexes : next.text[j] =
            IF j = i /\ s.kind[i] = "text" THEN kept.text[j] \o Pieces(p) ELSE kept.text[j]
      BY <3>2, <3>4
    <3>7. Keeps(next, Saying(s, i, p))
      BY <3>2, <3>4, <3>5, <3>6, KeepsMore
    <3> QED
      BY <2>1, <3>7 DEF next, i, p
  <2>5. DeltaKind(e) \in Kinds
    BY DEF DeltaKind, Kinds
  <2> QED
    BY <2>2, <2>3, <2>4, <2>5 DEF Kinds
<1>6. CASE Closes(s, e, u)
  <2>1. u = Closing(s, e.index) /\ next = kept
    BY <1>6 DEF Closes, Observed
  <2>2. SameAnswer(s, u) /\ u.open \subseteq s.open /\ u.reason = s.reason
    BY <2>1, ClosingSpot DEF SameAnswer
  <2>3. kept.stopReason = u.reason
    BY <2>2 DEF Keeps
  <2> QED
    BY <2>1, <2>2, <2>3, KeepsSame
<1>7. CASE Stops(s, e, u)
  <2>1. u = Stopping(s, e.reason) /\ next = [kept EXCEPT !.stopReason = e.reason]
        /\ e.reason \in Reasons
    BY <1>7 DEF Stops, Observed, Event
  <2>2. SameAnswer(s, u) /\ u.open = s.open /\ u.reason = e.reason
    BY <2>1, StoppingSpot DEF SameAnswer
  <2>3. /\ next.texts = kept.texts /\ next.tools = kept.tools /\ next.text = kept.text
        /\ next.arguments = kept.arguments /\ next.initial = kept.initial
        /\ next.nonportable = kept.nonportable /\ next.stopReason = e.reason
    BY <2>1 DEF Accumulator
  <2> HIDE DEF next
  <2>4. Keeps(next, u)
    BY <2>2, <2>3, KeepsSame
  <2> QED
    BY <2>4 DEF next
<1>8. CASE Breaks(s, e, u) /\ s.ended = "no"
  <2>1. u = Broken(s) /\ next = kept
    BY <1>8 DEF Breaks, Observed
  <2>2. SameAnswer(s, u) /\ u.open = s.open /\ u.reason = s.reason
    BY <1>8, <2>1, BrokenSpot, SpotParts DEF SameAnswer
  <2>3. kept.stopReason = u.reason
    BY <2>2 DEF Keeps
  <2> QED
    BY <2>1, <2>2, <2>3, KeepsSame
<1> QED
  BY <1>2, <1>3, <1>4, <1>5, <1>6, <1>7, <1>8 DEF Step

-----------------------------------------------------------------------------

(***************************************************************************)
(* The whole stream.                                                       *)
(***************************************************************************)

(* What the turn and the buffer have taken note of and the client has not  *)
(* read, and what neither has.                                             *)
Unread ==
  IF pipe.held THEN IF buffer.released THEN queue ELSE buffer.events
  ELSE IF stage \in {"persist", "encode"} THEN <<Head(queue)>> ELSE <<>>

Unseen ==
  IF pipe.held THEN IF buffer.released THEN <<>> ELSE queue
  ELSE IF stage \in {"persist", "encode"} THEN Tail(queue) ELSE queue

(* With a turn to keep, the client at s reads no stop before the turn is   *)
(* stored, and what is stored is the whole answer, which ends at t.        *)
StoredWhole(t) ==
  stored # Nothing =>
    /\ t.ended = "stop" /\ Keeps(stored.content, t)
    /\ stored.status = IF t.reason = "max_tokens" THEN "incomplete" ELSE "completed"

StoredFirst(s) ==
  pipe.stores =>
    /\ s.ended = "stop" => stored # Nothing
    /\ ~pipe.held /\ stage = "encode" /\ Head(queue).type = "response_stop" => stored # Nothing
    /\ pipe.held /\ (stage = "release" \/ buffer.released) => stored # Nothing

(* Only a refusal is written as one.                                       *)
Refused(t) == toResponses.refusalMode => t.ended = "stop" /\ t.reason = "content_block"

(* The client stands at s, the kept turn at m and the decoder at t, and    *)
(* what is on its way leads from one to the next.                          *)
Answered(s, t) ==
  /\ Shows(s) /\ Said(t) /\ Below(s, t)
  /\ StoredWhole(t) /\ StoredFirst(s) /\ Refused(t)

OnTheWay(s, m, t) ==
  stage # "failed" => Leads(Unread, s, m) /\ Leads(Unseen, m, t)

InTurn(m) == stage # "failed" /\ pipe.to = "responses" => Keeps(kept, m)

Fits(s, m, t) == Answered(s, t) /\ OnTheWay(s, m, t) /\ InTurn(m)

Fitting == pipe.lawful => \E s, m, t \in Spots : Fits(s, m, t)

Storing == stage = "persist" => pipe.stores

StreamInv == Typed /\ EndInv /\ Holding /\ Framed /\ Storing /\ Fitting

-----------------------------------------------------------------------------

LEMMA ShowsSame ==
  ASSUME NEW s, Shows(s), pipe' = pipe, view' = view, encoders' = encoders
  PROVE  Shows(s)'
<1>1. UNCHANGED <<pipe, view, toResponses, toChat, toGemini>>
  BY DEF encoders
<1>2. Frame(s)'
  BY <1>1 DEF Shows, Frame, EndStatus
<1>3. pipe.to = "responses" => ShownByResponses(s)'
  BY <1>1 DEF Shows, ShownByResponses, BlockOf
<1>4. pipe.to = "messages" => ShownByMessages(s)'
  BY <1>1 DEF Shows, ShownByMessages, Named
<1>5. pipe.to = "chat" => ShownByChat(s)'
  BY <1>1 DEF Shows, ShownByChat, Listed
<1>6. pipe.to = "gemini" => ShownByGemini(s)'
  BY <1>1 DEF Shows, ShownByGemini, InPlace, Gathered, Called
<1> QED
  BY <1>1, <1>2, <1>3, <1>4, <1>5, <1>6 DEF Shows

LEMMA SaidSame ==
  ASSUME NEW t, Said(t), pipe' = pipe, up' = up, decoders' = decoders
  PROVE  Said(t)'
<1>1. UNCHANGED <<pipe, up, fromAnthropic, fromOpenAI, fromGemini>>
  BY DEF decoders
<1>2. pipe.from = "anthropic" => SaidByAnthropic(t)'
  BY <1>1 DEF Said, SaidByAnthropic
<1>3. pipe.from = "openai" => SaidByOpenAI(t)'
  BY <1>1 DEF Said, SaidByOpenAI, ChatPlaces, ChatBlock
<1>4. pipe.from = "gemini" => SaidByGemini(t)'
  BY <1>1 DEF Said, SaidByGemini
<1> QED
  BY <1>1, <1>2, <1>3, <1>4 DEF Said, Sent

(* The step leaves both ends of the stream alone.                          *)
LEMMA AnsweredSame ==
  ASSUME NEW s, NEW t, Answered(s, t),
         UNCHANGED <<pipe, up, view, decoders, encoders, stored>>, StoredFirst(s)'
  PROVE  Answered(s, t)'
<1>1. Shows(s)' /\ Said(t)'
  BY ShowsSame, SaidSame DEF Answered
<1>2. StoredWhole(t)' /\ Refused(t)'
  BY DEF Answered, StoredWhole, Refused, encoders
<1> QED
  BY <1>1, <1>2 DEF Answered

-----------------------------------------------------------------------------

LEMMA NoAnswer ==
  ASSUME NEW b \in Seq(Block), \A n \in 1 .. Len(b) : b[n].kind = "reasoning"
  PROVE  Text(b) = <<>> /\ ToolCalls(b) = <<>> /\ (b = <<>> => Reasoning(b) = <<>>)
<1>1. Len(b) \in Nat /\ 0 \in 0 .. Len(b) /\ 0 + 1 = 1
  BY LenProperties
<1>2. \A kinds : DataUpTo(b, kinds)[0] = <<>> /\ JoinedUpTo(b, kinds)[0] = <<>>
  BY DataComputed, JoinedComputed DEF DataSteps, JoinedSteps
<1>3. JoinedUpTo(b, {"text", "refusal"})[Len(b)] = JoinedUpTo(b, {"text", "refusal"})[0]
  <2>1. \A n \in 0 + 1 .. Len(b) : b[n].kind \notin {"text", "refusal"}
    BY <1>1
  <2> QED
    BY <1>1, <2>1, JoinedSkips
<1>4. DataUpTo(b, {"tool"})[Len(b)] = DataUpTo(b, {"tool"})[0]
  <2>1. \A n \in 0 + 1 .. Len(b) : b[n].kind \notin {"tool"}
    BY <1>1
  <2> QED
    BY <1>1, <2>1, DataSkips
<1>5. b = <<>> => Len(b) = 0
  OBVIOUS
<1> QED
  BY <1>2, <1>3, <1>4, <1>5 DEF Text, Reasoning, ToolCalls, Joined, DataOf

LEMMA InitFits ==
  ASSUME Init
  PROVE  Fitting
<1>1. Blank \in Spots /\ Typed
  BY BlankSpot, InitTyped
<1>2. /\ Text(<<>>) = <<>> /\ ToolCalls(<<>>) = <<>> /\ Reasoning(<<>>) = <<>>
  <2>1. <<>> \in Seq(Block) /\ \A n \in 1 .. Len(<<>>) : <<>>[n].kind = "reasoning"
    OBVIOUS
  <2> QED
    BY <2>1, NoAnswer
<1>3. Shows(Blank)
  <2>1. Tells(view.items, Blank) /\ Reads(view.items, Blank)
    BY <1>2 DEF Init, Tells, Reads, Blank
  <2>2. Frame(Blank)
    BY DEF Init, Frame, Blank
  <2>3. ShownByResponses(Blank)
    <3>1. (\A i \in Indexes : BlockOf(i) = 0) /\ ~toResponses.started /\ ~toResponses.stopped
      BY DEF Init, InitEncoders, BlockOf
    <3>2. view.items = <<>> /\ DOMAIN view.items = {}
      BY DEF Init
    <3>3. /\ Blank.begun = FALSE /\ Blank.ended = "no" /\ Blank.open = {} /\ Blank.reason = "none"
          /\ \A i \in Indexes : Blank.kind[i] = "none"
      BY DEF Blank
    <3>4. toResponses.started = FALSE /\ toResponses.stopped = FALSE
      BY DEF Init, InitEncoders
    <3> QED
      BY <2>1, <3>1, <3>2, <3>3, <3>4 DEF ShownByResponses
  <2>4. ShownByMessages(Blank)
    BY <2>1 DEF Init, ShownByMessages, Blank
  <2>5. ShownByChat(Blank)
    BY <2>1, StreamBounds DEF Init, InitEncoders, ShownByChat, Blank, NoBlock
  <2>6. ShownByGemini(Blank)
    BY <1>2, <2>1 DEF Init, InitEncoders, ShownByGemini, Gathered, Called, Blank
  <2> QED
    BY <2>2, <2>3, <2>4, <2>5, <2>6 DEF Shows
<1>4. Said(Blank)
  <2>1. Sent(up.sent, Blank)
    BY <1>2, StreamBounds DEF Init, Sent, Tells, Reads, Blank
  <2>2. SaidByAnthropic(Blank)
    BY DEF Init, InitDecoders, SaidByAnthropic, Blank
  <2>3. SaidByOpenAI(Blank)
    <3>1. \A at \in 0 .. MaxCalls : ChatBlock(at) = NoBlock
      <4>1. MaxCalls \in Nat /\ \A at \in 0 .. MaxCalls : at # ChatText => at \in Calls
        BY CallBound DEF Calls, ChatText
      <4> QED
        BY <4>1 DEF Init, InitDecoders, ChatBlock
    <3>2. DOMAIN up.sent = {} /\ Len(up.sent) = 0 /\ up.phase = "idle"
      BY DEF Init
    <3>3. ChatPlaces
      BY <3>1, <3>2 DEF ChatPlaces
    <3>4. {i \in Indexes : i < 0} = {}
      BY StreamBounds DEF Indexes
    <3> QED
      BY <3>2, <3>3, <3>4 DEF Init, InitDecoders, SaidByOpenAI, Blank
  <2>4. SaidByGemini(Blank)
    BY DEF Init, InitDecoders, SaidByGemini, Blank
  <2> QED
    BY <2>1, <2>2, <2>3, <2>4 DEF Init, Said, Blank
<1>5. Keeps(kept, Blank)
  <2>1. Notes(kept, Blank)
    BY DEF Init, Notes, Blank
  <2> DEFINE b == StoredBlocks(kept)
  <2>2. b \in Seq(Block) /\ \A n \in 1 .. Len(b) : b[n].kind = "reasoning"
    <3>1. b \in Seq(Block) /\ Len(b) = MaxBlocks /\ \A k \in 1 .. MaxBlocks : k - 1 \in Indexes /\ (k - 1) + 1 = k
      BY <1>1, StoredTyped DEF Typed
    <3>2. \A i \in Indexes : b[i + 1].kind = "reasoning"
      BY <1>1, <2>1, NotedBlocks DEF Typed, Blank
    <3> HIDE DEF b
    <3> QED
      BY <3>1, <3>2
  <2> HIDE DEF b
  <2>3. Text(b) = <<>> /\ ToolCalls(b) = <<>>
    BY <2>2, NoAnswer
  <2> QED
    BY <2>1, <2>3 DEF Init, Keeps, Blank, b
<1>6. Unread = <<>> /\ Unseen = <<>>
  BY DEF Init, Unread, Unseen
<1>7. Leads(<<>>, Blank, Blank) /\ Below(Blank, Blank)
  BY <1>1, LeadsNowhere, BelowSelf
<1>8. StoredWhole(Blank) /\ StoredFirst(Blank) /\ Refused(Blank)
  BY DEF Init, InitEncoders, StoredWhole, StoredFirst, Refused, Blank
<1>9. Fits(Blank, Blank, Blank)
  BY <1>3, <1>4, <1>5, <1>6, <1>7, <1>8 DEF Fits, Answered, OnTheWay, InTurn
<1> QED
  BY <1>1, <1>9 DEF Fitting

-----------------------------------------------------------------------------

LEMMA StepFails ==
  ASSUME Fitting, UNCHANGED <<pipe, up, view, decoders, encoders, stored, buffer>>, stage' = "failed"
  PROVE  Fitting'
<1> SUFFICES ASSUME pipe.lawful
             PROVE  \E s, m, t \in Spots : Fits(s, m, t)'
  BY DEF Fitting
<1>1. PICK s \in Spots, m \in Spots, t \in Spots : Fits(s, m, t)
  BY DEF Fitting
<1>2. StoredFirst(s)'
  BY <1>1 DEF Fits, Answered, StoredFirst
<1>3. Answered(s, t)'
  BY <1>1, <1>2, AnsweredSame DEF Fits
<1>4. Fits(s, m, t)'
  BY <1>3 DEF Fits, OnTheWay, InTurn
<1> QED
  BY <1>4

(* The decoder passes on what the upstream sends.                          *)
LEMMA ReadFits ==
  ASSUME Typed, Typed', EndInv, Fitting, Read
  PROVE  Fitting'
<1>1. /\ stage' \in {"read", "accept", "failed"} /\ stage = "read"
      /\ UNCHANGED <<pipe, view, encoders, kept, buffer, stored>>
  BY DecodeStage DEF Read
<1> SUFFICES ASSUME pipe.lawful
             PROVE  \E s, m, t \in Spots : Fits(s, m, t)'
  BY <1>1 DEF Fitting
<1>2. queue = <<>> /\ ~buffer.released /\ UpstreamFacts /\ Decoding /\ Decode
      /\ queue' \in Seq(Event)
  BY <1>1 DEF EndInv, Flow, Typed, Decoding, Read
<1>3. PICK s \in Spots, m \in Spots, t \in Spots : Fits(s, m, t)
  BY DEF Fitting
<1>4. Unseen = <<>> /\ Unread' = Unread /\ Unseen' = queue'
  BY <1>1, <1>2 DEF Unseen, Unread
<1>5. m = t /\ Leads(Unread, s, t)
  BY <1>1, <1>3, <1>4, NowhereSame DEF Fits, OnTheWay
<1>6. PICK u \in Spots : Said(u)' /\ Leads(queue', t, u)
  <2>1. Said(t)
    BY <1>3 DEF Fits, Answered
  <2>2. SaysOn(t)
    BY <1>1, <1>2, <2>1, DecodeSays
  <2> QED
    BY <2>2 DEF SaysOn
<1>7. Below(t, u) /\ (t.ended # "no" => u = t)
  BY <1>2, <1>6, LeadsEnds DEF Below
<1>8. Below(s, u)
  BY <1>3, <1>7, BelowTrans DEF Fits, Answered
<1>9. Shows(s)'
  BY <1>1, <1>3, ShowsSame DEF Fits, Answered
<1>10. StoredWhole(u)' /\ Refused(u)'
  <2>1. StoredWhole(t) /\ Refused(t) /\ toResponses' = toResponses
    BY <1>1, <1>3 DEF Fits, Answered, encoders
  <2> QED
    BY <1>1, <1>7, <2>1 DEF StoredWhole, Refused
<1>11. StoredFirst(s)'
  BY <1>1, <1>3 DEF Fits, Answered, StoredFirst
<1>12. OnTheWay(s, t, u)' /\ InTurn(t)'
  BY <1>1, <1>3, <1>4, <1>5, <1>6 DEF Fits, OnTheWay, InTurn
<1>13. Fits(s, t, u)'
  BY <1>6, <1>8, <1>9, <1>10, <1>11, <1>12 DEF Fits, Answered
<1> QED
  BY <1>13

(* The next event is noted, and held back or on its way to the client.     *)
LEMMA AcceptFits ==
  ASSUME Typed, Typed', EndInv, Fitting, Accept
  PROVE  Fitting'
<1> DEFINE e == Head(queue)
<1>1. /\ UNCHANGED <<pipe, up, view, decoders, encoders, stored>> /\ stage = "accept"
      /\ queue \in Seq(Event) /\ queue # <<>> /\ e \in Event
      /\ Tail(queue) \in Seq(Event) /\ buffer.events \in Seq(Event)
  BY HeadTailProperties DEF Accept, Typed, Decoding, Buffer
<1>2. ~buffer.released /\ (pipe.held => pipe.to = "responses")
  BY <1>1, SomePipes DEF EndInv, Flow, Typed, AllPipes
<1>3. CASE Fail /\ UNCHANGED buffer
  BY <1>1, <1>3, StepFails DEF Fail
<1>4. CASE /\ ~Incompatible(e) /\ (pipe.to = "responses" => ~Unobservable(e))
           /\ \/ ~pipe.held /\ stage' \in {"persist", "encode"} /\ UNCHANGED <<queue, buffer>>
                 /\ (stage' = "encode" /\ e.type = "response_stop" => ~pipe.stores)
              \/ pipe.held /\ buffer' = [buffer EXCEPT !.events = Append(@, e)] /\ Emit(Tail(queue))
  <2> SUFFICES ASSUME pipe.lawful
               PROVE  \E s, m, t \in Spots : Fits(s, m, t)'
    BY <1>1 DEF Fitting
  <2>1. PICK s \in Spots, m \in Spots, t \in Spots : Fits(s, m, t)
    BY DEF Fitting
  <2>2. Unseen = queue /\ Leads(queue, m, t) /\ Leads(Unread, s, m)
    BY <1>1, <1>2, <2>1 DEF Unseen, Fits, OnTheWay
  <2>3. PICK u \in Spots : Step(m, e, u) /\ Leads(Tail(queue), u, t)
    BY <1>1, <2>2, LeadsHead
  <2>4. pipe.to = "responses" => Keeps(kept', u)
    <3>1. pipe.to = "responses" => kept' = Observed(e) /\ Keeps(kept, m)
      BY <1>1, <1>4, <2>1 DEF Accept, Fits, InTurn
    <3>2. kept \in Accumulator /\ kept' \in Accumulator
      BY DEF Typed
    <3> QED
      BY <1>1, <2>3, <3>1, <3>2, ObservedKeeps
  <2>5. CASE ~pipe.held /\ stage' \in {"persist", "encode"} /\ UNCHANGED <<queue, buffer>>
             /\ (stage' = "encode" /\ e.type = "response_stop" => ~pipe.stores)
    <3>1. Unread = <<>> /\ Unread' = <<e>> /\ Unseen' = Tail(queue)
      BY <1>1, <2>5 DEF Unread, Unseen
    <3>2. s = m
      BY <2>2, <3>1, NowhereSame
    <3>3. Leads(<<e>>, s, u)
      BY <1>1, <2>3, <3>2, LeadsOne
    <3>4. StoredFirst(s)'
      BY <1>1, <2>1, <2>5 DEF Fits, Answered, StoredFirst
    <3>5. Answered(s, t)'
      BY <1>1, <2>1, <3>4, AnsweredSame DEF Fits
    <3>6. OnTheWay(s, u, t)' /\ InTurn(u)'
      BY <1>1, <2>3, <2>4, <3>1, <3>3 DEF OnTheWay, InTurn
    <3>7. Fits(s, u, t)'
      BY <3>5, <3>6 DEF Fits
    <3> QED
      BY <3>7
  <2>6. CASE pipe.held /\ buffer' = [buffer EXCEPT !.events = Append(@, e)] /\ Emit(Tail(queue))
    <3>1. /\ buffer'.events = Append(buffer.events, e) /\ buffer'.released = buffer.released
          /\ queue' = Tail(queue) /\ stage' \in {"read", "accept"}
      BY <2>6 DEF Emit, Typed, Buffer
    <3>2. Unread = buffer.events /\ Unread' = Append(buffer.events, e) /\ Unseen' = Tail(queue)
      BY <1>1, <1>2, <2>6, <3>1 DEF Unread, Unseen
    <3>3. Leads(Append(buffer.events, e), s, u)
      BY <1>1, <2>2, <2>3, <3>2, LeadsAppend
    <3>4. StoredFirst(s)'
      BY <1>1, <1>2, <2>1, <2>6, <3>1 DEF Fits, Answered, StoredFirst
    <3>5. Answered(s, t)'
      BY <1>1, <2>1, <3>4, AnsweredSame DEF Fits
    <3>6. OnTheWay(s, u, t)' /\ InTurn(u)'
      BY <1>1, <2>3, <2>4, <3>2, <3>3 DEF OnTheWay, InTurn
    <3>7. Fits(s, u, t)'
      BY <3>5, <3>6 DEF Fits
    <3> QED
      BY <3>7
  <2> QED
    BY <1>4, <2>5, <2>6
<1> QED
  BY <1>2, <1>3, <1>4 DEF Accept

-----------------------------------------------------------------------------

LEMMA PersistFits ==
  ASSUME Typed, EndInv, Storing, Fitting, Persist
  PROVE  Fitting'
<1>1. /\ UNCHANGED <<pipe, up, queue, view, decoders, encoders, kept, buffer>>
      /\ stage = "persist" /\ stage' = IF pipe.held THEN "release" ELSE "encode"
      /\ stored' = [status |-> TurnStatus, content |-> kept]
      /\ kept.stopReason # "none" /\ TurnStatus \in {"completed", "incomplete"}
  BY DEF Persist, Unkeepable, TurnStatus
<1> SUFFICES ASSUME pipe.lawful
             PROVE  \E s, m, t \in Spots : Fits(s, m, t)'
  BY <1>1 DEF Fitting
<1>2. PICK s \in Spots, m \in Spots, t \in Spots : Fits(s, m, t)
  BY DEF Fitting
<1>3. pipe.stores /\ pipe.to = "responses"
  BY <1>1, SomePipes DEF Storing, Typed, AllPipes
<1>4. Keeps(kept, m)
  BY <1>1, <1>2, <1>3 DEF Fits, InTurn
<1>5. m.ended = "stop"
  BY <1>1, <1>4, SpotParts DEF Keeps
<1>6. Leads(Unread, s, m) /\ Leads(Unseen, m, t)
  BY <1>1, <1>2 DEF Fits, OnTheWay
<1>7. t = m
  <2>1. Unseen \in Seq(Event)
    <3>1. queue \in Seq(Event) /\ (~pipe.held => Tail(queue) \in Seq(Event)) /\ <<>> \in Seq(Event)
      BY <1>1, HeadTailProperties DEF Typed, Decoding
    <3> QED
      BY <3>1 DEF Unseen
  <2> QED
    BY <1>5, <1>6, <2>1, LeadsEnds DEF Below
<1>8. stored' # Nothing
  <2>1. stored'.status = TurnStatus /\ Nothing.status = "nothing"
    BY <1>1 DEF Nothing
  <2> QED
    BY <1>1, <2>1
<1>9. StoredWhole(t)'
  <2>1. /\ stored'.content = kept
        /\ stored'.status = IF t.reason = "max_tokens" THEN "incomplete" ELSE "completed"
    BY <1>1, <1>4, <1>7 DEF Keeps, TurnStatus
  <2> QED
    BY <1>4, <1>5, <1>7, <2>1 DEF StoredWhole
<1>10. StoredFirst(s)'
  BY <1>8 DEF StoredFirst
<1>11. Shows(s)' /\ Said(t)'
  BY <1>1, <1>2, ShowsSame, SaidSame DEF Fits, Answered
<1>12. Refused(t)' /\ Below(s, t)
  BY <1>1, <1>2 DEF Fits, Answered, Refused, encoders
<1>13. Unread' = Unread /\ Unseen' = Unseen
  <2>1. ~buffer.released
    BY <1>1 DEF EndInv, Flow
  <2> QED
    BY <1>1, <2>1 DEF Unread, Unseen
<1>14. OnTheWay(s, m, t)' /\ InTurn(m)'
  BY <1>1, <1>4, <1>6, <1>13 DEF OnTheWay, InTurn
<1>15. Fits(s, m, t)'
  BY <1>9, <1>10, <1>11, <1>12, <1>14 DEF Fits, Answered
<1> QED
  BY <1>15

LEMMA UpstreamEndsFits ==
  ASSUME Typed, EndInv, Fitting, UpstreamEnds
  PROVE  Fitting'
<1>1. /\ UNCHANGED <<pipe, up, queue, view, decoders, encoders, kept, buffer, stored>>
      /\ stage = "read"
      /\ stage' \in {"failed", "ended", "persist", "release"}
      /\ stage' = "persist" => pipe.held
      /\ stage' = "release" => ~pipe.stores
  BY DEF UpstreamEnds
<1> SUFFICES ASSUME pipe.lawful
             PROVE  \E s, m, t \in Spots : Fits(s, m, t)'
  BY <1>1 DEF Fitting
<1>2. PICK s \in Spots, m \in Spots, t \in Spots : Fits(s, m, t)
  BY DEF Fitting
<1>3. StoredFirst(s)'
  BY <1>1, <1>2 DEF Fits, Answered, StoredFirst
<1>4. Answered(s, t)'
  BY <1>1, <1>2, <1>3, AnsweredSame DEF Fits
<1>5. Unread' = Unread /\ Unseen' = Unseen
  BY <1>1 DEF Unread, Unseen
<1>6. OnTheWay(s, m, t)' /\ InTurn(m)'
  BY <1>1, <1>2, <1>5 DEF Fits, OnTheWay, InTurn
<1>7. Fits(s, m, t)'
  BY <1>4, <1>6 DEF Fits
<1> QED
  BY <1>7

(* A stop that is on its way is where the way ends.                        *)
LEMMA LeadsToStop ==
  ASSUME NEW ev \in Seq(Event), NEW s, NEW t, Leads(ev, s, t),
         NEW k \in DOMAIN ev, ev[k].type = "response_stop"
  PROVE  t.ended = "stop" /\ t.reason = ev[k].reason
<1>1. k \in 1 .. Len(ev) /\ k \in 0 .. Len(ev) /\ k - 1 \in 0 .. Len(ev) /\ Len(ev) \in Nat
  BY LenProperties
<1>2. PICK way \in [0 .. Len(ev) -> Spots] :
        /\ \A n \in 1 .. Len(ev) : Step(way[n - 1], ev[n], way[n])
        /\ \A n \in 0 .. Len(ev) : Below(way[n], t)
  BY DEF Leads
<1>3. Step(way[k - 1], ev[k], way[k]) /\ Below(way[k], t) /\ way[k - 1] \in Spots
  BY <1>1, <1>2
<1>4. way[k] = Stopping(way[k - 1], ev[k].reason)
  BY <1>3 DEF Step, Begins, Opens, Speaks, Closes, Stops, Breaks, Starts, Deltas
<1>5. way[k].ended = "stop" /\ way[k].reason = ev[k].reason
  BY <1>3, <1>4 DEF Stopping, Spots, Spot
<1> QED
  BY <1>3, <1>5 DEF Below

LEMMA ReleaseFits ==
  ASSUME Typed, EndInv, Holding, Fitting, Release
  PROVE  Fitting'
<1>1. /\ UNCHANGED <<pipe, up, view, decoders, toChat, toGemini, kept, stored>>
      /\ stage = "release" /\ stage' \in {"ended", "encode"}
      /\ queue' = buffer.events /\ buffer.events \in Seq(Event) /\ buffer'.released
      /\ toResponses' = [toResponses EXCEPT !.refusalMode = Refusal]
  BY DEF Release, Typed, Buffer
<1>2. pipe.held /\ pipe.to = "responses" /\ ~buffer.released /\ queue = <<>> /\ Untouched
  BY <1>1, SomePipes DEF EndInv, Flow, Typed, AllPipes, Holding
<1>3. /\ toResponses'.refusalMode = Refusal
      /\ toResponses'.started = toResponses.started
      /\ toResponses'.stopped = toResponses.stopped
      /\ toResponses'.blocks = toResponses.blocks
  BY <1>1 DEF Typed, EncodersTyped, ResponsesEncoder
<1> SUFFICES ASSUME pipe.lawful
             PROVE  \E s, m, t \in Spots : Fits(s, m, t)'
  BY <1>1 DEF Fitting
<1>4. PICK s \in Spots, m \in Spots, t \in Spots : Fits(s, m, t)
  BY DEF Fitting
<1>5. Leads(buffer.events, s, m) /\ Leads(<<>>, m, t)
  BY <1>1, <1>2, <1>4 DEF Fits, OnTheWay, Unread, Unseen
<1>6. m = t
  BY <1>5, NowhereSame
<1>7. Refused(t)'
  <2> SUFFICES ASSUME Refusal
               PROVE  t.ended = "stop" /\ t.reason = "content_block"
    BY <1>3 DEF Refused
  <2>1. PICK k \in DOMAIN buffer.events : buffer.events[k].type = "response_stop"
                                         /\ buffer.events[k].reason = "content_block"
    BY DEF Refusal
  <2> QED
    BY <1>1, <1>5, <1>6, <2>1, LeadsToStop
<1>8. Shows(s)'
  <2>1. Frame(s) /\ ShownByResponses(s)
    BY <1>2, <1>4 DEF Fits, Answered, Shows
  <2>2. view.items = <<>> /\ view.ends = <<>> /\ Len(<<>>) = 0
    BY <1>2 DEF Untouched
  <2>3. s.ended = "no" /\ s.reason = "none"
    BY <2>1, <2>2, SpotParts DEF Frame
  <2>4. Frame(s)'
    BY <1>1, <2>1 DEF Frame, EndStatus
  <2>5. view' = view /\ DOMAIN view.items = {} /\ \A i : BlockOf(i)' = BlockOf(i)
    BY <1>1, <1>3, <2>2 DEF BlockOf
  <2>6. ShownByResponses(s)'
    BY <1>3, <2>1, <2>3, <2>5 DEF ShownByResponses
  <2> QED
    BY <1>1, <1>2, <2>4, <2>6 DEF Shows
<1>9. Said(t)' /\ StoredWhole(t)' /\ Below(s, t)
  BY <1>1, <1>4, SaidSame DEF Fits, Answered, StoredWhole
<1>10. StoredFirst(s)'
  BY <1>1, <1>2, <1>4 DEF Fits, Answered, StoredFirst
<1>11. Unread' = buffer.events /\ Unseen' = <<>>
  BY <1>1, <1>2 DEF Unread, Unseen
<1>12. OnTheWay(s, m, t)' /\ InTurn(m)'
  BY <1>1, <1>4, <1>5, <1>11 DEF Fits, OnTheWay, InTurn
<1>13. Fits(s, m, t)'
  BY <1>7, <1>8, <1>9, <1>10, <1>12 DEF Fits, Answered
<1> QED
  BY <1>13

-----------------------------------------------------------------------------

LEMMA ModeKept ==
  ASSUME EncodersTyped, NEW e, EncodeEvent(e)
  PROVE  toResponses'.refusalMode = toResponses.refusalMode
<1>1. CASE EncodeResponses(e)
  BY <1>1 DEF EncodersTyped, ResponsesEncoder, EncodeResponses, StartResponse, StartContent,
              WriteContentDelta, StopContent, StopResponse, FailResponse
<1>2. CASE UNCHANGED toResponses
  BY <1>2
<1> QED
  BY <1>1, <1>2 DEF EncodeEvent, EncodeChat, EncodeMessages, EncodeGemini

(* Only a reader of Chat Completions, Gemini or Responses is sent the      *)
(* upstream's errors: of the upstreams it is Anthropic's that reports one. *)
LEMMA NoErrorForMessages ==
  ASSUME Typed, EndInv, pipe.lawful, pipe.to = "messages", queue # <<>>
  PROVE  Head(queue).type # "error"
<1>1. pipe.from # "anthropic"
  BY SomePipes DEF Typed, AllPipes, Routes
<1>2. ~up.reported /\ OnItsWay(queue) /\ queue \in Seq(Event)
  BY <1>1 DEF EndInv, Flow, UpstreamFacts, Typed, Decoding
<1>3. queue \in Seq(NoError)
  BY <1>2 DEF OnItsWay
<1> QED
  BY <1>2, <1>3, TailSeq DEF NoError

LEMMA StopsOnly ==
  ASSUME NEW s \in Spots, NEW e, NEW u, Step(s, e, u), u.ended = "stop"
  PROVE  s.ended = "stop" \/ e.type = "response_stop"
<1> SUFFICES ASSUME e.type # "response_stop", s.ended = "no"
             PROVE  FALSE
  BY DEF Step
<1>1. u.ended # "stop"
  BY DEF Step, Begins, Opens, Speaks, Closes, Stops, Breaks, Begun, Starting, Saying, Closing, Broken,
         Spots, Spot
<1> QED
  BY <1>1

(* The next event is written, and the client has read it.                  *)
LEMMA EncodeFits ==
  ASSUME Typed, EndInv, Framed, Fitting, Encode
  PROVE  Fitting'
<1> DEFINE e == Head(queue)
<1>1. /\ UNCHANGED <<pipe, up, decoders, kept, buffer, stored>>
      /\ EncodeEvent(e) /\ stage = "encode" /\ queue' = Tail(queue)
      /\ stage' = IF Tail(queue) = <<>> THEN IF pipe.held THEN "ended" ELSE "read"
                                        ELSE IF pipe.held THEN "encode" ELSE "accept"
  BY Zenon DEF Encode
<1>2. /\ queue \in Seq(Event) /\ queue # <<>> /\ e \in Event /\ Tail(queue) \in Seq(Event)
      /\ EncodersTyped
  BY <1>1, HeadTailProperties DEF Typed, Decoding
<1>3. pipe.held => buffer.released
  BY <1>1 DEF EndInv, Flow
<1> SUFFICES ASSUME pipe.lawful
             PROVE  \E s, m, t \in Spots : Fits(s, m, t)'
  BY <1>1 DEF Fitting
<1>4. PICK s \in Spots, m \in Spots, t \in Spots : Fits(s, m, t)
  BY DEF Fitting
<1>5. Leads(Unread, s, m) /\ Leads(Unseen, m, t)
  BY <1>1, <1>4 DEF Fits, OnTheWay
<1>6. Unread \in Seq(Event) /\ Unread # <<>> /\ Head(Unread) = e /\ Tail(Unread) = Unread'
      /\ Unseen' = Unseen /\ Unseen \in Seq(Event)
  <2>1. CASE pipe.held
    <3>1. Unread = queue /\ Unread' = Tail(queue) /\ Unseen = <<>> /\ Unseen' = <<>>
      BY <1>1, <1>3, <2>1 DEF Unread, Unseen
    <3> QED
      BY <1>2, <3>1
  <2>2. CASE ~pipe.held
    <3>1. Unread = <<e>> /\ Unread' = <<>> /\ Unseen = Tail(queue) /\ Unseen' = Tail(queue)
      BY <1>1, <2>2 DEF Unread, Unseen
    <3>2. <<e>> \in Seq(Event) /\ <<e>> # <<>> /\ Head(<<e>>) = e /\ Tail(<<e>>) = <<>>
      BY <1>2
    <3> QED
      BY <1>2, <3>1, <3>2
  <2> QED
    BY <2>1, <2>2
<1>7. PICK u \in Spots : Step(s, e, u) /\ Leads(Unread', u, m) /\ Below(u, m)
  BY <1>5, <1>6, LeadsHead
<1>8. Shows(u)'
  <2>1. Shows(s) /\ (pipe.to = "messages" => e.type # "error")
    BY <1>2, <1>4, NoErrorForMessages DEF Fits, Answered
  <2> QED
    BY <1>1, <1>2, <1>7, <2>1, EncodeShows
<1>9. Below(u, t)
  <2>1. Below(m, t)
    BY <1>5, <1>6, LeadsEnds
  <2> QED
    BY <1>7, <2>1, BelowTrans
<1>10. StoredFirst(u)'
  <2>1. StoredFirst(s)
    BY <1>4 DEF Fits, Answered
  <2>2. pipe.stores /\ u.ended = "stop" => stored # Nothing
    BY <1>1, <1>3, <1>7, <2>1, StopsOnly DEF StoredFirst
  <2>3. stage' # "release" /\ (~pipe.held => stage' # "encode")
    BY <1>1
  <2> QED
    BY <1>1, <2>1, <2>2, <2>3 DEF StoredFirst
<1>11. Refused(t)' /\ StoredWhole(t)' /\ Said(t)'
  BY <1>1, <1>2, <1>4, ModeKept, SaidSame DEF Fits, Answered, Refused, StoredWhole
<1>12. OnTheWay(u, m, t)' /\ InTurn(m)'
  BY <1>1, <1>4, <1>5, <1>6, <1>7 DEF Fits, OnTheWay, InTurn
<1>13. Fits(u, m, t)'
  BY <1>8, <1>9, <1>10, <1>11, <1>12 DEF Fits, Answered
<1> QED
  BY <1>13

LEMMA OtherStepsFit ==
  ASSUME Fitting, PersistFails \/ EncodeFails \/ UpstreamBreaks \/ ClientLeaves \/ UNCHANGED vars
  PROVE  Fitting'
<1>1. CASE PersistFails \/ EncodeFails \/ UpstreamBreaks
  BY <1>1, StepFails DEF PersistFails, EncodeFails, UpstreamBreaks, Fail
<1>2. CASE ClientLeaves \/ UNCHANGED vars
  <2>1. UNCHANGED <<pipe, up, stage, queue, view, decoders, encoders, kept, buffer, stored>>
    BY <1>2 DEF ClientLeaves, vars
  <2> SUFFICES ASSUME pipe.lawful
               PROVE  \E s, m, t \in Spots : Fits(s, m, t)'
    BY <2>1 DEF Fitting
  <2>2. PICK s \in Spots, m \in Spots, t \in Spots : Fits(s, m, t)
    BY DEF Fitting
  <2>3. StoredFirst(s)'
    BY <2>1, <2>2 DEF Fits, Answered, StoredFirst
  <2>4. Answered(s, t)'
    BY <2>1, <2>2, <2>3, AnsweredSame DEF Fits
  <2>5. Unread' = Unread /\ Unseen' = Unseen
    BY <2>1 DEF Unread, Unseen
  <2>6. OnTheWay(s, m, t)' /\ InTurn(m)'
    BY <2>1, <2>2, <2>5 DEF Fits, OnTheWay, InTurn
  <2>7. Fits(s, m, t)'
    BY <2>4, <2>6 DEF Fits
  <2> QED
    BY <2>7
<1> QED
  BY <1>1, <1>2

-----------------------------------------------------------------------------

LEMMA StoringKept ==
  ASSUME Storing, [Next]_vars
  PROVE  Storing'
<1>1. CASE Read
  BY <1>1, DecodeStage DEF Read, Storing
<1>2. CASE Accept
  BY <1>2 DEF Accept, Fail, Emit, Storing
<1>3. CASE Encode
  <2>1. pipe' = pipe /\ stage' # "persist"
    BY <1>3, Zenon DEF Encode
  <2> QED
    BY <2>1 DEF Storing
<1>4. CASE Persist \/ PersistFails \/ EncodeFails \/ UpstreamEnds \/ UpstreamBreaks \/ Release
           \/ ClientLeaves \/ Closed \/ UNCHANGED vars
  BY <1>4 DEF Persist, PersistFails, EncodeFails, UpstreamEnds, UpstreamBreaks, Release, ClientLeaves,
              Closed, vars, Fail, Storing
<1> QED
  BY <1>1, <1>2, <1>3, <1>4 DEF Next

LEMMA FittingKept ==
  ASSUME StreamInv, Typed', [Next]_vars
  PROVE  Fitting'
BY ReadFits, AcceptFits, PersistFits, EncodeFits, UpstreamEndsFits, ReleaseFits, OtherStepsFit
   DEF StreamInv, Next, Closed

(* Whatever is on its way between the decoder and the client, in the       *)
(* queue, in the buffer or in the encoder's hands, leads from what the     *)
(* client has read over what the kept turn holds to what the upstream has  *)
(* said.                                                                   *)
LEMMA StreamInvariant == Spec => []StreamInv
<1>1. Init => StreamInv
  BY InitTyped, EndInit, InitFramed, InitFits DEF Init, StreamInv, Holding, Untouched, Storing
<1>2. StreamInv /\ [Next]_vars => StreamInv'
  <2> SUFFICES ASSUME StreamInv, [Next]_vars
               PROVE  StreamInv'
    OBVIOUS
  <2>1. Typed' /\ EndInv' /\ Holding' /\ Framed' /\ Storing'
    BY TypedKept, TypedOK, EndInvKept, HoldingKept, FramedKept, StoringKept DEF StreamInv
  <2>2. Fitting'
    BY <2>1, FittingKept
  <2> QED
    BY <2>1, <2>2 DEF StreamInv
<1> QED
  BY <1>1, <1>2, PTL DEF Spec

-----------------------------------------------------------------------------

(* What the client has read is the start of what its reader has; of the    *)
(* calls, a Gemini client reads only those that are complete.              *)
LEMMA ShownAnswer ==
  ASSUME Typed, NEW s \in Spots, Shows(s)
  PROVE  /\ Text(view.items) = s.text /\ Reasoning(view.items) = s.reasoning
         /\ Called \in Seq(Seq(Nat)) /\ Len(Called) <= Len(s.calls)
         /\ \A n \in 1 .. Len(Called) : Called[n] = s.calls[n]
         /\ s.ended = "stop" => Called = s.calls
<1>1. pipe.to \in {"chat", "responses", "messages", "gemini"}
  BY SomePipes DEF Typed, AllPipes
<1>2. Called \in Seq(Seq(Nat)) /\ Len(s.calls) \in Nat
  BY ItemsTyped, AnswerTypes, SpotParts DEF Typed, EncodersTyped, Called
<1>3. CASE pipe.to = "gemini"
  BY <1>2, <1>3 DEF Shows, ShownByGemini, Reads
<1>4. CASE pipe.to # "gemini"
  <2>1. Tells(view.items, s)
    BY <1>1, <1>4 DEF Shows, ShownByResponses, ShownByMessages, ShownByChat
  <2> QED
    BY <1>2, <2>1 DEF Tells, Reads, Called
<1> QED
  BY <1>3, <1>4

LEMMA EndsOnce ==
  ASSUME Typed, NEW s \in Spots, Frame(s)
  PROVE  /\ Len(view.ends) <= 1
         /\ \A k \in DOMAIN view.ends : k = 1 /\ s.ended # "no" /\ view.ends[k].reason = s.reason
         /\ Succeeded => s.ended = "stop"
<1>1. /\ s.ended = "no" => view.ends = <<>>
      /\ s.ended # "no" => /\ Len(view.ends) = 1 /\ view.ends[1].reason = s.reason
                           /\ view.ends[1].status = EndStatus(s)
  BY DEF Frame
<1>2. DOMAIN view.ends = 1 .. Len(view.ends) /\ Len(<<>>) = 0
  BY DEF Typed, EncodersTyped, View
<1>3. ASSUME NEW k \in DOMAIN view.ends
      PROVE  k = 1 /\ s.ended # "no" /\ view.ends[k].reason = s.reason
             /\ view.ends[k].status = EndStatus(s)
  <2>1. s.ended # "no"
    BY <1>1, <1>2
  <2>2. k = 1
    <3>1. Len(view.ends) = 1 /\ k \in 1 .. Len(view.ends)
      BY <1>1, <1>2, <2>1
    <3>2. k \in 1 .. 1
      BY <3>1
    <3> QED
      BY <3>2
  <2> QED
    BY <1>1, <2>1, <2>2
<1>4. ASSUME NEW k \in DOMAIN view.ends, view.ends[k].status # "failed"
      PROVE  s.ended = "stop"
  <2>1. s.ended # "no" /\ EndStatus(s) # "failed"
    BY <1>3, <1>4
  <2>2. s.ended # "error"
    BY <2>1 DEF EndStatus
  <2>3. s.ended \in {"no", "stop", "error"}
    BY SpotParts
  <2> QED
    BY <2>1, <2>2, <2>3
<1>5. Len(view.ends) <= 1
  <2>1. CASE s.ended = "no"
    <3>1. Len(view.ends) = 0
      BY <1>1, <1>2, <2>1
    <3> QED
      BY <3>1
  <2>2. CASE s.ended # "no"
    <3>1. Len(view.ends) = 1
      BY <1>1, <2>2
    <3> QED
      BY <3>1
  <2> QED
    BY <2>1, <2>2
<1>6. Succeeded => s.ended = "stop"
  BY <1>4, Zenon DEF Succeeded
<1> QED
  BY <1>3, <1>5, <1>6, Zenon

(* A client that reads success has read all of the upstream's answer.      *)
LEMMA WholeAnswer ==
  ASSUME Typed, NEW s \in Spots, NEW t \in Spots, Answered(s, t), Succeeded
  PROVE  t = s /\ s.ended = "stop"
<1>1. s.ended = "stop"
  BY EndsOnce DEF Answered, Shows
<1> QED
  BY <1>1 DEF Answered, Below

-----------------------------------------------------------------------------

(* A Responses stream that ends as a refusal has shown its text only as a  *)
(* refusal, any other end none of it; with buffer_refusals nothing is      *)
(* written before bufferedResponsesRefusal has seen the stop reason        *)
(* (RefusalExact, for streams of any length, through any decoder, whatever *)
(* the limit of responsesEventBuffer).                                     *)
THEOREM RefusalsAreExact == Spec => []RefusalExact
<1>1. StreamInv => RefusalExact
  <2> SUFFICES ASSUME StreamInv, pipe.to = "responses"
               PROVE  RefusalExact
    BY DEF RefusalExact
  <2>1. HeldBack
    BY DEF StreamInv, Holding, HeldBack
  <2>2. ASSUME pipe.lawful, NEW k \in DOMAIN view.ends, NEW n \in DOMAIN view.items
        PROVE  /\ view.ends[k].reason = "content_block" => view.items[n].kind # "text"
               /\ view.ends[k].reason # "content_block" => view.items[n].kind # "refusal"
    <3>1. PICK s \in Spots, m \in Spots, t \in Spots : Fits(s, m, t)
      BY <2>2 DEF StreamInv, Fitting
    <3>2. Frame(s) /\ ShownByResponses(s) /\ Below(s, t) /\ Refused(t)
      BY <3>1 DEF Fits, Answered, Shows
    <3>3. view.ends[k].reason = s.reason /\ s.ended # "no"
      BY <2>2, <3>2, EndsOnce DEF StreamInv
    <3>4. t = s
      BY <3>2, <3>3 DEF Below
    <3>5. toResponses.refusalMode <=> s.reason = "content_block"
      BY <3>2, <3>4 DEF Refused, ShownByResponses
    <3> QED
      BY <2>2, <3>2, <3>3, <3>5 DEF ShownByResponses
  <2> QED
    BY <2>1, <2>2 DEF RefusalExact
<1> QED
  BY <1>1, StreamInvariant, PTL

(* A reader of the client's format can place every frame that an encoder   *)
(* writes of a lawful upstream's stream, and of those of                   *)
(* ResponsesStreamEncoder whatever the upstream does, which repeats in     *)
(* closing an item what it sent of it (WellFormed).                        *)
THEOREM StreamsAreWellFormed == Spec => []WellFormed
<1>1. StreamInv => WellFormed
  <2> SUFFICES ASSUME StreamInv
               PROVE  WellFormed
    OBVIOUS
  <2>1. ResponsesFrames
    BY FramedFrames DEF StreamInv
  <2>2. ASSUME pipe.lawful
        PROVE  view.faults = {} /\ view.begun <= 1 /\ Len(view.ends) <= 1
    <3>1. PICK s \in Spots, m \in Spots, t \in Spots : Fits(s, m, t)
      BY <2>2 DEF StreamInv, Fitting
    <3>2. Frame(s)
      BY <3>1 DEF Fits, Answered, Shows
    <3>3. view.begun <= 1
      BY <3>2 DEF Frame
    <3> QED
      BY <3>2, <3>3, EndsOnce DEF StreamInv, Frame
  <2> QED
    BY <2>1, <2>2 DEF WellFormed
<1> QED
  BY <1>1, StreamInvariant, PTL

(* Through any decoder, translateStream and any encoder the client reads   *)
(* the text, the reasoning and the tool calls the upstream sent, piece by  *)
(* piece and in order, and all of them when its stream ends in success     *)
(* (Faithful, for answers of any length).                                  *)
THEOREM StreamsAreFaithful == Spec => []Faithful
<1>1. StreamInv => Faithful
  <2> SUFFICES ASSUME StreamInv, pipe.lawful
               PROVE  Faithful
    BY DEF Faithful
  <2>1. PICK s \in Spots, m \in Spots, t \in Spots : Fits(s, m, t)
    BY DEF StreamInv, Fitting
  <2>2. Typed /\ Answered(s, t) /\ Shows(s) /\ Said(t) /\ Below(s, t)
    BY <2>1 DEF StreamInv, Fits, Answered
  <2>3. Text(up.sent) = t.text /\ Reasoning(up.sent) = t.reasoning /\ ToolCalls(up.sent) = t.calls
    BY <2>2 DEF Said, Sent, Tells, Reads
  <2>4. /\ Text(view.items) = s.text /\ Reasoning(view.items) = s.reasoning
        /\ Called \in Seq(Seq(Nat)) /\ Len(Called) <= Len(s.calls)
        /\ \A n \in 1 .. Len(Called) : Called[n] = s.calls[n]
        /\ s.ended = "stop" => Called = s.calls
    BY <2>2, ShownAnswer
  <2>5. IsPrefix(s.text, t.text) /\ IsPrefix(s.reasoning, t.reasoning)
    BY <2>2, SpotParts, StartIsPrefix DEF Below
  <2>6. ASSUME NEW k \in DOMAIN Called
        PROVE  k \in DOMAIN t.calls /\ IsPrefix(Called[k], t.calls[k])
    <3>1. /\ s.calls \in Seq(Seq(Nat)) /\ t.calls \in Seq(Seq(Nat))
          /\ Len(s.calls) \in Nat /\ Len(t.calls) \in Nat /\ Len(Called) \in Nat
          /\ DOMAIN Called = 1 .. Len(Called) /\ DOMAIN t.calls = 1 .. Len(t.calls)
      BY <2>4, SpotParts, LenProperties
    <3>2. k \in 1 .. Len(Called) /\ k \in 1 .. Len(s.calls) /\ k \in 1 .. Len(t.calls)
      <4>1. Len(Called) <= Len(s.calls) /\ Len(s.calls) <= Len(t.calls)
        BY <2>2, <2>4 DEF Below
      <4>2. k \in 1 .. Len(Called)
        BY <2>6, <3>1
      <4>3. \A a, b, c \in Nat : a <= b /\ b <= c => 1 .. a \subseteq 1 .. b /\ 1 .. b \subseteq 1 .. c
        OBVIOUS
      <4>4. /\ 1 .. Len(Called) \subseteq 1 .. Len(s.calls)
            /\ 1 .. Len(s.calls) \subseteq 1 .. Len(t.calls)
        BY <3>1, <4>1, <4>3
      <4> QED
        BY <4>2, <4>4, Zenon
    <3>3. Called[k] = s.calls[k] /\ StartOf(s.calls[k], t.calls[k])
      BY <2>2, <2>4, <3>2 DEF Below
    <3>4. s.calls[k] \in Seq(Nat) /\ t.calls[k] \in Seq(Nat)
      BY <3>1, <3>2, ElementOfSeq
    <3> QED
      BY <3>1, <3>2, <3>3, <3>4, StartIsPrefix
  <2>7. ASSUME Succeeded
        PROVE  t = s /\ up.phase = "over" /\ ~up.reported /\ Called = s.calls
    <3>1. t = s /\ s.ended = "stop"
      BY <2>2, <2>7, WholeAnswer
    <3> QED
      BY <2>2, <2>4, <3>1 DEF Said
  <2> QED
    BY <2>3, <2>4, <2>5, <2>6, <2>7 DEF Faithful, Called
<1> QED
  BY <1>1, StreamInvariant, PTL

(* The turn that Persist stores is the answer the client was shown, though *)
(* responseStateStreamAccumulator and the encoder each build their own, and*)
(* it is stored before the client reads that the answer is complete        *)
(* (StoredAsShown).                                                        *)
THEOREM TurnsAreStoredAsShown == Spec => []StoredAsShown
<1>1. StreamInv => StoredAsShown
  <2> SUFFICES ASSUME StreamInv, pipe.stores, pipe.lawful, Succeeded
               PROVE  StoredAsShown
    BY DEF StoredAsShown
  <2>1. PICK s \in Spots, m \in Spots, t \in Spots : Fits(s, m, t)
    BY DEF StreamInv, Fitting
  <2>2. Typed /\ Answered(s, t) /\ pipe.to = "responses"
    BY <2>1, SomePipes DEF StreamInv, Typed, AllPipes, Fits
  <2>3. t = s /\ s.ended = "stop"
    BY <2>2, WholeAnswer
  <2>4. Frame(s) /\ ShownByResponses(s)
    BY <2>2 DEF Answered, Shows
  <2>5. stored # Nothing
    BY <2>2, <2>3 DEF Answered, StoredFirst
  <2>6. /\ Keeps(stored.content, s)
        /\ stored.status = IF s.reason = "max_tokens" THEN "incomplete" ELSE "completed"
    BY <2>2, <2>3, <2>5 DEF Answered, StoredWhole
  <2>7. stored.status = view.ends[1].status
    BY <2>2, <2>3, <2>4, <2>6 DEF Frame, EndStatus
  <2>8. /\ Text(StoredBlocks(stored.content)) = Text(view.items)
        /\ ToolCalls(StoredBlocks(stored.content)) = ToolCalls(view.items)
    BY <2>4, <2>6 DEF ShownByResponses, Tells, Reads, Keeps
  <2>9. stored.content.nonportable <=> \E k \in DOMAIN view.items : view.items[k].kind = "reasoning"
    BY <2>4, <2>6 DEF ShownByResponses, Keeps
  <2> QED
    BY <2>5, <2>7, <2>8, <2>9 DEF StoredAsShown
<1> QED
  BY <1>1, StreamInvariant, PTL
=============================================================================
