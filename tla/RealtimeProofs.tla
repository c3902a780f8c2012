---------------------------- MODULE RealtimeProofs ----------------------------
(***************************************************************************)
(* RealtimeBridge for any peers, messages and calls.  The control of the   *)
(* three goroutines is proved first (Control): almost every action moves   *)
(* one of them from one place to another (Moves).  What they hold follows, *)
(* and from both what the two peers read.                                  *)
(***************************************************************************)
EXTENDS RealtimeBridge, SequenceTheorems, TLAPS

USE CallIds, SomePeers, RealtimeBounds

Early == {"dial", "accept", "greet", "refused"}

Ended(g) == IF pc[g] = "ended" THEN 1 ELSE 0

Held ==
  \A g \in Goroutines, c \in Ends :
    conn[c].writeMu = g <=> (step[g] = "flush" /\ WritesTo(g) = c)

(* Where the goroutines are.                                               *)
Control ==
  /\ conn \in [Ends -> Conn]
  /\ step \in [Goroutines -> Steps]
  /\ pc \in [Goroutines -> RunPlaces \cup CopierPlaces]
  /\ pc["run"] \in RunPlaces
  /\ \A g \in Copiers : pc[g] \in CopierPlaces
  /\ \A g \in Goroutines : step[g] = "idle" <=> pc[g] \notin Writing
  /\ pc["run"] \in Early => \A g \in Copiers : pc[g] = "off"
  /\ Held
  /\ errCh \in Seq({"clean", "failed"})
  /\ Len(errCh) = Ended("client") + Ended("gemini")

(* What they hold.                                                         *)
Locals ==
  /\ asking \in ClientMessage /\ answering \in ServerMessage
  /\ events \in Seq(Event) /\ outgoing \in Seq(Payload)

Data ==
  /\ peers \in Peers
  /\ session \in Session /\ decoder \in Decoder /\ encoder \in Encoder
  /\ attempt \in 1 .. peers.targets
  /\ Locals
  /\ setupReady \in BOOLEAN
  /\ heard \in Heard /\ shown \in Shown

LEMMA TypeSplits == TypeOK <=> /\ Data /\ conn \in [Ends -> Conn]
                               /\ step \in [Goroutines -> Steps]
                               /\ pc \in [Goroutines -> RunPlaces \cup CopierPlaces]
                               /\ errCh \in Seq({"clean", "failed"}) /\ Len(errCh) <= 2
                               /\ Held
  BY DEF TypeOK, Data, Locals, Held

-----------------------------------------------------------------------------
(* The control of the goroutines.                                          *)

(* A goroutine that is not moved writes where it wrote.                    *)
LEMMA WritesStay ==
  ASSUME NEW g \in Goroutines, pc'[g] = pc[g]
  PROVE  WritesTo(g)' = WritesTo(g)
  BY DEF WritesTo, Goroutines

LEMMA WritesToEnds == \A g \in Goroutines : WritesTo(g) \in Ends
  BY DEF WritesTo, Ends, Goroutines

LEMMA Moves ==
  ASSUME Control, NEW g \in Goroutines, NEW place,
         Goes(g, place), pc[g] # "ended",
         g = "run" => place \in RunPlaces /\ (place \in Early => pc["run"] \in Early),
         g \in Copiers => place \in CopierPlaces /\ pc[g] # "off",
         conn' \in [Ends -> Conn],
         \A c \in Ends : conn'[c].writeMu =
                           IF conn[c].writeMu = g THEN "nobody" ELSE conn[c].writeMu,
         IF place = "ended" THEN \E how \in {"clean", "failed"} : errCh' = Append(errCh, how)
                            ELSE errCh' = errCh
  PROVE  Control'
<1>1. /\ pc' = [pc EXCEPT ![g] = place] /\ step' = [step EXCEPT ![g] = Begins(place)]
      /\ place \in RunPlaces \cup CopierPlaces
      /\ Begins(place) \in Steps
  BY DEF Goes, Begins, Steps, Copiers, Goroutines
<1>2. /\ Begins(place) = "idle" <=> place \notin Writing
      /\ Begins(place) # "flush"
  BY DEF Begins, Writing
<1>3. /\ pc' \in [Goroutines -> RunPlaces \cup CopierPlaces] /\ step' \in [Goroutines -> Steps]
      /\ pc'[g] = place /\ step'[g] = Begins(place)
      /\ \A h \in Goroutines \ {g} : pc'[h] = pc[h] /\ step'[h] = step[h]
  BY <1>1 DEF Control
<1>4. pc'["run"] \in RunPlaces /\ \A h \in Copiers : pc'[h] \in CopierPlaces
  BY <1>3 DEF Control, Copiers, Goroutines
<1>5. \A h \in Goroutines : step'[h] = "idle" <=> pc'[h] \notin Writing
  BY <1>2, <1>3 DEF Control
<1>6. pc'["run"] \in Early => \A h \in Copiers : pc'[h] = "off"
  BY <1>3 DEF Control, Copiers, Goroutines
<1>7. Held'
  <2> SUFFICES ASSUME NEW h \in Goroutines, NEW c \in Ends
               PROVE  conn'[c].writeMu = h <=> (step'[h] = "flush" /\ WritesTo(h)' = c)
    BY DEF Held
  <2>1. conn[c].writeMu = h <=> (step[h] = "flush" /\ WritesTo(h) = c)
    BY DEF Control, Held
  <2>2. CASE h = g
    BY <1>2, <1>3, <2>2 DEF Goroutines
  <2>3. CASE h # g
    BY <1>3, <2>1, <2>3, WritesStay DEF Goroutines
  <2> QED
    BY <2>2, <2>3
<1>8. errCh' \in Seq({"clean", "failed"}) /\ Len(errCh') = Ended("client")' + Ended("gemini")'
  <2>1. errCh \in Seq({"clean", "failed"}) /\ Len(errCh) = Ended("client") + Ended("gemini")
    BY DEF Control
  <2>2. Ended("client") \in Nat /\ Ended("gemini") \in Nat
    BY DEF Ended
  <2>3. CASE place # "ended"
    <3>1. Ended("client")' = Ended("client") /\ Ended("gemini")' = Ended("gemini")
      BY <1>3, <2>3 DEF Ended, Goroutines
    <3> QED
      BY <2>1, <2>3, <3>1
  <2>4. CASE place = "ended"
    <3>1. errCh' \in Seq({"clean", "failed"}) /\ Len(errCh') = Len(errCh) + 1
      <4>1. PICK how \in {"clean", "failed"} : errCh' = Append(errCh, how)
        BY <2>4
      <4> QED
        BY <2>1, <4>1, AppendProperties
    <3>2. g # "run"
      BY <2>4 DEF RunPlaces
    <3>3. \/ g = "client" /\ Ended("client")' = 1 /\ Ended("client") = 0 /\ Ended("gemini")' = Ended("gemini")
          \/ g = "gemini" /\ Ended("gemini")' = 1 /\ Ended("gemini") = 0 /\ Ended("client")' = Ended("client")
      BY <1>3, <2>4, <3>2 DEF Ended, Goroutines
    <3> QED
      BY <2>1, <2>2, <3>1, <3>3
  <2> QED
    BY <2>3, <2>4
<1> QED
  BY <1>3, <1>4, <1>5, <1>6, <1>7, <1>8 DEF Control

(* A goroutine holds nothing while it is not in the last step of a write.  *)
LEMMA HoldsNothing ==
  ASSUME Control, NEW g \in Goroutines, step[g] # "flush"
  PROVE  \A c \in Ends : conn[c].writeMu # g
  BY DEF Control, Held

LEMMA Holds ==
  ASSUME Control, NEW g \in Goroutines, step[g] = "flush", NEW d \in Ends, WritesTo(g) = d
  PROVE  \A c \in Ends : conn[c].writeMu = g <=> c = d
  BY DEF Control, Held

LEMMA Still ==
  ASSUME Control, NEW g \in Goroutines, NEW place, Goes(g, place), conn' = conn,
         pc[g] \notin Writing \/ step[g] = "deadline",
         pc[g] # "ended",
         g = "run" => place \in RunPlaces /\ (place \in Early => pc["run"] \in Early),
         g \in Copiers => place \in CopierPlaces /\ pc[g] # "off",
         IF place = "ended" THEN \E how \in {"clean", "failed"} : errCh' = Append(errCh, how)
                            ELSE errCh' = errCh
  PROVE  Control'
<1>1. step[g] # "flush"
  BY DEF Control
<1>2. \A c \in Ends : conn[c].writeMu # g
  BY <1>1, HoldsNothing
<1>3. conn' \in [Ends -> Conn]
  BY DEF Control
<1>4. \A c \in Ends : conn'[c].writeMu = IF conn[c].writeMu = g THEN "nobody" ELSE conn[c].writeMu
  BY <1>2
<1> QED
  BY <1>3, <1>4, Moves

(* The frame goes out or fails, and the goroutine goes on.                 *)
LEMMA WriteEnds ==
  ASSUME Control, NEW g \in Goroutines, NEW place, Goes(g, place),
         NEW d \in Ends, d = WritesTo(g), Flush(g, d) \/ FlushFails(g, d),
         pc[g] # "ended",
         g = "run" => place \in RunPlaces /\ (place \in Early => pc["run"] \in Early),
         g \in Copiers => place \in CopierPlaces /\ pc[g] # "off",
         IF place = "ended" THEN \E how \in {"clean", "failed"} : errCh' = Append(errCh, how)
                            ELSE errCh' = errCh
  PROVE  Control'
<1>1. step[g] = "flush"
  BY DEF Flush, FlushFails
<1>2. \A c \in Ends : conn[c].writeMu = g <=> c = d
  BY <1>1, Holds
<1>3. PICK failed \in BOOLEAN : conn' = [conn EXCEPT ![d] = Unlocked(d, failed)]
  BY DEF Flush, FlushFails
<1>4. conn \in [Ends -> Conn]
  BY DEF Control
<1>5. Unlocked(d, failed) \in Conn /\ Unlocked(d, failed).writeMu = "nobody"
  BY <1>4 DEF Unlocked, Conn
<1>6. conn' \in [Ends -> Conn]
  BY <1>3, <1>4, <1>5
<1>7. \A c \in Ends : conn'[c].writeMu = IF conn[c].writeMu = g THEN "nobody" ELSE conn[c].writeMu
  BY <1>2, <1>3, <1>4, <1>5
<1> QED
  BY <1>6, <1>7, Moves

(* What happens to a connection while the goroutines stay where they are.  *)
LEMMA Elsewhere ==
  ASSUME Control, UNCHANGED <<pc, step, errCh>>, conn' \in [Ends -> Conn],
         \A c \in Ends : conn'[c].writeMu = conn[c].writeMu
  PROVE  Control'
  BY DEF Control, Held, Ended, WritesTo

LEMMA ConnKept ==
  ASSUME Control, NEW c \in Ends, NEW x \in Conn, conn' = [conn EXCEPT ![c] = x],
         x.writeMu = conn[c].writeMu
  PROVE  conn' \in [Ends -> Conn] /\ \A d \in Ends : conn'[d].writeMu = conn[d].writeMu
  BY DEF Control

(* The actions that move no goroutine.                                     *)
LEMMA DeadlineControl ==
  ASSUME Control, NEW g \in Goroutines, AppliesDeadline(g)
  PROVE  Control'
<1> DEFINE c == WritesTo(g)
           x == [conn[c] EXCEPT !.deadline = DeadlineOf(g)]
<1>1. c \in Ends
  BY WritesToEnds
<1>2. /\ step[g] = "deadline" /\ step' = [step EXCEPT ![g] = "lock"]
      /\ conn' = [conn EXCEPT ![c] = x]
      /\ UNCHANGED <<pc, errCh>>
  BY DEF AppliesDeadline, SetDeadline, Control
<1>3. x \in Conn /\ x.writeMu = conn[c].writeMu
  BY <1>1 DEF Control, Conn, Deadlines, DeadlineOf, Cleared
<1> HIDE DEF x
<1>4. conn' \in [Ends -> Conn] /\ \A d \in Ends : conn'[d].writeMu = conn[d].writeMu
  BY <1>1, <1>2, <1>3, ConnKept
<1>5. /\ step' \in [Goroutines -> Steps]
      /\ \A h \in Goroutines : step'[h] = "flush" <=> step[h] = "flush"
      /\ \A h \in Goroutines : step'[h] = "idle" <=> step[h] = "idle"
  BY <1>2 DEF Control, Steps
<1> QED
  BY <1>2, <1>4, <1>5 DEF Control, Held, Ended, WritesTo

LEMMA LockControl ==
  ASSUME Control, NEW g \in Goroutines, Locks(g)
  PROVE  Control'
<1> DEFINE c == WritesTo(g)
<1>1. c \in Ends
  BY WritesToEnds
<1>2. /\ step[g] = "lock" /\ step' = [step EXCEPT ![g] = "flush"]
      /\ conn[c].writeMu = "nobody"
      /\ conn' = [conn EXCEPT ![c].writeMu = g]
      /\ UNCHANGED <<pc, errCh>>
  BY DEF Locks, LockWriter
<1>3. conn' \in [Ends -> Conn] /\ \A d \in Ends : conn'[d].writeMu = IF d = c THEN g ELSE conn[d].writeMu
  BY <1>1, <1>2 DEF Control, Conn
<1>4. /\ step' \in [Goroutines -> Steps]
      /\ \A h \in Goroutines : step'[h] = "flush" <=> (step[h] = "flush" \/ h = g)
      /\ \A h \in Goroutines : step'[h] = "idle" <=> step[h] = "idle"
  BY <1>2 DEF Control, Steps
<1>5. Held'
  <2> SUFFICES ASSUME NEW h \in Goroutines, NEW d \in Ends
               PROVE  conn'[d].writeMu = h <=> (step'[h] = "flush" /\ WritesTo(h)' = d)
    BY DEF Held
  <2>1. WritesTo(h)' = WritesTo(h)
    BY <1>2, WritesStay
  <2>2. /\ conn[d].writeMu = h <=> (step[h] = "flush" /\ WritesTo(h) = d)
        /\ \A k \in Goroutines : ~(step[k] = "flush" /\ WritesTo(k) = c)
    BY <1>1, <1>2 DEF Control, Held, Goroutines
  <2> QED
    BY <1>2, <1>3, <1>4, <2>1, <2>2
<1> QED
  BY <1>2, <1>3, <1>4, <1>5 DEF Control, Ended

LEMMA OutsideControl ==
  ASSUME Control, Outside \/ \E c \in Ends : Clock(c)
  PROVE  Control'
<1>1. PICK c \in Ends : \/ PeerLost(c) \/ PeerStopsReading(c) \/ PeerReadsAgain(c)
                          \/ DeadlineExpires(c)
  BY DEF Outside, Clock
<1> DEFINE Gone == [conn[c] EXCEPT !.lost = TRUE, !.taking = TRUE]
           Deaf == [conn[c] EXCEPT !.taking = FALSE]
           Awake == [conn[c] EXCEPT !.taking = TRUE]
           Late == [conn[c] EXCEPT !.deadline = "expired"]
<1>3. \A x \in {Gone, Deaf, Awake, Late} : x \in Conn /\ x.writeMu = conn[c].writeMu
  <2> conn[c] \in Conn
    BY DEF Control
  <2>1. Gone \in Conn /\ Gone.writeMu = conn[c].writeMu
    BY DEF Conn
  <2>2. Deaf \in Conn /\ Deaf.writeMu = conn[c].writeMu
    BY DEF Conn
  <2>3. Awake \in Conn /\ Awake.writeMu = conn[c].writeMu
    BY DEF Conn
  <2>4. Late \in Conn /\ Late.writeMu = conn[c].writeMu
    BY DEF Conn, Deadlines
  <2> HIDE DEF Gone, Deaf, Awake, Late
  <2> QED
    BY <2>1, <2>2, <2>3, <2>4
<1>4. conn[c] \in Conn /\ \E x \in {Gone, Deaf, Awake, Late} : conn' = [conn EXCEPT ![c] = x]
  <2>1. conn[c] \in Conn
    BY DEF Control
  <2>2. CASE PeerLost(c)
    BY <2>1, <2>2 DEF PeerLost, Conn
  <2>3. CASE PeerStopsReading(c)
    BY <2>1, <2>3 DEF PeerStopsReading
  <2>4. CASE PeerReadsAgain(c)
    BY <2>1, <2>4 DEF PeerReadsAgain
  <2>5. CASE DeadlineExpires(c)
    BY <2>1, <2>5 DEF DeadlineExpires
  <2> QED
    BY <1>1, <2>1, <2>2, <2>3, <2>4, <2>5
<1>2. UNCHANGED <<pc, step, errCh>>
  BY DEF Outside, Clock
<1> HIDE DEF Gone, Deaf, Awake, Late
<1>5. conn' \in [Ends -> Conn] /\ \A d \in Ends : conn'[d].writeMu = conn[d].writeMu
  BY <1>3, <1>4, ConnKept
<1> QED
  BY <1>2, <1>5, Elsewhere

(* runSession and what comes before it.                                    *)
LEMMA StartsControl ==
  ASSUME Control, Starts
  PROVE  Control'
<1>1. /\ pc["run"] \in {"dial", "accept"} /\ "run" \in Goroutines /\ "run" \notin Copiers
      /\ UNCHANGED errCh
  BY DEF Starts, Dialled, DialFails, Accepted, AcceptFails, Goroutines, Copiers
<1>2. step["run"] = "idle" /\ step["client"] = "idle" /\ step["gemini"] = "idle"
  BY <1>1 DEF Control, Writing, Copiers, Goroutines, Early
<1>3. \A c \in Ends : conn[c].writeMu = "nobody"
  BY <1>2 DEF Control, Held, Conn, Goroutines
<1>4. NoConn \in Conn /\ NewConn \in Conn /\ NoConn.writeMu = "nobody" /\ NewConn.writeMu = "nobody"
  BY DEF NoConn, NewConn, Conn, Deadlines
<1>5. /\ conn' \in [Ends -> Conn]
      /\ \A c \in Ends : conn'[c].writeMu = "nobody"
  BY <1>3, <1>4 DEF Starts, Dialled, DialFails, Accepted, AcceptFails, Control, Ends
<1>6. PICK place \in {"dial", "accept", "greet", "refused"} : Goes("run", place)
  BY DEF Starts, Dialled, DialFails, Accepted, AcceptFails, NextTarget
<1> QED
  BY <1>1, <1>3, <1>5, <1>6, Moves DEF Early, RunPlaces, Goroutines

LEMMA GreetedControl ==
  ASSUME Control, Greeted
  PROVE  Control'
<1>1. /\ pc' = [g \in Goroutines |-> IF g = "run" THEN "serve" ELSE "read"]
      /\ step' = [step EXCEPT !["run"] = "idle"]
      /\ UNCHANGED errCh /\ pc["run"] = "greet" /\ step["run"] = "flush"
      /\ conn' = [conn EXCEPT !["down"] = Unlocked("down", FALSE)]
  BY DEF Greeted, Flush
<1>2. step["client"] = "idle" /\ step["gemini"] = "idle" /\ pc["client"] = "off" /\ pc["gemini"] = "off"
  BY <1>1 DEF Control, Writing, Copiers, Goroutines, Early
<1>3. WritesTo("run") = "down"
  BY <1>1 DEF WritesTo
<1>4. \A c \in Ends : conn[c].writeMu = "run" <=> c = "down"
  BY <1>1, <1>3, Holds DEF Goroutines, Ends
<1>5. conn["up"].writeMu = "nobody"
  BY <1>2, <1>4 DEF Control, Held, Conn, Goroutines, Ends
<1>6. conn' \in [Ends -> Conn] /\ \A c \in Ends : conn'[c].writeMu = "nobody"
  BY <1>1, <1>5 DEF Control, Unlocked, Conn, Ends
<1>7. \A g \in Goroutines : step'[g] = "idle" /\ pc'[g] \notin Writing
  BY <1>1, <1>2 DEF Control, Goroutines, Writing
<1>8. Held'
  BY <1>6, <1>7 DEF Held, Goroutines
<1>9. Len(errCh') = Ended("client")' + Ended("gemini")'
  BY <1>1, <1>2 DEF Control, Ended, Goroutines
<1> QED
  BY <1>1, <1>6, <1>7, <1>8, <1>9
     DEF Control, RunPlaces, CopierPlaces, Steps, Copiers, Goroutines, Early

LEMMA RunControl ==
  ASSUME Control, Run
  PROVE  Control'
<1>1. CASE Greeted
  BY <1>1, GreetedControl
<1>2. CASE GreetFails \/ Reported
  <2>1. PICK place \in {"closeUp", "closeDown"} :
          /\ Goes("run", place) /\ UNCHANGED errCh
          /\ Flush("run", "down") \/ FlushFails("run", "down")
          /\ pc["run"] \in {"greet", "report"}
    BY <1>2 DEF GreetFails, Reported
  <2>2. WritesTo("run") = "down" /\ "run" \in Goroutines /\ "down" \in Ends /\ "run" \notin Copiers
    BY <2>1 DEF WritesTo, Goroutines, Ends, Copiers
  <2> QED
    BY <2>1, <2>2, WriteEnds DEF RunPlaces, Early
<1>3. CASE Ending
  <2>1. PICK place \in {"report", "closeDown"} :
          Goes("run", place) /\ UNCHANGED <<conn, errCh>> /\ pc["run"] = "serve"
    BY <1>3 DEF Ending
  <2> QED
    BY <2>1, Still DEF RunPlaces, Early, Goroutines, Copiers, Writing
<1>4. ASSUME NEW c \in Ends, NEW d \in Ends, NEW place \in {"closeUp", "closeDown"},
             pc["run"] = (IF c = "up" THEN "closeUp" ELSE "closeDown"), Closes(c, d, place)
      PROVE  Control'
  <2>1. WritesTo("run") = c /\ "run" \in Goroutines /\ "run" \notin Copiers
    BY <1>4 DEF WritesTo, Goroutines, Ends, Copiers
  <2>2. step["run"] = "flush" /\ conn' = [conn EXCEPT ![c] = NoConn] /\ UNCHANGED errCh
    BY <1>4 DEF Closes
  <2>3. \A e \in Ends : conn[e].writeMu = "run" <=> e = c
    BY <2>1, <2>2, Holds
  <2>4. NoConn \in Conn /\ NoConn.writeMu = "nobody"
    BY DEF NoConn, Conn, Deadlines
  <2>5. /\ conn' \in [Ends -> Conn]
        /\ \A e \in Ends : conn'[e].writeMu = IF conn[e].writeMu = "run" THEN "nobody" ELSE conn[e].writeMu
    BY <2>2, <2>3, <2>4 DEF Control
  <2>6. PICK to \in {"closeUp", "closeDown", "returned"} : Goes("run", to)
    BY <1>4 DEF Closes
  <2> QED
    BY <1>4, <2>1, <2>2, <2>5, <2>6, Moves DEF RunPlaces, Early
<1>5. CASE ClosesDown
  BY <1>4, <1>5 DEF ClosesDown, Ends
<1>6. CASE ClosesUp
  BY <1>4, <1>6 DEF ClosesUp, Ends
<1> QED
  BY <1>1, <1>2, <1>3, <1>5, <1>6 DEF Run

(* The copiers: a step is one of these.                                    *)
Quietly(g, place) ==
  /\ Goes(g, place) /\ UNCHANGED <<conn, errCh>> /\ place # "ended"

LEMMA QuietControl ==
  ASSUME Control, NEW g \in Copiers, NEW place \in CopierPlaces, Quietly(g, place),
         pc[g] \notin Writing \cup {"ended", "off"}
  PROVE  Control'
  BY Still DEF Quietly, Copiers, Goroutines

LEMMA ReturnControl ==
  ASSUME Control, NEW g \in Copiers, NEW how \in {"clean", "failed"}, Returns(g, how),
         UNCHANGED conn, pc[g] \notin Writing \/ step[g] = "deadline",
         pc[g] \notin {"ended", "off"}
  PROVE  Control'
  BY Still DEF Returns, Copiers, Goroutines, CopierPlaces

LEMMA ReadsControl ==
  ASSUME Control, NEW g \in Copiers, Reads(g) \/ Replies(g) \/ RefusesText(g)
  PROVE  Control'
<1>1. CASE Ping(g)
  <2> DEFINE c == ReadsFrom(g)
  <2>1. /\ c \in Ends /\ pc[g] = "read" /\ Goes(g, "pong") /\ UNCHANGED errCh
        /\ conn' = [conn EXCEPT ![c].pinged = TRUE]
    BY <1>1 DEF Ping, PingFrame, ReadsFrom, Ends
  <2>2. step[g] # "flush"
    BY <2>1 DEF Control, Writing, Copiers, Goroutines
  <2>3. /\ conn' \in [Ends -> Conn]
        /\ \A d \in Ends : conn'[d].writeMu = conn[d].writeMu
    BY <2>1 DEF Control, Conn
  <2>4. \A d \in Ends : conn[d].writeMu # g
    BY <2>2, HoldsNothing DEF Copiers, Goroutines
  <2>5. /\ g \in Goroutines /\ g # "run" /\ "pong" \in CopierPlaces /\ "pong" # "ended"
        /\ \A d \in Ends : conn'[d].writeMu =
                            IF conn[d].writeMu = g THEN "nobody" ELSE conn[d].writeMu
    BY <2>3, <2>4 DEF Copiers, Goroutines, CopierPlaces
  <2> HIDE DEF c
  <2> QED
    BY <2>1, <2>3, <2>5, Moves
<1>2. CASE Fragment(g)
  <2> DEFINE c == ReadsFrom(g)
             x == [conn[c] EXCEPT !.fragmented = TRUE]
  <2>1. c \in Ends /\ conn' = [conn EXCEPT ![c] = x]
    BY <1>2 DEF Fragment, FirstFragment, ReadsFrom, Ends, Control
  <2>4. conn[c] \in Conn
    BY <2>1 DEF Control
  <2>3. x \in Conn /\ x.writeMu = conn[c].writeMu
    BY <2>4 DEF Conn
  <2> HIDE DEF c, x
  <2>2. conn' \in [Ends -> Conn] /\ \A d \in Ends : conn'[d].writeMu = conn[d].writeMu
    BY <2>1, <2>3, ConnKept
  <2> QED
    BY <1>2, <2>2, Elsewhere DEF Fragment
<1>3. CASE CloseFrame(g)
  BY <1>3, QuietControl DEF CloseFrame, Quietly, CopierPlaces, Writing
<1>4. CASE ReadFails(g)
  BY <1>4, ReturnControl DEF ReadFails, Writing
<1>5. CASE RefusesText(g)
  BY <1>5, ReturnControl DEF RefusesText
<1>6. CASE Ponged(g)
  <2>1. WritesTo(g) = ReadsFrom(g) /\ ReadsFrom(g) \in Ends
    BY <1>6 DEF Ponged, WritesTo, ReadsFrom, Copiers, Ends
  <2> QED
    BY <1>6, <2>1, WriteEnds DEF Ponged, Copiers, Goroutines, CopierPlaces
<1>7. CASE Echoed(g)
  <2>1. WritesTo(g) = ReadsFrom(g) /\ ReadsFrom(g) \in Ends
    BY <1>7 DEF Echoed, WritesTo, ReadsFrom, Copiers, Ends
  <2> QED
    BY <1>7, <2>1, WriteEnds DEF Echoed, Returns, Copiers, Goroutines, CopierPlaces
<1>8. CASE WriteFails(g)
  BY <1>8, WriteEnds, WritesToEnds DEF WriteFails, Returns, Copiers, Goroutines, CopierPlaces
<1> QED
  BY <1>1, <1>2, <1>3, <1>4, <1>5, <1>6, <1>7, <1>8 DEF Reads, Replies

(* A message is complete: the reader goes on with it.                      *)
LEMMA ReadControl ==
  ASSUME Control, NEW g \in Copiers, pc[g] = "read", Goes(g, "translate"),
         LastFragment(ReadsFrom(g)), UNCHANGED errCh
  PROVE  Control'
<1> DEFINE c == ReadsFrom(g)
           x == [conn[c] EXCEPT !.fragmented = FALSE]
<1>1. c \in Ends /\ g \in Goroutines /\ g # "run"
  BY DEF ReadsFrom, Ends, Copiers, Goroutines
<1>2. conn[c] \in Conn
  BY <1>1 DEF Control
<1>3. conn' = [conn EXCEPT ![c] = x]
  BY <1>1 DEF LastFragment, Control
<1>4. x \in Conn /\ x.writeMu = conn[c].writeMu
  BY <1>2 DEF Conn
<1> HIDE DEF c, x
<1>5. conn' \in [Ends -> Conn] /\ \A d \in Ends : conn'[d].writeMu = conn[d].writeMu
  BY <1>1, <1>3, <1>4, ConnKept
<1>6. \A d \in Ends : conn[d].writeMu # g
  BY <1>1, HoldsNothing DEF Control, Writing
<1>7. \A d \in Ends : conn'[d].writeMu = IF conn[d].writeMu = g THEN "nobody" ELSE conn[d].writeMu
  BY <1>5, <1>6
<1> QED
  BY <1>1, <1>5, <1>7, Moves DEF CopierPlaces

LEMMA ClientControl ==
  ASSUME Control, ClientAsks \/ FromClient
  PROVE  Control'
<1> "client" \in Copiers /\ "client" \in Goroutines /\ "client" # "run"
  BY DEF Copiers, Goroutines
<1>1. CASE ClientAsks
  BY <1>1, ReadControl DEF ClientAsks, ReadsFrom
<1>2. CASE ClientRefused
  BY <1>2, ReturnControl DEF ClientRefused, Writing
<1>3. CASE ClientWaits
  BY <1>3, QuietControl DEF ClientWaits, Quietly, CopierPlaces, Writing
<1>4. CASE ClientRetries
  BY <1>4, QuietControl DEF ClientRetries, Quietly, CopierPlaces, Writing
<1>5. CASE ClientCancelled
  BY <1>5, ReturnControl DEF ClientCancelled, Writing
<1>6. CASE ClientTranslated
  BY <1>6, QuietControl DEF ClientTranslated, Quietly, CopierPlaces, Writing
<1>7. CASE Forwarded
  <2>1. WritesTo("client") = "up" /\ "up" \in Ends
    BY <1>7 DEF Forwarded, WritesTo, Ends
  <2>2. pc["client"] = "text" /\ Goes("client", "read") /\ Flush("client", "up") /\ UNCHANGED errCh
    BY <1>7 DEF Forwarded
  <2> QED
    BY <2>1, <2>2, WriteEnds DEF CopierPlaces
<1> QED
  BY <1>1, <1>2, <1>3, <1>4, <1>5, <1>6, <1>7 DEF FromClient

LEMMA GeminiControl ==
  ASSUME Control, GeminiAnswers \/ FromGemini
  PROVE  Control'
<1> "gemini" \in Copiers /\ "gemini" \in Goroutines /\ "gemini" # "run"
  BY DEF Copiers, Goroutines
<1>1. CASE GeminiAnswers
  BY <1>1, ReadControl DEF GeminiAnswers, ReadsFrom
<1>2. CASE GeminiRefused
  BY <1>2, ReturnControl DEF GeminiRefused, Writing
<1>3. CASE GeminiDecoded
  BY <1>3, QuietControl DEF GeminiDecoded, Quietly, CopierPlaces, Writing
<1>4. CASE EncodesEvent
  <2>1. UNCHANGED <<pc, step, errCh, conn>>
    BY <1>4 DEF EncodesEvent
  <2>2. conn' \in [Ends -> Conn] /\ \A c \in Ends : conn'[c].writeMu = conn[c].writeMu
    BY <2>1 DEF Control
  <2> QED
    BY <2>1, <2>2, Elsewhere
<1>5. CASE EncodeFails
  BY <1>5, ReturnControl DEF EncodeFails, Writing
<1>6. CASE Announces
  <2>1. PICK place \in {"read", "text"} : Quietly("gemini", place) /\ pc["gemini"] = "encode"
    BY <1>6 DEF Announces, Quietly
  <2> QED
    BY <2>1, QuietControl DEF CopierPlaces, Writing
<1>7. CASE Passed
  <2>1. WritesTo("gemini") = "down" /\ "down" \in Ends
    BY <1>7 DEF Passed, WritesTo, Ends
  <2>2. PICK place \in {"read", "text"} :
          /\ pc["gemini"] = "text" /\ Goes("gemini", place) /\ Flush("gemini", "down")
          /\ UNCHANGED errCh
    BY <1>7 DEF Passed
  <2> QED
    BY <2>1, <2>2, WriteEnds DEF CopierPlaces
<1> QED
  BY <1>1, <1>2, <1>3, <1>4, <1>5, <1>6, <1>7 DEF FromGemini

LEMMA ControlStarts == Init => Control
<1> SUFFICES ASSUME Init PROVE Control
  OBVIOUS
<1>1. conn \in [Ends -> Conn] /\ \A c \in Ends : conn[c].writeMu = "nobody"
  BY DEF Init, NoConn, Conn, Deadlines
<1>2. /\ step \in [Goroutines -> Steps]
      /\ \A g \in Goroutines : step[g] = "idle"
      /\ pc["run"] = "dial" /\ pc["client"] = "off" /\ pc["gemini"] = "off"
      /\ pc \in [Goroutines -> RunPlaces \cup CopierPlaces]
      /\ errCh = <<>>
  BY DEF Init, Steps, Goroutines, RunPlaces, CopierPlaces
<1>3. Held
  BY <1>1, <1>2 DEF Held, Goroutines
<1> QED
  BY <1>1, <1>2, <1>3 DEF Control, Ended, RunPlaces, CopierPlaces, Copiers, Goroutines, Writing, Early

LEMMA ControlKept == Control /\ [Next]_vars => Control'
<1> SUFFICES ASSUME Control, [Next]_vars PROVE Control'
  OBVIOUS
<1>1. CASE UNCHANGED vars
  BY <1>1 DEF vars, Control, Held, Ended, WritesTo
<1>2. CASE Done
  BY <1>2 DEF Done, vars, Control, Held, Ended, WritesTo
<1> QED
  BY <1>1, <1>2, StartsControl, RunControl, ClientControl, GeminiControl, DeadlineControl,
     LockControl, ReadsControl, OutsideControl DEF Next

-----------------------------------------------------------------------------
(* What the goroutines hold.                                               *)

LEMMA NothingHeld ==
  NoQuestion \in ClientMessage /\ NoAnswer \in ServerMessage
<1>1. NoQuestion \in ClientMessage
  BY DEF NoQuestion, ClientMessage
<1>2. NoAnswer \in ServerMessage
  BY DEF NoAnswer, ServerMessage
<1> QED
  BY <1>1, <1>2

LEMMA ReturnsLocals ==
  ASSUME Locals, NEW g, NEW how, Returns(g, how)
  PROVE  Locals'
BY NothingHeld DEF Locals, Returns

(* What does not touch the messages of either side.                        *)
LEMMA QuietData ==
  ASSUME Data, UNCHANGED <<peers, session, decoder, encoder, attempt, setupReady, heard, shown>>,
         \/ UNCHANGED <<asking, answering, events, outgoing>>
         \/ \E g \in Copiers, how \in {"clean", "failed"} : Returns(g, how)
  PROVE  Data'
<1>1. Locals
  BY DEF Data
<1>2. Locals'
  BY <1>1, ReturnsLocals DEF Locals
<1> QED
  BY <1>2 DEF Data

LEMMA StartsData ==
  ASSUME Data, Starts
  PROVE  Data'
<1>1. UNCHANGED <<peers, session, decoder, encoder, asking, answering, events, outgoing,
                  setupReady, heard, shown>>
  BY DEF Starts, Dialled, DialFails, Accepted, AcceptFails
<1>2. attempt' \in 1 .. peers.targets
  <2>1. attempt \in 1 .. peers.targets /\ peers.targets \in Nat
    BY DEF Data, AllPeers
  <2>2. attempt' = attempt \/ (attempt < peers.targets /\ attempt' = attempt + 1)
    BY DEF Starts, Dialled, DialFails, Accepted, AcceptFails, NextTarget
  <2> QED
    BY <2>1, <2>2
<1> QED
  BY <1>1, <1>2 DEF Data, Locals

LEMMA GreetedData ==
  ASSUME Data, Greeted
  PROVE  Data'
<1>1. shown' \in Shown
  BY DEF Data, Shown, Greeted
<1> QED
  BY <1>1 DEF Data, Locals, Greeted

LEMMA AskedTyped ==
  ASSUME NEW m \in ClientMessage, NEW n \in Nat
  PROVE  [m EXCEPT !.n = n] \in ClientMessage
BY DEF ClientMessage

LEMMA ClientAsksData ==
  ASSUME Data, ClientAsks
  PROVE  Data'
<1>1. shown \in Shown /\ shown.sent + 1 \in Nat
  BY DEF Data, Shown
<1>2. ClientMessages[Rough] \subseteq ClientMessage
  BY DEF Rough
<1>3. asking' \in ClientMessage
  <2>1. PICK m \in ClientMessages[Rough] : asking' = [m EXCEPT !.n = shown.sent + 1]
    BY DEF ClientAsks
  <2> QED
    BY <1>1, <1>2, <2>1, AskedTyped
<1>4. shown' \in Shown
  BY <1>1 DEF ClientAsks, Shown
<1> QED
  BY <1>3, <1>4 DEF Data, Locals, ClientAsks

LEMMA ClientTranslatedData ==
  ASSUME Data, ClientTranslated
  PROVE  Data'
<1>1. session' \in Session
  BY DEF Data, Session, ClientTranslated, Translated
<1> QED
  BY <1>1 DEF Data, Locals, ClientTranslated

LEMMA ReceivedTyped ==
  ASSUME NEW h \in Heard, NEW setup \in BOOLEAN, NEW answered \in SUBSET Calls,
         NEW named \in SUBSET Calls, NEW faults \in SUBSET {"early", "order", "stray"}
  PROVE  [h EXCEPT !.received = @ + 1, !.setup = setup, !.answered = answered,
                   !.named = named, !.faults = faults] \in Heard
<1>1. PICK n \in Nat : n = h.received + 1
  BY DEF Heard
<1>5. PICK a \in Heard : a = [h EXCEPT !.received = n]
  BY DEF Heard
<1>2. PICK b \in Heard : b = [a EXCEPT !.setup = setup]
  BY DEF Heard
<1>3. PICK c \in Heard : c = [b EXCEPT !.answered = answered]
  BY DEF Heard
<1>6. PICK d \in Heard : d = [c EXCEPT !.named = named]
  BY DEF Heard
<1>4. [d EXCEPT !.faults = faults] \in Heard
  BY DEF Heard
<1> QED
  BY <1>1, <1>2, <1>3, <1>4, <1>5, <1>6

LEMMA ForwardedData ==
  ASSUME Data, Forwarded
  PROVE  Data'
<1>1. heard \in Heard /\ asking \in ClientMessage
  BY DEF Data, Locals
<1>2. HeardBlames(asking) \subseteq {"early", "order", "stray"}
  BY DEF HeardBlames
<1>3. Answers(asking) \subseteq Calls /\ {asking.call} \ {NoCall} \subseteq Calls
  BY <1>1 DEF ClientMessage, Answers
<1>4. heard' \in Heard
  <2> DEFINE setup == heard.setup \/ asking.kind = "setup"
             answered == heard.answered \cup Answers(asking)
             named == heard.named \cup ({asking.call} \ {NoCall})
             faults == heard.faults \cup HeardBlames(asking)
  <2>1. setup \in BOOLEAN
    BY <1>1 DEF Heard
  <2>2. answered \in SUBSET Calls /\ named \in SUBSET Calls
    BY <1>1, <1>3 DEF Heard
  <2>4. faults \in SUBSET {"early", "order", "stray"}
    BY <1>1, <1>2 DEF Heard
  <2>3. heard' = [heard EXCEPT !.received = @ + 1, !.setup = setup, !.answered = answered,
                               !.named = named, !.faults = faults]
    BY DEF Forwarded
  <2> HIDE DEF setup, answered, named, faults
  <2> QED
    BY <1>1, <2>1, <2>2, <2>3, <2>4, ReceivedTyped
<1> QED
  BY <1>4, NothingHeld DEF Data, Locals, Forwarded

LEMMA AnsweredTyped ==
  ASSUME NEW m \in ServerMessage, NEW n \in Nat
  PROVE  [m EXCEPT !.piece = n] \in ServerMessage
BY DEF ServerMessage

LEMMA CallsTyped ==
  ASSUME NEW m \in ServerMessage
  PROVE  {m.calls[k] : k \in DOMAIN m.calls} \subseteq Calls
<1>1. m.calls \in Seq(Calls)
  BY DEF ServerMessage
<1> QED
  BY <1>1, ElementOfSeq, LenProperties

LEMMA SentTyped ==
  ASSUME NEW h \in Heard, NEW ready \in BOOLEAN, NEW asked \in SUBSET Calls, NEW pieces \in Nat
  PROVE  [h EXCEPT !.sent = @ + 1, !.ready = ready, !.asked = asked, !.pieces = pieces] \in Heard
<1>1. PICK n \in Nat : n = h.sent + 1
  BY DEF Heard
<1>5. PICK a \in Heard : a = [h EXCEPT !.sent = n]
  BY DEF Heard
<1>2. PICK b \in Heard : b = [a EXCEPT !.ready = ready]
  BY DEF Heard
<1>3. PICK c \in Heard : c = [b EXCEPT !.asked = asked]
  BY DEF Heard
<1>4. [c EXCEPT !.pieces = pieces] \in Heard
  BY DEF Heard
<1> QED
  BY <1>1, <1>2, <1>3, <1>4, <1>5

LEMMA GeminiAnswersData ==
  ASSUME Data, GeminiAnswers
  PROVE  Data'
<1>1. heard \in Heard /\ heard.pieces + 1 \in Nat
  BY DEF Data, Heard
<1>2. GeminiMessages[Rough] \subseteq ServerMessage
  BY DEF Rough
<1>3. PICK m \in GeminiMessages[Rough] :
        /\ answering' = [m EXCEPT !.piece = heard.pieces + 1]
        /\ heard' = [heard EXCEPT !.sent = @ + 1,
                                  !.ready = @ \/ m.type = "setupComplete",
                                  !.asked = @ \cup {m.calls[k] : k \in DOMAIN m.calls},
                                  !.pieces = IF m.media = {} THEN @ ELSE @ + 1]
  BY DEF GeminiAnswers
<1>4. answering' \in ServerMessage
  BY <1>1, <1>2, <1>3, AnsweredTyped
<1>5. {m.calls[k] : k \in DOMAIN m.calls} \subseteq Calls
  BY <1>2, CallsTyped
<1>6. (heard.ready \/ m.type = "setupComplete") \in BOOLEAN
  BY <1>1 DEF Heard
<1>7. heard' \in Heard
  <2> DEFINE ready == heard.ready \/ m.type = "setupComplete"
             asked == heard.asked \cup {m.calls[k] : k \in DOMAIN m.calls}
             pieces == IF m.media = {} THEN heard.pieces ELSE heard.pieces + 1
  <2>1. asked \in SUBSET Calls /\ pieces \in Nat
    BY <1>1, <1>5 DEF Heard
  <2>2. heard' = [heard EXCEPT !.sent = @ + 1, !.ready = ready, !.asked = asked, !.pieces = pieces]
    BY <1>3
  <2> HIDE DEF asked, pieces
  <2> QED
    BY <1>1, <1>6, <2>1, <2>2, SentTyped
<1> QED
  BY <1>4, <1>7 DEF Data, Locals, GeminiAnswers

LEMMA SessionTyped ==
  ASSUME NEW m \in ServerMessage, session \in Session
  PROVE  SessionAfter(m) \in Session
<1>1. {m.calls[k] : k \in DOMAIN m.calls} \subseteq Calls
  BY CallsTyped
<1>2. (session.setupComplete \/ m.type = "setupComplete") \in BOOLEAN
  BY DEF Session
<1> QED
  BY <1>1, <1>2 DEF SessionAfter, Session

LEMMA GeminiRefusedData ==
  ASSUME Data, GeminiRefused
  PROVE  Data'
<1>1. session' \in Session
  BY SessionTyped DEF GeminiRefused, Data, Locals
<1>2. Locals
  BY DEF Data
<1>3. Locals'
  BY <1>2, ReturnsLocals DEF GeminiRefused
<1> QED
  BY <1>1, <1>3 DEF Data, GeminiRefused

(* The calls of a message, and the events that name no others.  A media    *)
(* delta carries a piece of what Gemini says.                              *)
CallsOf(m) == {m.calls[k] : k \in DOMAIN m.calls}

Naming(S) == {e \in Event : e.call \in S \cup {NoCall}}

MediaDelta(e) == e.type = "delta" /\ e.kind # "tool"

Plainly(S) == {e \in Naming(S) : ~MediaDelta(e)}

NoPieces(s) == \A k \in DOMAIN s : ~MediaDelta(s[k])

OnePiece(s, n) ==
  \E k \in DOMAIN s : /\ MediaDelta(s[k]) /\ s[k].piece = n
                      /\ \A j \in DOMAIN s : MediaDelta(s[j]) => j = k

LEMMA SeqGrows ==
  ASSUME NEW A, NEW B, A \subseteq B, NEW s \in Seq(A)
  PROVE  s \in Seq(B)
<1>1. s \in [1 .. Len(s) -> A] /\ Len(s) \in Nat
  BY LenProperties
<1>2. s \in [1 .. Len(s) -> B]
  BY <1>1
<1> QED
  BY <1>1, <1>2

LEMMA PlainlyQuiet ==
  ASSUME NEW S, NEW s \in Seq(Plainly(S))
  PROVE  NoPieces(s) /\ s \in Seq(Naming(S))
<1>1. s \in Seq(Naming(S))
  BY SeqGrows DEF Plainly
<1>2. \A k \in DOMAIN s : s[k] \in Plainly(S)
  BY ElementOfSeq, LenProperties
<1> QED
  BY <1>1, <1>2 DEF Plainly, NoPieces

(* Around one piece there may be as many other events as one likes.        *)
LEMMA PieceAmong ==
  ASSUME NEW a \in Seq(Event), NEW b \in Seq(Event), NEW c \in Seq(Event), NEW n,
         NoPieces(a), OnePiece(b, n), NoPieces(c)
  PROVE  OnePiece(a \o b \o c, n)
<1> DEFINE s == a \o b
           t == s \o c
<1>1. /\ s \in Seq(Event) /\ Len(s) = Len(a) + Len(b)
      /\ \A k \in 1 .. Len(s) : s[k] = IF k <= Len(a) THEN a[k] ELSE b[k - Len(a)]
      /\ Len(a) \in Nat /\ Len(b) \in Nat /\ Len(c) \in Nat
      /\ DOMAIN a = 1 .. Len(a) /\ DOMAIN b = 1 .. Len(b) /\ DOMAIN c = 1 .. Len(c)
  BY ConcatProperties, LenProperties
<1> HIDE DEF s
<1>2. /\ t \in Seq(Event) /\ Len(t) = Len(s) + Len(c) /\ DOMAIN t = 1 .. Len(t)
      /\ \A k \in 1 .. Len(t) : t[k] = IF k <= Len(s) THEN s[k] ELSE c[k - Len(s)]
  BY <1>1, ConcatProperties, LenProperties
<1> HIDE DEF t
<1>3. PICK k \in DOMAIN b : /\ MediaDelta(b[k]) /\ b[k].piece = n
                            /\ \A j \in DOMAIN b : MediaDelta(b[j]) => j = k
  BY DEF OnePiece
<1> DEFINE i == Len(a) + k
<1>4. i \in 1 .. Len(t) /\ t[i] = b[k]
  BY <1>1, <1>2, <1>3
<1>5. \A j \in 1 .. Len(t) : MediaDelta(t[j]) => j = i
  <2> SUFFICES ASSUME NEW j \in 1 .. Len(t), MediaDelta(t[j]) PROVE j = i
    OBVIOUS
  <2>1. CASE j <= Len(a)
    <3>1. t[j] = a[j]
      BY <1>1, <1>2, <2>1
    <3>2. j \in 1 .. Len(a)
      BY <1>1, <1>2, <2>1
    <3>3. ~MediaDelta(a[j])
      BY <1>1, <3>2 DEF NoPieces
    <3> QED
      BY <3>1, <3>3
  <2>2. CASE j > Len(a) /\ j <= Len(s)
    <3>1. j - Len(a) \in 1 .. Len(b) /\ t[j] = b[j - Len(a)]
      BY <1>1, <1>2, <2>2
    <3>2. j - Len(a) = k
      BY <1>1, <1>3, <3>1
    <3> QED
      BY <1>1, <1>3, <3>2
  <2>3. CASE j > Len(s)
    <3>1. j - Len(s) \in 1 .. Len(c) /\ t[j] = c[j - Len(s)]
      BY <1>1, <1>2, <2>3
    <3>2. ~MediaDelta(c[j - Len(s)])
      BY <1>1, <3>1 DEF NoPieces
    <3> QED
      BY <3>1, <3>2
  <2> QED
    BY <1>1, <2>1, <2>2, <2>3
<1> HIDE DEF i
<1>6. OnePiece(t, n)
  BY <1>2, <1>3, <1>4, <1>5 DEF OnePiece
<1> QED
  BY <1>6 DEF t, s

LEMMA PlainTyped ==
  ASSUME NEW S, NEW type \in EventTypes
  PROVE  Plain(type) \in Naming(S) /\ (type # "delta" => Plain(type) \in Plainly(S))
BY DEF Plain, Event, Naming, Plainly, MediaDelta

LEMMA KindTyped ==
  ASSUME NEW S, NEW e \in Naming(S), NEW kind \in ItemKinds
  PROVE  [e EXCEPT !.kind = kind] \in Naming(S)
BY DEF Event, Naming

LEMMA PieceTyped ==
  ASSUME NEW S, NEW e \in Naming(S), NEW piece \in Nat
  PROVE  [e EXCEPT !.piece = piece] \in Naming(S)
BY DEF Event, Naming

LEMMA OpeningTyped == \A S : \A open \in BOOLEAN : Opening(open) \in Seq(Plainly(S))
<1> SUFFICES ASSUME NEW S, NEW open \in BOOLEAN PROVE Opening(open) \in Seq(Plainly(S))
  OBVIOUS
<1>1. Plain("response_start") \in Plainly(S)
  BY PlainTyped DEF EventTypes
<1> QED
  BY <1>1 DEF Opening

LEMMA UsageTyped ==
  ASSUME NEW S, NEW m \in ServerMessage, NEW open \in BOOLEAN
  PROVE  UsageEvents(m, open) \in Seq(Plainly(S))
<1>1. Plain("usage") \in Plainly(S)
  BY PlainTyped DEF EventTypes
<1>2. Opening(open) \in Seq(Plainly(S)) /\ <<Plain("usage")>> \in Seq(Plainly(S))
  BY <1>1, OpeningTyped
<1> HIDE DEF Opening
<1> QED
  BY <1>2, ConcatProperties DEF UsageEvents

LEMMA MediaTyped ==
  ASSUME NEW S, NEW m \in ServerMessage
  PROVE  /\ MediaEvents(m) \in Seq(Naming(S))
         /\ IF m.media = {} THEN MediaEvents(m) = <<>> ELSE OnePiece(MediaEvents(m), m.piece)
<1>1. CASE m.media = {}
  BY <1>1 DEF MediaEvents
<1>2. CASE m.media # {}
  <2>1. PICK kind \in Media : kind = CHOOSE k \in m.media : TRUE
    BY <1>2 DEF ServerMessage
  <2>2. Plain("delta") \in Naming(S) /\ Plain("content_start") \in Naming(S) /\ kind \in ItemKinds
        /\ m.piece \in Nat
    BY PlainTyped DEF EventTypes, ItemKinds, ServerMessage
  <2> DEFINE start == [Plain("content_start") EXCEPT !.kind = kind]
             delta == [Plain("delta") EXCEPT !.kind = kind, !.piece = m.piece]
  <2>3. start \in Naming(S)
    BY <2>2, KindTyped
  <2>4. delta \in Naming(S)
    <3>1. PICK e \in Naming(S) : e = [Plain("delta") EXCEPT !.kind = kind]
      BY <2>2, KindTyped
    <3>2. [e EXCEPT !.piece = m.piece] \in Naming(S)
      BY <2>2, PieceTyped
    <3> QED
      BY <3>1, <3>2
  <2>5. MediaEvents(m) = IF decoder.content = "none" THEN <<start, delta>> ELSE <<delta>>
    BY <1>2, <2>1 DEF MediaEvents
  <2>6. ~MediaDelta(start) /\ MediaDelta(delta) /\ delta.piece = m.piece
    BY DEF Plain, MediaDelta, Media
  <2> HIDE DEF start, delta
  <2>7. MediaEvents(m) \in Seq(Naming(S))
    BY <2>3, <2>4, <2>5
  <2>8. CASE decoder.content = "none"
    <3>1. DOMAIN <<start, delta>> = 1 .. 2 /\ <<start, delta>>[1] = start /\ <<start, delta>>[2] = delta
      OBVIOUS
    <3>2. OnePiece(<<start, delta>>, m.piece)
      BY <2>6, <3>1 DEF OnePiece
    <3> QED
      BY <1>2, <2>5, <2>7, <2>8, <3>2
  <2>9. CASE decoder.content # "none"
    <3>1. DOMAIN <<delta>> = 1 .. 1 /\ <<delta>>[1] = delta
      OBVIOUS
    <3>2. OnePiece(<<delta>>, m.piece)
      BY <2>6, <3>1 DEF OnePiece
    <3> QED
      BY <1>2, <2>5, <2>7, <2>9, <3>2
  <2> QED
    BY <2>8, <2>9
<1> QED
  BY <1>1, <1>2

LEMMA ToolTyped ==
  ASSUME NEW m \in ServerMessage
  PROVE  ToolEvents(m.calls) \in Seq(Plainly(CallsOf(m)))
<1> DEFINE calls == m.calls
           S == CallsOf(m)
           n == 3 * Len(calls)
           s == [k \in 1 .. n |-> CallEvent(calls, k)]
<1>1. calls \in Seq(Calls) /\ n \in Nat /\ DOMAIN calls = 1 .. Len(calls)
  BY LenProperties DEF ServerMessage
<1>2. \A k \in 1 .. n : CallEvent(calls, k) \in Plainly(S)
  <2> SUFFICES ASSUME NEW k \in 1 .. n PROVE CallEvent(calls, k) \in Plainly(S)
    OBVIOUS
  <2>1. PICK type \in EventTypes : type = CASE k % 3 = 1 -> "content_start" [] k % 3 = 2 -> "delta"
                                            [] OTHER -> "content_stop"
    BY DEF EventTypes
  <2>2. (k + 2) \div 3 \in 1 .. Len(calls)
    BY <1>1, LenProperties
  <2>3. PICK call \in Calls : call = calls[(k + 2) \div 3] /\ call \in S
    <3>1. calls[(k + 2) \div 3] \in Calls
      BY <1>1, <2>2, ElementOfSeq
    <3> QED
      BY <1>1, <2>2, <3>1 DEF CallsOf
  <2>4. CallEvent(calls, k) = [Plain(type) EXCEPT !.kind = "tool", !.call = call]
    BY <2>1, <2>3 DEF CallEvent
  <2>5. PICK e \in Event : e = [Plain(type) EXCEPT !.kind = "tool"] /\ e.kind = "tool"
    <3>1. PICK f \in Event : f = Plain(type)
      BY DEF Plain, Event
    <3>2. [f EXCEPT !.kind = "tool"] \in Event /\ [f EXCEPT !.kind = "tool"].kind = "tool"
      BY DEF Event, ItemKinds
    <3> QED
      BY <3>1, <3>2
  <2> DEFINE d == [e EXCEPT !.call = call]
  <2>6. d \in Event /\ d.call = call /\ d.kind = "tool"
    BY <2>3, <2>5 DEF Event
  <2>7. CallEvent(calls, k) = d
    BY <2>4, <2>5
  <2> HIDE DEF d, S
  <2> QED
    BY <2>3, <2>6, <2>7 DEF Plainly, Naming, MediaDelta
<1> HIDE DEF S
<1>3. s \in Seq(Plainly(S))
  BY <1>1, <1>2
<1>4. Plain("response_stop") \in Plainly(S)
  BY PlainTyped DEF EventTypes
<1>5. <<Plain("response_stop")>> \in Seq(Plainly(S))
  BY <1>4
<1>6. ToolEvents(calls) = s \o <<Plain("response_stop")>>
  BY DEF ToolEvents
<1> HIDE DEF s
<1>7. ToolEvents(calls) \in Seq(Plainly(S))
  BY <1>3, <1>5, <1>6, ConcatProperties
<1> QED
  BY <1>7 DEF S

LEMMA EndTyped ==
  ASSUME NEW S, NEW m \in ServerMessage, NEW content \in BOOLEAN
  PROVE  EndEvents(m, content) \in Seq(Plainly(S))
<1> DEFINE stop == IF content THEN <<Plain("content_stop")>> ELSE <<>>
           done == [Plain("response_stop") EXCEPT !.unknown = m.complete = "interrupted"]
<1>1. Plain("content_stop") \in Plainly(S)
  BY PlainTyped DEF EventTypes
<1>2. stop \in Seq(Plainly(S))
  BY <1>1
<1>3. PICK unknown \in BOOLEAN : unknown = (m.complete = "interrupted")
  OBVIOUS
<1>4. done = [type |-> "response_stop", kind |-> "none", call |-> NoCall, piece |-> 0,
              unknown |-> unknown]
  BY <1>3 DEF Plain
<1>5. done \in Plainly(S)
  BY <1>4 DEF Plainly, Naming, Event, EventTypes, MediaDelta
<1>6. EndEvents(m, content) = stop \o <<done>>
  BY DEF EndEvents
<1> HIDE DEF stop, done
<1>7. <<done>> \in Seq(Plainly(S))
  BY <1>5
<1> QED
  BY <1>2, <1>6, <1>7, ConcatProperties

(* What a message says to the client.                                      *)
LEMMA DecodedEvents ==
  ASSUME NEW m \in ServerMessage, decoder \in Decoder
  PROVE  /\ Decoded(m) \in Seq(Naming(CallsOf(m)))
         /\ IF m.media = {} THEN NoPieces(Decoded(m)) ELSE OnePiece(Decoded(m), m.piece)
<1> DEFINE S == CallsOf(m)
           content == decoder.content # "none" \/ m.media # {}
           end == IF EndsTurn(m) THEN EndEvents(m, content) ELSE <<>>
           open == Opening(decoder.open)
           media == MediaEvents(m)
           usage == UsageEvents(m, TRUE)
           more == UsageEvents(m, FALSE)
<1>1. /\ decoder.open \in BOOLEAN
      /\ open \in Seq(Plainly(S)) /\ usage \in Seq(Plainly(S)) /\ media \in Seq(Naming(S))
      /\ ToolEvents(m.calls) \in Seq(Plainly(S))
      /\ more \in Seq(Plainly(S)) /\ UsageEvents(m, decoder.open) \in Seq(Plainly(S))
  BY OpeningTyped, MediaTyped, ToolTyped, UsageTyped DEF Decoder
<1>2. end \in Seq(Plainly(S))
  <2>1. content \in BOOLEAN
    OBVIOUS
  <2> HIDE DEF content
  <2>2. EndEvents(m, content) \in Seq(Plainly(S))
    BY <2>1, EndTyped
  <2>3. CASE EndsTurn(m)
    BY <2>2, <2>3
  <2>4. CASE ~EndsTurn(m)
    BY <2>4
  <2> QED
    BY <2>3, <2>4
<1>3. m.media # {} => m.type = "content" /\ Says(m)
  BY DEF ServerMessage, Says
<1>4. CASE m.type = "toolCall"
  <2>1. Decoded(m) = open \o ToolEvents(m.calls) \o more
    BY <1>4 DEF Decoded
  <2> HIDE DEF open, more, S
  <2>2. Decoded(m) \in Seq(Plainly(S))
    BY <1>1, <2>1, ConcatProperties
  <2> QED
    BY <1>3, <1>4, <2>2, PlainlyQuiet DEF S
<1>5. CASE m.type = "content" /\ Says(m)
  <2>1. Decoded(m) = open \o media \o usage \o end
    BY <1>5 DEF Decoded
  <2> HIDE DEF open, media, usage, end, S
  <2>2. CASE m.media = {}
    <3>1. media = <<>>
      BY <2>2, MediaTyped DEF media
    <3>2. media \in Seq(Plainly(S))
      BY <3>1
    <3>3. Decoded(m) \in Seq(Plainly(S))
      BY <1>1, <1>2, <2>1, <3>2, ConcatProperties
    <3> QED
      BY <2>2, <3>3, PlainlyQuiet DEF S
  <2>3. CASE m.media # {}
    <3>1. OnePiece(media, m.piece)
      BY <2>3, MediaTyped DEF media
    <3> DEFINE after == usage \o end
    <3>2. after \in Seq(Plainly(S))
      BY <1>1, <1>2, ConcatProperties
    <3>3. Plainly(S) \subseteq Event /\ Naming(S) \subseteq Event
      BY DEF Plainly, Naming
    <3>4. /\ open \in Seq(Event) /\ media \in Seq(Event) /\ usage \in Seq(Event)
          /\ end \in Seq(Event) /\ open \o media \in Seq(Event)
      BY <1>1, <1>2, <3>3, SeqGrows, ConcatProperties
    <3>11. \A a, b, c \in Seq(Event) : (a \o b) \o c = a \o (b \o c)
      BY ConcatAssociative
    <3>9. (open \o media) \o usage \o end = (open \o media) \o (usage \o end)
      BY <3>4, <3>11
    <3>10. Decoded(m) = open \o media \o after
      BY <2>1, <3>9
    <3> HIDE DEF after
    <3>5. after \in Seq(Event)
      BY <3>2, <3>3, SeqGrows
    <3>6. NoPieces(open) /\ open \in Seq(Naming(S)) /\ NoPieces(after) /\ after \in Seq(Naming(S))
      BY <1>1, <3>2, PlainlyQuiet
    <3>7. OnePiece(Decoded(m), m.piece)
      BY <3>1, <3>10, <3>4, <3>5, <3>6, PieceAmong
    <3>8. Decoded(m) \in Seq(Naming(S))
      BY <1>1, <3>10, <3>6, ConcatProperties
    <3> QED
      BY <2>3, <3>7, <3>8 DEF S
  <2> QED
    BY <2>2, <2>3
<1>6. CASE m.type # "toolCall" /\ ~(m.type = "content" /\ Says(m))
  <2>1. Decoded(m) = UsageEvents(m, decoder.open)
    BY <1>6 DEF Decoded
  <2> HIDE DEF S
  <2>2. Decoded(m) \in Seq(Plainly(S))
    BY <1>1, <2>1
  <2> QED
    BY <1>3, <1>6, <2>2, PlainlyQuiet DEF S
<1> QED
  BY <1>4, <1>5, <1>6

LEMMA DecodedTyped ==
  ASSUME NEW m \in ServerMessage, decoder \in Decoder
  PROVE  Decoded(m) \in Seq(Event) /\ DecoderAfter(m) \in Decoder
<1>1. Decoded(m) \in Seq(Event)
  <2>1. Naming(CallsOf(m)) \subseteq Event
    BY DEF Naming
  <2> QED
    BY <2>1, DecodedEvents, SeqGrows
<1>2. DecoderAfter(m) \in Decoder
  <2> DEFINE open == CASE m.type = "toolCall" -> m.usage
                       [] EndsTurn(m) -> FALSE
                       [] OTHER -> decoder.open \/ Says(m) \/ m.usage
  <2>1. open \in BOOLEAN
    <3>1. m.usage \in BOOLEAN /\ (m.type = "toolCall" => ~EndsTurn(m))
      BY DEF ServerMessage, EndsTurn
    <3>2. CASE m.type = "toolCall"
      BY <3>1, <3>2
    <3>3. CASE EndsTurn(m)
      BY <3>1, <3>3
    <3>4. CASE m.type # "toolCall" /\ ~EndsTurn(m)
      BY <3>4
    <3> QED
      BY <3>2, <3>3, <3>4
  <2>2. PICK kind \in Media \cup {"none"} :
          kind = IF EndsTurn(m) THEN "none"
                 ELSE IF m.media # {} THEN CHOOSE k \in m.media : TRUE
                 ELSE decoder.content
    BY DEF ServerMessage, Decoder
  <2>3. DecoderAfter(m) = [open |-> open, content |-> kind]
    BY <2>2 DEF DecoderAfter
  <2> HIDE DEF open
  <2> QED
    BY <2>1, <2>3 DEF Decoder
<1> QED
  BY <1>1, <1>2

LEMMA GeminiDecodedData ==
  ASSUME Data, GeminiDecoded
  PROVE  Data'
<1>1. answering \in ServerMessage /\ decoder \in Decoder /\ session \in Session
  BY DEF Data, Locals
<1>2. session' \in Session
  BY <1>1, SessionTyped DEF GeminiDecoded
<1>3. events' \in Seq(Event) /\ decoder' \in Decoder
  BY <1>1, DecodedTyped DEF GeminiDecoded
<1> QED
  BY <1>2, <1>3, NothingHeld DEF Data, Locals, GeminiDecoded

LEMMA EncoderTyped ==
  ASSUME NEW e \in Event, encoder \in Encoder, ~EncoderRefuses(e)
  PROVE  EncoderAfter(e) \in Encoder /\ Encoded(e) \in Seq(Payload)
<1>1. /\ encoder.output \in Seq(ItemKinds) /\ Len(encoder.output) \in Nat
      /\ encoder.item \in ItemKinds \cup {"none"}
  BY LenProperties DEF Encoder
<1>7. EncoderAfter(e) \in Encoder
  <2>1. CASE e.type = "response_start"
    BY <2>1 DEF EncoderAfter, Encoder
  <2>2. CASE e.type = "content_start"
    BY <2>2 DEF EncoderAfter, Encoder, Event
  <2>3. CASE e.type = "content_stop"
    <3>1. encoder.item \in ItemKinds
      BY <1>1, <2>3 DEF EncoderRefuses
    <3>2. PICK output \in Seq(ItemKinds) : output = Append(encoder.output, encoder.item)
      BY <1>1, <3>1, AppendProperties
    <3>3. EncoderAfter(e) = [encoder EXCEPT !.item = "none", !.output = output]
      BY <2>3, <3>2 DEF EncoderAfter
    <3> QED
      BY <3>3 DEF Encoder
  <2>4. CASE e.type = "response_stop"
    BY <2>4 DEF EncoderAfter, Encoder
  <2>5. CASE e.type \notin {"response_start", "content_start", "content_stop", "response_stop"}
    BY <2>5 DEF EncoderAfter
  <2> QED
    BY <2>1, <2>2, <2>3, <2>4, <2>5
<1>8. [event |-> e, at |-> Len(encoder.output), output |-> encoder.output] \in Payload
  BY <1>1 DEF Payload
<1>9. Encoded(e) \in Seq(Payload)
  BY <1>8 DEF Encoded
<1> QED
  BY <1>7, <1>9

LEMMA EncodesEventData ==
  ASSUME Data, EncodesEvent
  PROVE  Data'
<1>1. /\ events \in Seq(Event) /\ events # <<>> /\ encoder \in Encoder
      /\ outgoing \in Seq(Payload)
  BY DEF Data, Locals, EncodesEvent
<1>2. Head(events) \in Event /\ events' \in Seq(Event)
  BY <1>1, HeadTailProperties DEF EncodesEvent
<1>3. encoder' \in Encoder /\ Encoded(Head(events)) \in Seq(Payload)
  BY <1>1, <1>2, EncoderTyped DEF EncodesEvent
<1>4. outgoing' \in Seq(Payload)
  BY <1>1, <1>3, ConcatProperties DEF EncodesEvent
<1> QED
  BY <1>2, <1>3, <1>4 DEF Data, Locals, EncodesEvent

LEMMA ReaderTyped ==
  ASSUME NEW p \in Payload, shown \in Shown
  PROVE  Reader(p) \in Shown
<1> DEFINE live == CASE p.event.type = "response_start" -> TRUE
                     [] p.event.type = "response_stop" -> FALSE
                     [] OTHER -> shown.live
           item == CASE p.event.type = "content_start" -> p.event.kind
                     [] p.event.type = "content_stop" -> "none"
                     [] OTHER -> shown.item
           items == CASE p.event.type = "response_start" -> <<>>
                      [] p.event.type = "content_stop" /\ shown.item # "none" ->
                           Append(shown.items, shown.item)
                      [] OTHER -> shown.items
           pieces == IF Piece(p) THEN p.event.piece ELSE shown.pieces
           calls == shown.calls \cup ({p.event.call} \ {NoCall})
           faults == shown.faults \cup ShownBlames(p)
<1>1. p.event \in Event
  BY DEF Payload
<1>2. live \in BOOLEAN
  BY DEF Shown
<1>3. item \in ItemKinds \cup {"none"}
  BY <1>1 DEF Shown, Event
<1>4. items \in Seq(ItemKinds)
  <2>1. CASE p.event.type = "response_start"
    BY <2>1
  <2>2. CASE p.event.type = "content_stop" /\ shown.item # "none"
    <3>1. shown.items \in Seq(ItemKinds) /\ shown.item \in ItemKinds
      BY <2>2 DEF Shown
    <3>2. items = Append(shown.items, shown.item)
      BY <2>2
    <3> QED
      BY <3>1, <3>2, AppendProperties
  <2>3. CASE p.event.type # "response_start" /\ ~(p.event.type = "content_stop" /\ shown.item # "none")
    BY <2>3 DEF Shown
  <2> QED
    BY <2>1, <2>2, <2>3
<1>5. pieces \in Nat /\ calls \in SUBSET Calls
  BY <1>1 DEF Shown, Event
<1>6. faults \in SUBSET {"early", "order", "stray"}
  BY DEF Shown, ShownBlames
<1>7. Reader(p) = [shown EXCEPT !.live = live, !.item = item, !.items = items, !.pieces = pieces,
                                !.calls = calls, !.faults = faults]
  BY DEF Reader
<1> HIDE DEF live, item, items, pieces, calls, faults
<1>8. PICK a \in Shown : a = [shown EXCEPT !.live = live]
  BY <1>2 DEF Shown
<1>9. PICK b \in Shown : b = [a EXCEPT !.item = item]
  BY <1>3 DEF Shown
<1>10. PICK c \in Shown : c = [b EXCEPT !.items = items]
  BY <1>4 DEF Shown
<1>11. PICK d \in Shown : d = [c EXCEPT !.pieces = pieces]
  BY <1>5 DEF Shown
<1>12. PICK e \in Shown : e = [d EXCEPT !.calls = calls]
  BY <1>5 DEF Shown
<1>13. [e EXCEPT !.faults = faults] \in Shown
  BY <1>6 DEF Shown
<1> QED
  BY <1>7, <1>8, <1>9, <1>10, <1>11, <1>12, <1>13

LEMMA PassedData ==
  ASSUME Data, Passed, outgoing # <<>>
  PROVE  Data'
<1>1. outgoing \in Seq(Payload) /\ shown \in Shown
  BY DEF Data, Locals
<1>2. Head(outgoing) \in Payload /\ outgoing' \in Seq(Payload)
  BY <1>1, HeadTailProperties DEF Passed
<1>3. shown' \in Shown
  BY <1>1, <1>2, ReaderTyped DEF Passed
<1> QED
  BY <1>2, <1>3 DEF Data, Locals, Passed

(* The encoder works on what the decoder made, and only one message of     *)
(* Gemini is on its way at a time.                                         *)
OneAtATime ==
  /\ asking # NoQuestion => pc["client"] \in {"translate", "pending", "text"}
  /\ answering # NoAnswer => pc["gemini"] = "translate"
  /\ events # <<>> => pc["gemini"] = "encode"
  /\ outgoing # <<>> => pc["gemini"] \in {"encode", "text"}
  /\ pc["gemini"] = "text" => outgoing # <<>>

LEMMA OtherStays ==
  ASSUME Control, NEW g \in Goroutines, NEW place, Goes(g, place)
  PROVE  pc'[g] = place /\ \A h \in Goroutines \ {g} : pc'[h] = pc[h]
BY DEF Control, Goes

LEMMA FromClientOne ==
  ASSUME Control, OneAtATime, ClientAsks \/ FromClient
  PROVE  OneAtATime'
<1> "client" \in Goroutines /\ "gemini" \in Goroutines
  BY DEF Goroutines
<1>1. PICK place \in {"translate", "pending", "text", "ended", "read"} :
        /\ Goes("client", place)
        /\ UNCHANGED <<answering, events, outgoing>>
        /\ place \in {"translate", "pending", "text"} \/ asking' = NoQuestion
  BY DEF ClientAsks, FromClient, ClientRefused, ClientWaits, ClientRetries, ClientCancelled,
         ClientTranslated, Forwarded, Returns
<1>2. pc'["client"] = place /\ pc'["gemini"] = pc["gemini"]
  BY <1>1, OtherStays
<1> QED
  BY <1>1, <1>2 DEF OneAtATime

LEMMA FromGeminiOne ==
  ASSUME Control, OneAtATime, GeminiAnswers \/ FromGemini
  PROVE  OneAtATime'
<1> "client" \in Goroutines /\ "gemini" \in Goroutines
  BY DEF Goroutines
<1>1. UNCHANGED asking
  BY DEF GeminiAnswers, FromGemini, GeminiRefused, GeminiDecoded, EncodesEvent, EncodeFails,
         Announces, Passed, Returns
<1>2. CASE EncodesEvent
  BY <1>1, <1>2 DEF EncodesEvent, OneAtATime
<1>3. CASE ~EncodesEvent
  <2>1. PICK place \in {"translate", "encode", "text", "ended", "read"} : Goes("gemini", place)
    BY <1>3 DEF GeminiAnswers, FromGemini, GeminiRefused, GeminiDecoded, EncodeFails,
                Announces, Passed, Returns
  <2>2. pc'["gemini"] = place /\ pc'["client"] = pc["client"]
    BY <2>1, OtherStays
  <2>3. CASE GeminiAnswers
    <3>1. /\ pc["gemini"] = "read" /\ Goes("gemini", "translate")
          /\ UNCHANGED <<events, outgoing>>
      BY <2>3 DEF GeminiAnswers
    <3>2. pc'["gemini"] = "translate"
      BY <3>1, OtherStays
    <3> QED
      BY <1>1, <2>2, <3>1, <3>2 DEF OneAtATime
  <2>4. CASE GeminiRefused \/ EncodeFails
    BY <1>1, <2>2, <2>4, OtherStays DEF GeminiRefused, EncodeFails, Returns, OneAtATime
  <2>5. CASE GeminiDecoded
    BY <1>1, <2>2, <2>5, OtherStays DEF GeminiDecoded, OneAtATime
  <2>6. CASE Announces
    BY <1>1, <2>2, <2>6, OtherStays DEF Announces, OneAtATime
  <2>7. CASE Passed
    BY <1>1, <2>2, <2>7, OtherStays DEF Passed, OneAtATime
  <2> QED
    BY <1>3, <2>3, <2>4, <2>5, <2>6, <2>7 DEF FromGemini
<1> QED
  BY <1>2, <1>3

(* What a copier does in ReadText and in a write that fails.               *)
Copying(g) == Reads(g) \/ Replies(g) \/ RefusesText(g)

(* Such a step keeps everything but the connection, or gives the copier's  *)
(* messages up with the copier.                                            *)
LEMMA CopyingFrame ==
  ASSUME NEW g \in Copiers, Copying(g)
  PROVE  /\ UNCHANGED <<peers, session, decoder, encoder, attempt, setupReady, heard, shown>>
         /\ pc[g] \notin {"off", "ended"}
         /\ \/ \E how \in {"clean", "failed"} : Returns(g, how)
            \/ /\ UNCHANGED <<asking, answering, events, outgoing, errCh>>
               /\ \/ UNCHANGED <<pc, step>>
                  \/ pc[g] = "read" /\ \E place \in {"pong", "echo"} : Goes(g, place)
                  \/ pc[g] = "pong" /\ Goes(g, "read")
  BY DEF Copying, Reads, Replies, RefusesText, Ping, CloseFrame, Fragment, ReadFails, Ponged,
         Echoed, WriteFails

LEMMA CopyingOne ==
  ASSUME Control, OneAtATime, NEW g \in Copiers, Copying(g)
  PROVE  OneAtATime'
<1>1. g \in Goroutines /\ "client" \in Goroutines /\ "gemini" \in Goroutines
  BY DEF Copiers, Goroutines
<1>2. CASE \E how \in {"clean", "failed"} : Returns(g, how)
  <2>1. PICK how \in {"clean", "failed"} : Returns(g, how)
    BY <1>2
  <2>2. pc'[g] = "ended" /\ \A h \in Goroutines \ {g} : pc'[h] = pc[h]
    BY <1>1, <2>1, OtherStays DEF Returns
  <2>3. CASE g = "client"
    BY <1>1, <2>1, <2>2, <2>3 DEF Returns, OneAtATime
  <2>4. CASE g = "gemini"
    BY <1>1, <2>1, <2>2, <2>4 DEF Returns, OneAtATime
  <2> QED
    BY <2>3, <2>4 DEF Copiers
<1>3. CASE /\ UNCHANGED <<asking, answering, events, outgoing>>
           /\ UNCHANGED <<pc, step>>
  BY <1>3 DEF OneAtATime
<1>4. CASE /\ UNCHANGED <<asking, answering, events, outgoing>>
           /\ pc[g] \in {"read", "pong"} /\ \E place \in {"pong", "echo", "read"} : Goes(g, place)
  <2>1. PICK place \in {"pong", "echo", "read"} : Goes(g, place)
    BY <1>4
  <2>2. pc'[g] = place /\ \A h \in Goroutines \ {g} : pc'[h] = pc[h]
    BY <1>1, <2>1, OtherStays
  <2>3. CASE g = "client"
    BY <1>1, <1>4, <2>2, <2>3 DEF OneAtATime
  <2>4. CASE g = "gemini"
    BY <1>1, <1>4, <2>2, <2>4 DEF OneAtATime
  <2> QED
    BY <2>3, <2>4 DEF Copiers
<1> QED
  BY <1>2, <1>3, <1>4, CopyingFrame

(* The actions of runSession, of the mutexes, of the peers and the clock   *)
(* touch no message; only Greeted moves the copiers.                       *)
Elsewise ==
  \/ Starts \/ Run \/ Outside \/ \E c \in Ends : Clock(c)
  \/ \E g \in Goroutines : AppliesDeadline(g) \/ Locks(g)

LEMMA ElsewiseFrame ==
  ASSUME Elsewise
  PROVE  /\ UNCHANGED <<peers, session, decoder, encoder, asking, answering, events, outgoing,
                        setupReady, heard, errCh>>
         /\ \/ Greeted
            \/ UNCHANGED shown /\ (UNCHANGED pc \/ \E place : Goes("run", place))
<1>1. CASE Starts
  BY <1>1 DEF Starts, Dialled, DialFails, Accepted, AcceptFails, NextTarget
<1>2. CASE Run
  BY <1>2 DEF Run, Greeted, GreetFails, Ending, Reported, ClosesDown, ClosesUp, Closes
<1>3. CASE Outside \/ \E c \in Ends : Clock(c)
  BY <1>3 DEF Outside, Clock
<1>4. CASE \E g \in Goroutines : AppliesDeadline(g) \/ Locks(g)
  BY <1>4 DEF AppliesDeadline, Locks
<1> QED
  BY <1>1, <1>2, <1>3, <1>4 DEF Elsewise

(* They leave the copiers where they are, or start them.                   *)
LEMMA ElsewiseCopiers ==
  ASSUME Control, Elsewise
  PROVE  \/ Greeted /\ \A g \in Copiers : pc[g] = "off" /\ pc'[g] = "read"
         \/ ~Greeted /\ UNCHANGED shown /\ \A g \in Copiers : pc'[g] = pc[g]
<1>1. CASE Greeted
  BY <1>1 DEF Greeted, Control, Early, Copiers, Goroutines
<1>2. CASE ~Greeted
  BY <1>2, ElsewiseFrame DEF Goes, Control, Copiers, Goroutines
<1> QED
  BY <1>1, <1>2

LEMMA ElsewiseOne ==
  ASSUME Control, OneAtATime, Elsewise
  PROVE  OneAtATime'
<1>1. UNCHANGED <<asking, answering, events, outgoing>>
  BY ElsewiseFrame
<1>2. \/ pc'["client"] = pc["client"] /\ pc'["gemini"] = pc["gemini"]
      \/ pc["client"] = "off" /\ pc["gemini"] = "off" /\ pc'["client"] = "read" /\ pc'["gemini"] = "read"
  BY ElsewiseCopiers DEF Copiers
<1> QED
  BY <1>1, <1>2 DEF OneAtATime

LEMMA ElsewiseData ==
  ASSUME Data, Elsewise
  PROVE  Data'
<1>1. CASE Starts
  BY <1>1, StartsData
<1>2. CASE Greeted
  BY <1>2, GreetedData
<1>3. CASE ~Starts /\ ~Greeted
  <2>1. UNCHANGED <<peers, session, decoder, encoder, attempt, asking, answering, events, outgoing,
                    setupReady, heard, shown>>
    BY <1>3 DEF Elsewise, Run, GreetFails, Ending, Reported, ClosesDown, ClosesUp, Closes,
                Outside, Clock, AppliesDeadline, Locks
  <2> QED
    BY <2>1, QuietData
<1> QED
  BY <1>1, <1>2, <1>3

LEMMA FromClientData ==
  ASSUME Data, ClientAsks \/ FromClient
  PROVE  Data'
<1>1. CASE ClientRefused \/ ClientWaits \/ ClientRetries \/ ClientCancelled
  BY <1>1, QuietData DEF ClientRefused, ClientWaits, ClientRetries, ClientCancelled, Copiers
<1> QED
  BY <1>1, ClientAsksData, ClientTranslatedData, ForwardedData DEF FromClient

LEMMA FromGeminiData ==
  ASSUME Data, OneAtATime, GeminiAnswers \/ FromGemini
  PROVE  Data'
<1>1. CASE EncodeFails
  BY <1>1, QuietData DEF EncodeFails, Copiers
<1>2. CASE Announces
  BY <1>2 DEF Announces, Data, Locals, Session
<1>3. CASE Passed
  BY <1>3, PassedData DEF OneAtATime, Passed
<1> QED
  BY <1>1, <1>2, <1>3, GeminiAnswersData, GeminiRefusedData, GeminiDecodedData, EncodesEventData
     DEF FromGemini

-----------------------------------------------------------------------------
(* The first theorem.                                                      *)

Base == Control /\ Data /\ OneAtATime

LEMMA NextSplits ==
  [Next]_vars <=>
    \/ Elsewise \/ ClientAsks \/ FromClient \/ GeminiAnswers \/ FromGemini
    \/ \E g \in Copiers : Copying(g)
    \/ Done \/ UNCHANGED vars
BY DEF Next, Elsewise, Copying

LEMMA DataStarts == Init => Data /\ OneAtATime
<1> SUFFICES ASSUME Init PROVE Data /\ OneAtATime
  OBVIOUS
<1>1. session \in Session /\ decoder \in Decoder /\ encoder \in Encoder
  BY DEF Init, InitSession, Session, Decoder, Encoder
<1>2. heard \in Heard
  BY DEF Init, Heard
<1>3. shown \in Shown
  BY DEF Init, Shown
<1>4. attempt \in 1 .. peers.targets
  BY DEF Init, AllPeers
<1>5. OneAtATime
  BY DEF Init, OneAtATime, Goroutines
<1>6. Locals
  BY NothingHeld DEF Init, Locals
<1>7. peers \in Peers /\ setupReady \in BOOLEAN
  BY DEF Init
<1>8. Data
  BY <1>1, <1>2, <1>3, <1>4, <1>6, <1>7 DEF Data
<1> QED
  BY <1>5, <1>8

LEMMA BaseKept == Base /\ [Next]_vars => Base'
<1> SUFFICES ASSUME Base, [Next]_vars PROVE Base'
  OBVIOUS
<1>1. Control'
  BY ControlKept DEF Base
<1>2. CASE Elsewise
  BY <1>1, <1>2, ElsewiseData, ElsewiseOne DEF Base
<1>3. CASE ClientAsks \/ FromClient
  BY <1>1, <1>3, FromClientData, FromClientOne DEF Base
<1>4. CASE GeminiAnswers \/ FromGemini
  BY <1>1, <1>4, FromGeminiData, FromGeminiOne DEF Base
<1>5. ASSUME NEW g \in Copiers, Copying(g)
      PROVE  Base'
  BY <1>1, <1>5, CopyingFrame, CopyingOne, QuietData DEF Base
<1>6. CASE Done \/ UNCHANGED vars
  BY <1>1, <1>6 DEF Done, vars, Base, Data, Locals, OneAtATime
<1> QED
  BY <1>2, <1>3, <1>4, <1>5, <1>6, NextSplits

LEMMA BaseHolds == Spec => []Base
<1>1. Init => Base
  BY ControlStarts, DataStarts DEF Base
<1> QED
  BY <1>1, BaseKept, PTL DEF Spec

(* The session's structures keep their shapes, whatever the peers send,    *)
(* and a goroutine holds the writer of a connection exactly while it       *)
(* writes a frame to it.                                                   *)
THEOREM TypeCorrect == Spec => []TypeOK
<1>1. Base => TypeOK
  <2>1. Control => Len(errCh) <= 2
    BY DEF Control, Ended
  <2> QED
    BY <2>1, TypeSplits DEF Base, Control
<1> QED
  BY <1>1, BaseHolds, PTL

-----------------------------------------------------------------------------
(* What Gemini reads: its setup, then nothing before it is ready, and then *)
(* the client's messages one after the other.                              *)

Waiting == pc["client"] \in {"translate", "pending", "text"}

Questions ==
  /\ pc["client"] # "ended" => shown.sent = heard.received + (IF Waiting THEN 1 ELSE 0)
  /\ Waiting => asking.n = shown.sent
  /\ session.setupComplete \/ answering.type = "setupComplete" => heard.ready
  /\ heard.setup => session.setupSent
  /\ pc["client"] = "text" =>
       IF asking.kind = "setup" THEN session.setupSent /\ ~heard.setup ELSE heard.ready

(* The calls: those the session knows, the one the message being written   *)
(* carries, those that Gemini's messages have named, and those of the      *)
(* message in hand.                                                        *)
Taken == IF pc["client"] = "text" THEN {asking.call} \ {NoCall} ELSE {}

CallsApart ==
  /\ session.toolCalls \cup Taken \cup heard.named \cup CallsOf(answering) \subseteq heard.asked
  /\ session.toolCalls \cap Taken = {}
  /\ (session.toolCalls \cup Taken) \cap heard.named = {}
  /\ (session.toolCalls \cup Taken \cup heard.named) \cap CallsOf(answering) = {}
  /\ heard.answered \subseteq heard.named

Dialogue == Questions /\ CallsApart /\ heard.faults = {}

LEMMA NoAnswerCalls == CallsOf(NoAnswer) = {} /\ NoAnswer.type = "foreign"
BY DEF CallsOf, NoAnswer

LEMMA ForwardedHeard ==
  ASSUME Data, Forwarded
  PROVE  /\ heard'.received = heard.received + 1
         /\ heard'.setup = (heard.setup \/ asking.kind = "setup")
         /\ heard'.answered = heard.answered \cup Answers(asking)
         /\ heard'.named = heard.named \cup ({asking.call} \ {NoCall})
         /\ heard'.faults = heard.faults \cup HeardBlames(asking)
         /\ heard'.ready = heard.ready /\ heard'.asked = heard.asked
BY DEF Data, Heard, Forwarded

(* A message is let through after a check of what came before it.          *)
LEMMA LetThrough ==
  ASSUME Data, Questions, ClientTranslated
  PROVE  /\ IF asking.kind = "setup" THEN ~heard.setup ELSE heard.ready
         /\ asking.call = NoCall \/ asking.call \in session.toolCalls
         /\ session' = [session EXCEPT !.setupSent = @ \/ asking.kind = "setup",
                                       !.toolCalls = @ \ {asking.call}]
<1>1. asking \in ClientMessage /\ session \in Session
  BY DEF Data, Locals
<1>2. ~Refused(asking) /\ ~Pending(asking)
  BY DEF ClientTranslated
<1>3. IF asking.kind = "setup" THEN ~heard.setup ELSE heard.ready
  BY <1>1, <1>2 DEF Refused, Pending, Unknown, Questions
<1>4. asking.call = NoCall \/ asking.call \in session.toolCalls
  BY <1>1, <1>2 DEF Refused, Unknown, ClientMessage
<1> QED
  BY <1>3, <1>4 DEF ClientTranslated, Translated

LEMMA ClientQuestions ==
  ASSUME Base, Questions, ClientAsks \/ FromClient
  PROVE  Questions'
<1> "client" \in Goroutines /\ Control /\ Data /\ shown \in Shown /\ heard \in Heard
  BY DEF Goroutines, Base, Data
<1>1. CASE ClientAsks
  <2>1. /\ pc["client"] = "read" /\ Goes("client", "translate")
        /\ UNCHANGED <<session, answering, heard>>
        /\ shown' = [shown EXCEPT !.sent = @ + 1]
    BY <1>1 DEF ClientAsks
  <2>2. pc'["client"] = "translate"
    BY <2>1, OtherStays
  <2>3. shown'.sent = shown.sent + 1
    BY <2>1 DEF Shown
  <2>4. asking'.n = shown.sent + 1
    <3>1. PICK m \in ClientMessages[Rough] : asking' = [m EXCEPT !.n = shown.sent + 1]
      BY <1>1 DEF ClientAsks
    <3>2. m \in ClientMessage
      BY <3>1 DEF Rough
    <3> QED
      BY <3>1, <3>2 DEF ClientMessage
  <2>5. shown.sent = heard.received /\ heard.received \in Nat
    BY <2>1 DEF Questions, Waiting, Heard, Shown
  <2> QED
    BY <2>1, <2>2, <2>3, <2>4, <2>5 DEF Questions, Waiting
<1>2. CASE ClientRefused \/ ClientCancelled
  <2>1. Goes("client", "ended") /\ UNCHANGED <<session, answering, heard, shown>>
    BY <1>2 DEF ClientRefused, ClientCancelled, Returns
  <2>2. pc'["client"] = "ended"
    BY <2>1, OtherStays
  <2> QED
    BY <2>1, <2>2 DEF Questions, Waiting
<1>3. CASE ClientWaits \/ ClientRetries
  <2>1. PICK place \in {"pending", "translate"} :
          /\ Goes("client", place) /\ UNCHANGED <<session, answering, heard, shown, asking>>
          /\ Waiting
    BY <1>3 DEF ClientWaits, ClientRetries, Waiting
  <2>2. pc'["client"] = place
    BY <2>1, OtherStays
  <2> QED
    BY <2>1, <2>2 DEF Questions, Waiting
<1>4. CASE ClientTranslated
  <2>1. /\ pc["client"] = "translate" /\ Goes("client", "text")
        /\ UNCHANGED <<answering, heard, shown, asking>>
    BY <1>4 DEF ClientTranslated
  <2>2. pc'["client"] = "text"
    BY <2>1, OtherStays
  <2>3. /\ IF asking.kind = "setup" THEN ~heard.setup ELSE heard.ready
        /\ session'.setupSent = (session.setupSent \/ asking.kind = "setup")
        /\ session'.setupComplete = session.setupComplete
    BY <1>4, LetThrough DEF Session, Data
  <2> QED
    BY <2>1, <2>2, <2>3 DEF Questions, Waiting
<1>5. CASE Forwarded
  <2>1. /\ pc["client"] = "text" /\ Goes("client", "read")
        /\ UNCHANGED <<session, answering, shown>>
    BY <1>5 DEF Forwarded
  <2>2. pc'["client"] = "read"
    BY <2>1, OtherStays
  <2>3. /\ heard'.received = heard.received + 1 /\ heard'.ready = heard.ready
        /\ heard'.setup = (heard.setup \/ asking.kind = "setup")
    BY <1>5, ForwardedHeard
  <2>4. shown.sent = heard.received + 1
    BY <2>1 DEF Questions, Waiting
  <2>5. heard'.setup => session.setupSent
    BY <2>1, <2>3 DEF Questions
  <2>6. heard.received \in Nat
    BY DEF Heard
  <2> QED
    BY <2>1, <2>2, <2>3, <2>4, <2>5, <2>6 DEF Questions, Waiting
<1> QED
  BY <1>1, <1>2, <1>3, <1>4, <1>5 DEF FromClient

LEMMA ClientCalls ==
  ASSUME Base, Questions, CallsApart, ClientAsks \/ FromClient
  PROVE  CallsApart'
<1> "client" \in Goroutines /\ Control /\ Data
  BY DEF Goroutines, Base
<1>1. CASE ClientTranslated
  <2>1. /\ pc["client"] = "translate" /\ Goes("client", "text")
        /\ UNCHANGED <<answering, heard, asking>>
    BY <1>1 DEF ClientTranslated
  <2>2. Taken = {} /\ Taken' = {asking.call} \ {NoCall}
    BY <2>1, OtherStays DEF Taken
  <2>3. /\ asking.call = NoCall \/ asking.call \in session.toolCalls
        /\ session'.toolCalls = session.toolCalls \ {asking.call}
    BY <1>1, LetThrough DEF Session, Data
  <2>4. CallsOf(answering)' = CallsOf(answering)
    BY <2>1
  <2> HIDE DEF Taken
  <2> QED
    BY <2>1, <2>2, <2>3, <2>4 DEF CallsApart
<1>2. CASE Forwarded
  <2>1. /\ pc["client"] = "text" /\ Goes("client", "read")
        /\ UNCHANGED <<answering, session>>
    BY <1>2 DEF Forwarded
  <2>2. Taken = {asking.call} \ {NoCall} /\ Taken' = {}
    BY <2>1, OtherStays DEF Taken
  <2>3. /\ heard'.named = heard.named \cup Taken /\ heard'.asked = heard.asked
        /\ heard'.answered = heard.answered \cup Answers(asking)
    BY <1>2, <2>2, ForwardedHeard
  <2>5. Answers(asking) \subseteq Taken
    BY <2>2, CallIds DEF Answers, ClientMessage, Data, Locals
  <2>4. CallsOf(answering)' = CallsOf(answering)
    BY <2>1
  <2> HIDE DEF Taken
  <2> QED
    BY <2>1, <2>2, <2>3, <2>4, <2>5 DEF CallsApart
<1>3. CASE ~ClientTranslated /\ ~Forwarded
  <2>1. PICK place \in {"translate", "pending", "ended"} :
          Goes("client", place) /\ UNCHANGED <<answering, session, heard>>
    BY <1>3 DEF ClientAsks, FromClient, ClientRefused, ClientWaits, ClientRetries,
                ClientCancelled, Returns
  <2>2. Taken' = {}
    BY <2>1, OtherStays DEF Taken
  <2>3. CallsOf(answering)' = CallsOf(answering)
    BY <2>1
  <2> QED
    BY <2>1, <2>2, <2>3 DEF CallsApart
<1> QED
  BY <1>1, <1>2, <1>3

LEMMA ClientFaults ==
  ASSUME Base, Dialogue, ClientAsks \/ FromClient
  PROVE  heard'.faults = {}
<1>1. CASE Forwarded
  <2>1. pc["client"] = "text" /\ heard.received \in Nat /\ asking \in ClientMessage
    BY <1>1 DEF Forwarded, Base, Data, Heard, Locals
  <2>2. asking.n = heard.received + 1
    BY <2>1 DEF Dialogue, Questions, Waiting
  <2>3. /\ asking.kind # "setup" => heard.ready
        /\ asking.kind = "setup" => ~heard.setup
    BY <2>1 DEF Dialogue, Questions
  <2>4. asking.kind = "result" => asking.call \in heard.asked \ heard.answered
    <3>1. asking.kind = "result" => asking.call \in Taken
      BY <2>1 DEF Taken, ClientMessage
    <3> QED
      BY <3>1 DEF Dialogue, CallsApart
  <2>5. HeardBlames(asking) = {}
    BY <2>2, <2>3, <2>4 DEF HeardBlames
  <2> QED
    BY <1>1, <2>5, ForwardedHeard DEF Base, Dialogue
<1>2. CASE ~Forwarded
  BY <1>2 DEF Dialogue, ClientAsks, FromClient, ClientRefused, ClientWaits, ClientRetries,
              ClientCancelled, ClientTranslated
<1> QED
  BY <1>1, <1>2

(* Gemini's steps leave the client's copier alone.                         *)
LEMMA GeminiFrame ==
  ASSUME Control, GeminiAnswers \/ FromGemini
  PROVE  pc'["client"] = pc["client"] /\ UNCHANGED asking
<1>1. EncodesEvent \/ \E place : Goes("gemini", place)
  BY DEF GeminiAnswers, FromGemini, GeminiRefused, GeminiDecoded, EncodeFails, Announces, Passed,
         Returns
<1>2. pc'["client"] = pc["client"]
  BY <1>1, OtherStays DEF EncodesEvent, Goroutines
<1>3. UNCHANGED asking
  BY DEF GeminiAnswers, FromGemini, GeminiRefused, GeminiDecoded, EncodesEvent, EncodeFails,
         Announces, Passed, Returns
<1> QED
  BY <1>2, <1>3

LEMMA AnswersHeard ==
  ASSUME Data, GeminiAnswers
  PROVE  \E m \in ServerMessage :
           /\ Fresh(m) /\ CallsOf(answering)' = CallsOf(m) /\ answering'.type = m.type
           /\ answering'.media = m.media /\ answering'.piece = heard.pieces + 1
           /\ heard'.ready = (heard.ready \/ m.type = "setupComplete")
           /\ heard'.asked = heard.asked \cup CallsOf(m)
           /\ heard'.pieces = IF m.media = {} THEN heard.pieces ELSE heard.pieces + 1
           /\ heard'.received = heard.received /\ heard'.setup = heard.setup
           /\ heard'.answered = heard.answered /\ heard'.named = heard.named
           /\ heard'.faults = heard.faults
<1>1. heard \in Heard
  BY DEF Data
<1>2. PICK m \in GeminiMessages[Rough] :
        /\ Fresh(m)
        /\ answering' = [m EXCEPT !.piece = heard.pieces + 1]
        /\ heard' = [heard EXCEPT !.sent = @ + 1,
                                  !.ready = @ \/ m.type = "setupComplete",
                                  !.asked = @ \cup {m.calls[k] : k \in DOMAIN m.calls},
                                  !.pieces = IF m.media = {} THEN @ ELSE @ + 1]
  BY DEF GeminiAnswers
<1>3. m \in ServerMessage
  BY <1>2 DEF Rough
<1>4. /\ answering'.calls = m.calls /\ answering'.type = m.type /\ answering'.media = m.media
      /\ answering'.piece = heard.pieces + 1
  BY <1>2, <1>3 DEF ServerMessage
<1>5. CallsOf(answering)' = CallsOf(m)
  BY <1>4 DEF CallsOf
<1>6. /\ heard'.ready = (heard.ready \/ m.type = "setupComplete")
      /\ heard'.asked = heard.asked \cup CallsOf(m)
      /\ heard'.pieces = IF m.media = {} THEN heard.pieces ELSE heard.pieces + 1
      /\ heard'.received = heard.received /\ heard'.setup = heard.setup
      /\ heard'.answered = heard.answered /\ heard'.named = heard.named
      /\ heard'.faults = heard.faults
  BY <1>1, <1>2 DEF Heard, CallsOf
<1> QED
  BY <1>2, <1>3, <1>4, <1>5, <1>6

(* The session takes up what a message announces.                          *)
LEMMA SessionTakes ==
  ASSUME Data, GeminiRefused \/ GeminiDecoded
  PROVE  /\ answering' = NoAnswer /\ UNCHANGED <<heard, shown>>
         /\ session'.setupSent = session.setupSent
         /\ session'.setupComplete => session.setupComplete \/ answering.type = "setupComplete"
         /\ session.toolCalls \subseteq session'.toolCalls
         /\ session'.toolCalls \subseteq session.toolCalls \cup CallsOf(answering)
         /\ GeminiDecoded => session'.toolCalls = session.toolCalls \cup CallsOf(answering)
<1>1. session \in Session
  BY DEF Data
<1>2. /\ SessionAfter(answering).setupSent = session.setupSent
      /\ SessionAfter(answering).setupComplete =
           (session.setupComplete \/ answering.type = "setupComplete")
      /\ SessionAfter(answering).toolCalls = session.toolCalls \cup CallsOf(answering)
  BY <1>1 DEF SessionAfter, Session, CallsOf
<1>3. session' = session \/ session' = SessionAfter(answering)
  BY DEF GeminiRefused, GeminiDecoded
<1>4. answering' = NoAnswer /\ UNCHANGED <<heard, shown>>
  BY DEF GeminiRefused, GeminiDecoded, Returns
<1>5. GeminiDecoded => session' = SessionAfter(answering)
  BY DEF GeminiDecoded
<1> QED
  BY <1>2, <1>3, <1>4, <1>5

LEMMA GeminiDialogue ==
  ASSUME Base, Dialogue, GeminiAnswers \/ FromGemini
  PROVE  Dialogue'
<1> Control /\ Data /\ Questions /\ CallsApart
  BY DEF Base, Dialogue
<1>1. pc'["client"] = pc["client"] /\ UNCHANGED asking
  BY GeminiFrame
<1>2. Waiting' = Waiting /\ Taken' = Taken
  BY <1>1 DEF Waiting, Taken
<1>3. CASE GeminiAnswers
  <2>1. PICK m \in ServerMessage :
          /\ Fresh(m) /\ CallsOf(answering)' = CallsOf(m) /\ answering'.type = m.type
          /\ heard'.ready = (heard.ready \/ m.type = "setupComplete")
          /\ heard'.asked = heard.asked \cup CallsOf(m)
          /\ heard'.received = heard.received /\ heard'.setup = heard.setup
          /\ heard'.answered = heard.answered /\ heard'.named = heard.named
          /\ heard'.faults = heard.faults
    BY <1>3, AnswersHeard
  <2>2. UNCHANGED <<session, shown>>
    BY <1>3 DEF GeminiAnswers
  <2>3. CallsOf(m) \cap heard.asked = {}
    BY <2>1 DEF Fresh, CallsOf
  <2>4. Questions'
    BY <1>1, <1>2, <2>1, <2>2 DEF Questions
  <2>5. CallsApart'
    BY <1>2, <2>1, <2>2, <2>3 DEF CallsApart
  <2> QED
    BY <2>1, <2>4, <2>5 DEF Dialogue
<1>4. CASE GeminiRefused \/ GeminiDecoded
  <2>1. /\ answering' = NoAnswer /\ UNCHANGED <<heard, shown>>
        /\ session'.setupSent = session.setupSent
        /\ session'.setupComplete => session.setupComplete \/ answering.type = "setupComplete"
        /\ session.toolCalls \subseteq session'.toolCalls
        /\ session'.toolCalls \subseteq session.toolCalls \cup CallsOf(answering)
    BY <1>4, SessionTakes
  <2>2. CallsOf(answering)' = {} /\ answering'.type # "setupComplete"
    BY <2>1, NoAnswerCalls
  <2>3. Questions'
    BY <1>1, <1>2, <2>1, <2>2 DEF Questions
  <2>4. CallsApart'
    <3>1. session'.toolCalls \cap Taken' = {}
      BY <1>2, <2>1 DEF CallsApart
    <3>2. (session'.toolCalls \cup Taken') \cap heard'.named = {}
      BY <1>2, <2>1 DEF CallsApart
    <3>3. session'.toolCalls \cup Taken' \cup heard'.named \subseteq heard'.asked
      BY <1>2, <2>1 DEF CallsApart
    <3>4. heard'.answered \subseteq heard'.named
      BY <2>1 DEF CallsApart
    <3> QED
      BY <2>2, <3>1, <3>2, <3>3, <3>4 DEF CallsApart
  <2> QED
    BY <2>1, <2>3, <2>4 DEF Dialogue
<1>5. CASE EncodesEvent \/ EncodeFails \/ Announces \/ Passed
  <2>1. UNCHANGED <<session, heard>> /\ (answering' = answering \/ answering' = NoAnswer)
    BY <1>5 DEF EncodesEvent, EncodeFails, Announces, Passed, Returns
  <2>2. shown'.sent = shown.sent
    <3>1. CASE Passed
      BY <3>1 DEF Passed, Reader, Data, Shown
    <3>2. CASE ~Passed
      BY <1>5, <3>2 DEF EncodesEvent, EncodeFails, Announces
    <3> QED
      BY <3>1, <3>2
  <2>3. CallsOf(answering)' \subseteq CallsOf(answering)
    BY <2>1, NoAnswerCalls
  <2>4. answering'.type = "setupComplete" => answering.type = "setupComplete"
    BY <2>1, NoAnswerCalls
  <2>5. Questions'
    BY <1>1, <1>2, <2>1, <2>2, <2>4 DEF Questions
  <2>6. CallsApart'
    BY <1>2, <2>1, <2>3 DEF CallsApart
  <2> QED
    BY <2>1, <2>5, <2>6 DEF Dialogue
<1> QED
  BY <1>3, <1>4, <1>5 DEF FromGemini

LEMMA CopyingDialogue ==
  ASSUME Base, Dialogue, NEW g \in Copiers, Copying(g)
  PROVE  Dialogue'
<1> Control /\ Questions /\ CallsApart
  BY DEF Base, Dialogue
<1>1. UNCHANGED <<session, heard, shown>>
  BY CopyingFrame
<1>2. /\ asking' = asking \/ (g = "client" /\ pc'["client"] = "ended")
      /\ answering' = answering \/ answering' = NoAnswer
  <2>1. CASE \E how \in {"clean", "failed"} : Returns(g, how)
    BY <2>1, OtherStays DEF Returns, Copiers, Goroutines
  <2>2. CASE UNCHANGED <<asking, answering>>
    BY <2>2
  <2> QED
    BY <2>1, <2>2, CopyingFrame
<1>3. \/ pc'["client"] = pc["client"] \/ pc'["client"] = "ended"
      \/ pc["client"] \in {"read", "pong"} /\ pc'["client"] \in {"read", "pong", "echo"}
  <2>1. CASE UNCHANGED pc
    BY <2>1
  <2>2. CASE \E place : Goes(g, place) /\ place = "ended"
    BY <2>2, OtherStays DEF Copiers, Goroutines
  <2>3. CASE pc[g] \in {"read", "pong"} /\ \E place \in {"read", "pong", "echo"} : Goes(g, place)
    BY <2>3, OtherStays DEF Copiers, Goroutines
  <2> QED
    BY <2>1, <2>2, <2>3, CopyingFrame DEF Returns
<1>4. CallsOf(answering)' \subseteq CallsOf(answering)
  BY <1>2, NoAnswerCalls
<1>5. answering'.type = "setupComplete" => answering.type = "setupComplete"
  BY <1>2, NoAnswerCalls
<1>6. Taken' \subseteq Taken
  BY <1>2, <1>3 DEF Taken
<1>7. CallsApart'
  BY <1>1, <1>4, <1>6 DEF CallsApart
<1>8. CASE pc'["client"] = "ended"
  <2>1. Questions'
    BY <1>1, <1>5, <1>8 DEF Questions, Waiting
  <2> QED
    BY <1>1, <1>7, <2>1 DEF Dialogue
<1>9. CASE pc'["client"] # "ended"
  <2>1. asking' = asking
    BY <1>2, <1>9
  <2>2. Waiting' = Waiting /\ (pc'["client"] = "text" <=> pc["client"] = "text")
        /\ pc["client"] # "ended"
    BY <1>3, <1>9 DEF Waiting
  <2>3. Questions'
    BY <1>1, <1>5, <1>9, <2>1, <2>2 DEF Questions
  <2> QED
    BY <1>1, <1>7, <2>3 DEF Dialogue
<1> QED
  BY <1>8, <1>9

LEMMA ElsewiseDialogue ==
  ASSUME Base, Dialogue, Elsewise
  PROVE  Dialogue'
<1> Control /\ Data
  BY DEF Base
<1>1. UNCHANGED <<session, asking, answering, heard>>
  BY ElsewiseFrame
<1>2. \/ pc'["client"] = pc["client"]
      \/ pc["client"] = "off" /\ pc'["client"] = "read"
  BY ElsewiseCopiers DEF Copiers
<1>3. shown'.sent = shown.sent
  BY ElsewiseFrame DEF Greeted, Data, Shown
<1>4. Taken' = Taken /\ Waiting' = Waiting /\ CallsOf(answering)' = CallsOf(answering)
  BY <1>1, <1>2 DEF Taken, Waiting
<1>5. CallsApart'
  BY <1>1, <1>4 DEF Dialogue, CallsApart
<1>6. Questions'
  BY <1>1, <1>2, <1>3, <1>4 DEF Dialogue, Questions
<1> QED
  BY <1>1, <1>5, <1>6 DEF Dialogue

LEMMA DialogueKept == Base /\ Dialogue /\ [Next]_vars => Dialogue'
<1> SUFFICES ASSUME Base, Dialogue, [Next]_vars PROVE Dialogue'
  OBVIOUS
<1>1. CASE ClientAsks \/ FromClient
  <2>1. Questions /\ CallsApart
    BY DEF Dialogue
  <2> QED
    BY <1>1, <2>1, ClientQuestions, ClientCalls, ClientFaults DEF Dialogue
<1>2. CASE Done \/ UNCHANGED vars
  BY <1>2 DEF Done, vars, Dialogue, Questions, CallsApart, Waiting, Taken
<1> QED
  BY <1>1, <1>2, GeminiDialogue, CopyingDialogue, ElsewiseDialogue, NextSplits

LEMMA DialogueStarts == Init => Dialogue
<1> SUFFICES ASSUME Init PROVE Dialogue
  OBVIOUS
<1>1. pc["client"] = "off"
  BY DEF Init, Goroutines
<1>2. /\ session.toolCalls = {} /\ ~session.setupComplete /\ CallsOf(answering) = {}
      /\ answering.type = "foreign" /\ heard.answered = {} /\ heard.named = {}
      /\ heard.faults = {}
      /\ shown.sent = 0 /\ heard.received = 0 /\ ~heard.setup
  BY NoAnswerCalls DEF Init, InitSession
<1> QED
  BY <1>1, <1>2 DEF Dialogue, Questions, CallsApart, Waiting, Taken

-----------------------------------------------------------------------------
(* The calls the client is shown, or is about to be shown, are known: to   *)
(* the session, or from a message that has carried them to Gemini.         *)

Known == session.toolCalls \cup Taken \cup heard.named

Sending(S) == {p \in Payload : p.event \in Naming(S)}

CallsKnown ==
  pc["client"] # "ended" =>
    /\ shown.calls \subseteq Known
    /\ events \in Seq(Naming(Known))
    /\ outgoing \in Seq(Sending(Known))

LEMMA NamingGrows ==
  ASSUME NEW S, NEW T, S \subseteq T
  PROVE  /\ \A s \in Seq(Naming(S)) : s \in Seq(Naming(T))
         /\ \A s \in Seq(Sending(S)) : s \in Seq(Sending(T))
<1>1. Naming(S) \subseteq Naming(T)
  BY DEF Naming
<1>2. Sending(S) \subseteq Sending(T)
  BY <1>1 DEF Sending
<1> QED
  BY <1>1, <1>2, SeqGrows

LEMMA KnownGrows ==
  ASSUME CallsKnown, pc'["client"] # "ended" => pc["client"] # "ended" /\ Known \subseteq Known',
         shown'.calls = shown.calls, events' = events \/ events' = <<>>,
         outgoing' = outgoing \/ outgoing' = <<>>
  PROVE  CallsKnown'
<1> SUFFICES ASSUME pc'["client"] # "ended"
             PROVE  /\ shown'.calls \subseteq Known'
                    /\ events' \in Seq(Naming(Known'))
                    /\ outgoing' \in Seq(Sending(Known'))
  BY DEF CallsKnown
<1>1. /\ shown.calls \subseteq Known /\ events \in Seq(Naming(Known))
      /\ outgoing \in Seq(Sending(Known)) /\ Known \subseteq Known'
  BY DEF CallsKnown
<1> HIDE DEF Known
<1>2. events \in Seq(Naming(Known')) /\ outgoing \in Seq(Sending(Known'))
  BY <1>1, NamingGrows
<1>3. <<>> \in Seq(Naming(Known')) /\ <<>> \in Seq(Sending(Known'))
  OBVIOUS
<1>4. events' \in Seq(Naming(Known'))
  BY <1>2, <1>3
<1>5. outgoing' \in Seq(Sending(Known'))
  BY <1>2, <1>3
<1>6. shown'.calls \subseteq Known'
  BY <1>1
<1> QED
  BY <1>4, <1>5, <1>6

LEMMA ClientKnown ==
  ASSUME Base, Dialogue, CallsKnown, ClientAsks \/ FromClient
  PROVE  CallsKnown'
<1> "client" \in Goroutines /\ Control /\ Data /\ Questions
  BY DEF Goroutines, Base, Dialogue
<1>1. UNCHANGED <<events, outgoing>> /\ pc["client"] # "ended"
  BY DEF ClientAsks, FromClient, ClientRefused, ClientWaits, ClientRetries, ClientCancelled,
         ClientTranslated, Forwarded, Returns
<1>2. shown'.calls = shown.calls
  BY DEF Data, Shown, ClientAsks, FromClient, ClientRefused, ClientWaits, ClientRetries,
         ClientCancelled, ClientTranslated, Forwarded
<1>3. pc'["client"] # "ended" => Known \subseteq Known'
  <2>1. CASE ClientTranslated
    <3>1. /\ pc["client"] = "translate" /\ Goes("client", "text") /\ UNCHANGED <<heard, asking>>
      BY <2>1 DEF ClientTranslated
    <3>2. Taken = {} /\ Taken' = {asking.call} \ {NoCall}
      BY <3>1, OtherStays DEF Taken
    <3>3. /\ asking.call = NoCall \/ asking.call \in session.toolCalls
          /\ session'.toolCalls = session.toolCalls \ {asking.call}
      BY <2>1, LetThrough DEF Session, Data
    <3>4. NoCall \notin session.toolCalls
      BY DEF Data, Session
    <3> QED
      BY <3>1, <3>2, <3>3, <3>4 DEF Known
  <2>2. CASE Forwarded
    <3>1. pc["client"] = "text" /\ UNCHANGED session
      BY <2>2 DEF Forwarded
    <3>2. heard'.named = heard.named \cup Taken
      BY <2>2, <3>1, ForwardedHeard DEF Taken
    <3> QED
      BY <3>1, <3>2 DEF Known
  <2>3. CASE ClientRefused \/ ClientCancelled
    BY <2>3, OtherStays DEF ClientRefused, ClientCancelled, Returns
  <2>4. CASE ClientAsks \/ ClientWaits \/ ClientRetries
    <3>1. UNCHANGED <<session, heard>> /\ pc["client"] # "text"
      BY <2>4 DEF ClientAsks, ClientWaits, ClientRetries
    <3> QED
      BY <3>1 DEF Known, Taken
  <2> QED
    BY <2>1, <2>2, <2>3, <2>4 DEF FromClient
<1> QED
  BY <1>1, <1>2, <1>3, KnownGrows

LEMMA GeminiKnown ==
  ASSUME Base, Dialogue, CallsKnown, GeminiAnswers \/ FromGemini
  PROVE  CallsKnown'
<1> Control /\ Data
  BY DEF Base
<1>1. pc'["client"] = pc["client"] /\ Taken' = Taken
  BY GeminiFrame DEF Taken
<1>2. CASE GeminiAnswers
  <2>1. heard'.named = heard.named /\ UNCHANGED <<session, events, outgoing, shown>>
    BY <1>2, AnswersHeard DEF GeminiAnswers
  <2>2. Known' = Known
    BY <1>1, <2>1 DEF Known
  <2> QED
    BY <1>1, <2>1, <2>2, KnownGrows
<1>3. CASE GeminiRefused
  <2>1. session.toolCalls \subseteq session'.toolCalls /\ UNCHANGED <<heard, shown>>
    BY <1>3, SessionTakes
  <2>2. events' = <<>> /\ outgoing' = <<>>
    BY <1>3 DEF GeminiRefused, Returns
  <2>3. Known \subseteq Known'
    BY <1>1, <2>1 DEF Known
  <2> QED
    BY <1>1, <2>1, <2>2, <2>3, KnownGrows
<1>4. CASE GeminiDecoded
  <2> SUFFICES ASSUME pc'["client"] # "ended"
               PROVE  /\ shown'.calls \subseteq Known'
                      /\ events' \in Seq(Naming(Known'))
                      /\ outgoing' \in Seq(Sending(Known'))
    BY DEF CallsKnown
  <2>1. /\ session'.toolCalls = session.toolCalls \cup CallsOf(answering)
        /\ UNCHANGED <<heard, shown>>
    BY <1>4, SessionTakes
  <2>2. Known' = Known \cup CallsOf(answering)
    BY <1>1, <2>1 DEF Known
  <2>3. events' = Decoded(answering) /\ outgoing' = outgoing
    BY <1>4 DEF GeminiDecoded
  <2>4. events' \in Seq(Naming(CallsOf(answering)))
    BY <2>3, DecodedEvents DEF Data, Locals
  <2>5. shown.calls \subseteq Known /\ outgoing \in Seq(Sending(Known))
    BY <1>1 DEF CallsKnown
  <2> HIDE DEF Known
  <2>6. events' \in Seq(Naming(Known')) /\ outgoing' \in Seq(Sending(Known'))
    BY <2>2, <2>3, <2>4, <2>5, NamingGrows
  <2> QED
    BY <2>1, <2>2, <2>5, <2>6
<1>5. CASE EncodesEvent
  <2> SUFFICES ASSUME pc'["client"] # "ended"
               PROVE  /\ shown'.calls \subseteq Known'
                      /\ events' \in Seq(Naming(Known'))
                      /\ outgoing' \in Seq(Sending(Known'))
    BY DEF CallsKnown
  <2>1. /\ events # <<>> /\ ~EncoderRefuses(Head(events)) /\ events' = Tail(events)
        /\ outgoing' = outgoing \o Encoded(Head(events))
        /\ UNCHANGED <<session, heard, shown>>
    BY <1>5 DEF EncodesEvent
  <2>2. Known' = Known
    BY <1>1, <2>1 DEF Known
  <2>3. /\ shown.calls \subseteq Known /\ events \in Seq(Naming(Known))
        /\ outgoing \in Seq(Sending(Known))
    BY <1>1 DEF CallsKnown
  <2> HIDE DEF Known
  <2>4. Head(events) \in Naming(Known) /\ events' \in Seq(Naming(Known))
    BY <2>1, <2>3, HeadTailProperties
  <2>5. Encoded(Head(events)) \in Seq(Sending(Known))
    <3>1. PICK e \in Naming(Known) : e = Head(events)
      BY <2>4
    <3>2. e \in Event /\ encoder \in Encoder
      BY <3>1 DEF Naming, Data
    <3>3. encoder.output \in Seq(ItemKinds) /\ Len(encoder.output) \in Nat
      BY <3>2, LenProperties DEF Encoder
    <3>4. [event |-> e, at |-> Len(encoder.output), output |-> encoder.output] \in Sending(Known)
      BY <3>1, <3>2, <3>3 DEF Sending, Payload
    <3>5. Encoded(e) \in Seq(Sending(Known))
      BY <3>4 DEF Encoded
    <3> QED
      BY <3>1, <3>5
  <2>6. outgoing' \in Seq(Sending(Known))
    BY <2>1, <2>3, <2>5, ConcatProperties
  <2> QED
    BY <2>1, <2>2, <2>3, <2>4, <2>6
<1>6. CASE EncodeFails \/ Announces
  <2>1. /\ UNCHANGED <<session, heard, shown>>
        /\ events' = events \/ events' = <<>>
        /\ outgoing' = outgoing \/ outgoing' = <<>>
    BY <1>6 DEF EncodeFails, Announces, Returns
  <2>2. Known' = Known
    BY <1>1, <2>1 DEF Known
  <2> QED
    BY <1>1, <2>1, <2>2, KnownGrows
<1>7. CASE Passed
  <2> SUFFICES ASSUME pc'["client"] # "ended"
               PROVE  /\ shown'.calls \subseteq Known'
                      /\ events' \in Seq(Naming(Known'))
                      /\ outgoing' \in Seq(Sending(Known'))
    BY DEF CallsKnown
  <2>1. /\ shown' = Reader(Head(outgoing)) /\ outgoing' = Tail(outgoing) /\ outgoing # <<>>
        /\ UNCHANGED <<session, heard, events>>
    BY <1>7 DEF Passed, Base, OneAtATime
  <2>2. Known' = Known
    BY <1>1, <2>1 DEF Known
  <2>3. /\ shown.calls \subseteq Known /\ events \in Seq(Naming(Known))
        /\ outgoing \in Seq(Sending(Known))
    BY <1>1 DEF CallsKnown
  <2> HIDE DEF Known
  <2>4. Head(outgoing) \in Sending(Known) /\ outgoing' \in Seq(Sending(Known))
    BY <2>1, <2>3, HeadTailProperties
  <2>5. shown'.calls = shown.calls \cup ({Head(outgoing).event.call} \ {NoCall})
    BY <2>1 DEF Reader, Data, Shown
  <2>6. shown'.calls \subseteq Known
    BY <2>3, <2>4, <2>5 DEF Sending, Naming
  <2> QED
    BY <2>1, <2>2, <2>3, <2>4, <2>6
<1> QED
  BY <1>2, <1>3, <1>4, <1>5, <1>6, <1>7 DEF FromGemini

LEMMA CopyingKnown ==
  ASSUME Base, CallsKnown, NEW g \in Copiers, Copying(g)
  PROVE  CallsKnown'
<1> Control
  BY DEF Base
<1>1. UNCHANGED <<session, heard, shown>>
  BY CopyingFrame
<1>2. /\ events' = events \/ events' = <<>>
      /\ outgoing' = outgoing \/ outgoing' = <<>>
  BY CopyingFrame DEF Returns
<1>3. pc'["client"] # "ended" => /\ pc["client"] # "ended"
                                 /\ Taken' = Taken
  <2>1. CASE \E how \in {"clean", "failed"} : Returns(g, how)
    <3>1. CASE g = "client"
      BY <2>1, <3>1, OtherStays DEF Returns, Goroutines
    <3>2. CASE g = "gemini"
      <4>1. pc'["client"] = pc["client"] /\ asking' = asking
        BY <2>1, <3>2, OtherStays DEF Returns, Goroutines
      <4> QED
        BY <4>1 DEF Taken
    <3> QED
      BY <3>1, <3>2 DEF Copiers
  <2>2. CASE /\ UNCHANGED asking
             /\ \/ UNCHANGED pc
                \/ pc[g] \in {"read", "pong"} /\ \E place \in {"read", "pong", "echo"} : Goes(g, place)
    <3>1. \/ pc'["client"] = pc["client"]
          \/ pc["client"] \in {"read", "pong"} /\ pc'["client"] \in {"read", "pong", "echo"}
      BY <2>2, OtherStays DEF Copiers, Goroutines
    <3> QED
      BY <2>2, <3>1 DEF Taken
  <2> QED
    BY <2>1, <2>2, CopyingFrame
<1>4. pc'["client"] # "ended" => Known \subseteq Known'
  BY <1>1, <1>3 DEF Known
<1> QED
  BY <1>1, <1>2, <1>3, <1>4, KnownGrows

LEMMA ElsewiseKnown ==
  ASSUME Base, CallsKnown, Elsewise
  PROVE  CallsKnown'
<1> Control
  BY DEF Base
<1>1. UNCHANGED <<session, asking, events, outgoing, heard>>
  BY ElsewiseFrame
<1>2. \/ pc'["client"] = pc["client"]
      \/ pc["client"] = "off" /\ pc'["client"] = "read"
  BY ElsewiseCopiers DEF Copiers
<1>3. shown'.calls = shown.calls
  BY ElsewiseFrame DEF Greeted, Base, Data, Shown
<1>4. Known' = Known
  BY <1>1, <1>2 DEF Taken, Known
<1> QED
  BY <1>1, <1>2, <1>3, <1>4, KnownGrows

LEMMA KnownKept == Base /\ Dialogue /\ CallsKnown /\ [Next]_vars => CallsKnown'
<1> SUFFICES ASSUME Base, Dialogue, CallsKnown, [Next]_vars PROVE CallsKnown'
  OBVIOUS
<1>1. CASE Done \/ UNCHANGED vars
  <2>1. UNCHANGED <<shown, events, outgoing, pc, session, asking, heard>>
    BY <1>1 DEF Done, vars
  <2>2. Known' = Known
    BY <2>1 DEF Known, Taken
  <2> QED
    BY <2>1, <2>2, KnownGrows
<1> QED
  BY <1>1, ClientKnown, GeminiKnown, CopyingKnown, ElsewiseKnown, NextSplits

LEMMA KnownStarts == Init => CallsKnown
  BY DEF Init, CallsKnown

-----------------------------------------------------------------------------
(* What the client reads: the encoder is ahead of it by what is on its     *)
(* way, and each payload fits where the one before it leads.               *)

Spot == [live : BOOLEAN, item : ItemKinds \cup {"none"}, output : Seq(ItemKinds), pieces : Nat]

Fits(at, p) ==
  /\ MediaDelta(p.event) => p.event.piece = at.pieces + 1
  /\ p.event.type = "response_start" => ~at.live /\ at.item = "none"
  /\ p.event.type = "content_start" =>
       at.live /\ at.item = "none" /\ p.at = Len(at.output)
  /\ p.event.type = "delta" => at.item = p.event.kind /\ p.at = Len(at.output)
  /\ p.event.type = "content_stop" => at.item # "none" /\ p.at = Len(at.output)
  /\ p.event.type \notin {"response_start", "content_start", "delta", "content_stop"} =>
       at.live /\ at.item = "none" /\ p.output = at.output

After(at, e) ==
  [live |-> IF e.type = "response_start" THEN TRUE
            ELSE IF e.type = "response_stop" THEN FALSE ELSE at.live,
   item |-> IF e.type = "content_start" THEN e.kind
            ELSE IF e.type \in {"response_start", "content_stop"} THEN "none" ELSE at.item,
   output |-> IF e.type = "response_start" THEN <<>>
              ELSE IF e.type = "content_stop" THEN Append(at.output, at.item) ELSE at.output,
   pieces |-> IF MediaDelta(e) THEN e.piece ELSE at.pieces]

Leads(sent, from, to) ==
  \E way \in [1 .. Len(sent) + 1 -> Spot] :
    /\ way[1] = from /\ way[Len(sent) + 1] = to
    /\ \A i \in 1 .. Len(sent) : Fits(way[i], sent[i]) /\ way[i + 1] = After(way[i], sent[i].event)

Reading == [live |-> shown.live, item |-> shown.item, output |-> shown.items,
            pieces |-> shown.pieces]

Written(n) == [live |-> encoder.live, item |-> encoder.item, output |-> encoder.output,
               pieces |-> n]

(* n pieces are encoded; what Gemini has said beyond them is in hand.      *)
Unsaid(n) ==
  IF answering.media # {}
  THEN heard.pieces = n + 1 /\ answering.piece = n + 1
  ELSE \/ NoPieces(events) /\ heard.pieces = n
       \/ OnePiece(events, n + 1) /\ heard.pieces = n + 1

InLine == pc["gemini"] # "ended" => \E n \in Nat : Leads(outgoing, Reading, Written(n)) /\ Unsaid(n)

ShownWell ==
  /\ shown.faults = {}
  /\ pc["gemini"] # "off" => shown.greeted
  /\ ~encoder.live => encoder.item = "none"
  /\ InLine

LEMMA AfterTyped ==
  ASSUME NEW at \in Spot, NEW p \in Payload, Fits(at, p)
  PROVE  After(at, p.event) \in Spot
<1>1. p.event \in Event
  BY DEF Payload
<1> DEFINE e == p.event
           live == IF e.type = "response_start" THEN TRUE
                   ELSE IF e.type = "response_stop" THEN FALSE ELSE at.live
           item == IF e.type = "content_start" THEN e.kind
                   ELSE IF e.type \in {"response_start", "content_stop"} THEN "none" ELSE at.item
           output == IF e.type = "response_start" THEN <<>>
                     ELSE IF e.type = "content_stop" THEN Append(at.output, at.item) ELSE at.output
           pieces == IF MediaDelta(e) THEN e.piece ELSE at.pieces
<1>2. live \in BOOLEAN
  BY DEF Spot
<1>3. item \in ItemKinds \cup {"none"} /\ pieces \in Nat
  BY <1>1 DEF Spot, Event
<1>4. output \in Seq(ItemKinds)
  <2>1. CASE e.type = "response_start"
    BY <2>1
  <2>2. CASE e.type = "content_stop"
    <3>1. at.output \in Seq(ItemKinds) /\ at.item \in ItemKinds
      BY <2>2 DEF Fits, Spot
    <3>2. output = Append(at.output, at.item)
      BY <2>2
    <3> QED
      BY <3>1, <3>2, AppendProperties
  <2>3. CASE e.type \notin {"response_start", "content_stop"}
    BY <2>3 DEF Spot
  <2> QED
    BY <2>1, <2>2, <2>3
<1>5. After(at, e) = [live |-> live, item |-> item, output |-> output, pieces |-> pieces]
  BY DEF After
<1> HIDE DEF live, item, output, pieces
<1>6. After(at, e) \in Spot
  BY <1>2, <1>3, <1>4, <1>5 DEF Spot
<1> QED
  BY <1>6

LEMMA LeadsNowhere ==
  ASSUME NEW at \in Spot
  PROVE  Leads(<<>>, at, at)
<1> DEFINE way == [i \in 1 .. 1 |-> at]
           n == Len(<<>>)
<1>1. n = 0
  OBVIOUS
<1>2. way \in [1 .. 1 -> Spot] /\ way[1] = at
  OBVIOUS
<1> HIDE DEF way, n
<1>3. way \in [1 .. n + 1 -> Spot] /\ way[1] = at /\ way[n + 1] = at
  BY <1>1, <1>2
<1>4. \A i \in 1 .. n : Fits(way[i], <<>>[i]) /\ way[i + 1] = After(way[i], <<>>[i].event)
  BY <1>1
<1> QED
  BY <1>3, <1>4 DEF Leads, n

(* One more payload at the end.                                            *)
LEMMA LeadsOn ==
  ASSUME NEW sent \in Seq(Payload), NEW p \in Payload, NEW from, NEW to \in Spot,
         Leads(sent, from, to), Fits(to, p)
  PROVE  Leads(Append(sent, p), from, After(to, p.event))
<1> DEFINE n == Len(sent)
           s == Append(sent, p)
<1>1. /\ n \in Nat /\ s \in Seq(Payload) /\ Len(s) = n + 1
      /\ \A i \in 1 .. n : s[i] = sent[i]
      /\ s[n + 1] = p
  BY AppendProperties, LenProperties
<1>2. PICK way \in [1 .. n + 1 -> Spot] :
        /\ way[1] = from /\ way[n + 1] = to
        /\ \A i \in 1 .. n : Fits(way[i], sent[i]) /\ way[i + 1] = After(way[i], sent[i].event)
  BY DEF Leads
<1>3. After(to, p.event) \in Spot
  BY AfterTyped
<1> DEFINE on == [i \in 1 .. n + 2 |-> IF i = n + 2 THEN After(to, p.event) ELSE way[i]]
<1>4. on \in [1 .. Len(s) + 1 -> Spot]
  BY <1>1, <1>2, <1>3
<1>5. on[1] = from /\ on[n + 1] = to /\ on[n + 2] = After(to, p.event)
  BY <1>1, <1>2
<1>6. \A i \in 1 .. n : on[i] = way[i] /\ on[i + 1] = way[i + 1]
  BY <1>1
<1> HIDE DEF on, s
<1>7. \A i \in 1 .. Len(s) : Fits(on[i], s[i]) /\ on[i + 1] = After(on[i], s[i].event)
  <2> SUFFICES ASSUME NEW i \in 1 .. Len(s)
               PROVE  Fits(on[i], s[i]) /\ on[i + 1] = After(on[i], s[i].event)
    OBVIOUS
  <2>1. CASE i = n + 1
    BY <1>1, <1>5, <2>1
  <2>2. CASE i # n + 1
    <3>1. i \in 1 .. n
      BY <1>1, <2>2
    <3> QED
      BY <1>1, <1>2, <1>6, <3>1
  <2> QED
    BY <2>1, <2>2
<1>8. Len(s) + 1 = n + 2
  BY <1>1
<1>9. Leads(s, from, After(to, p.event))
  BY <1>4, <1>5, <1>7, <1>8 DEF Leads
<1> QED
  BY <1>9 DEF s

(* The first payload is read.                                              *)
LEMMA LeadsBack ==
  ASSUME NEW sent \in Seq(Payload), sent # <<>>, NEW from, NEW to, Leads(sent, from, to)
  PROVE  Fits(from, Head(sent)) /\ Leads(Tail(sent), After(from, Head(sent).event), to)
<1> DEFINE n == Len(sent)
           t == Tail(sent)
<1>1. /\ n \in Nat /\ n >= 1 /\ t \in Seq(Payload) /\ Len(t) = n - 1 /\ Head(sent) = sent[1]
      /\ \A i \in 1 .. n - 1 : t[i] = sent[i + 1]
  BY HeadTailProperties, EmptySeq, LenProperties
<1>2. PICK way \in [1 .. n + 1 -> Spot] :
        /\ way[1] = from /\ way[n + 1] = to
        /\ \A i \in 1 .. n : Fits(way[i], sent[i]) /\ way[i + 1] = After(way[i], sent[i].event)
  BY DEF Leads
<1>3. Fits(from, Head(sent)) /\ way[2] = After(from, Head(sent).event)
  BY <1>1, <1>2
<1> DEFINE back == [i \in 1 .. n |-> way[i + 1]]
<1>4. back \in [1 .. Len(t) + 1 -> Spot]
  BY <1>1, <1>2
<1>5. back[1] = way[2] /\ back[n] = to
  BY <1>1, <1>2
<1>6. \A i \in 1 .. n - 1 : back[i] = way[i + 1] /\ back[i + 1] = way[(i + 1) + 1]
  BY <1>1
<1> HIDE DEF back, t
<1>7. \A i \in 1 .. Len(t) : Fits(back[i], t[i]) /\ back[i + 1] = After(back[i], t[i].event)
  <2> SUFFICES ASSUME NEW i \in 1 .. n - 1
               PROVE  Fits(back[i], t[i]) /\ back[i + 1] = After(back[i], t[i].event)
    BY <1>1
  <2>1. i + 1 \in 1 .. n /\ t[i] = sent[i + 1]
    BY <1>1
  <2>2. Fits(way[i + 1], sent[i + 1]) /\ way[(i + 1) + 1] = After(way[i + 1], sent[i + 1].event)
    BY <1>2, <2>1
  <2> QED
    BY <1>6, <2>1, <2>2
<1>8. Len(t) + 1 = n
  BY <1>1
<1>9. Leads(t, After(from, Head(sent).event), to)
  BY <1>3, <1>4, <1>5, <1>7, <1>8 DEF Leads
<1> QED
  BY <1>3, <1>9 DEF t

LEMMA SpotsTyped ==
  ASSUME Data
  PROVE  Reading \in Spot /\ \A n \in Nat : Written(n) \in Spot
BY DEF Data, Shown, Encoder, Spot, Reading, Written

LEMMA PiecesTail ==
  ASSUME NEW s \in Seq(Event), s # <<>>
  PROVE  /\ NoPieces(s) => ~MediaDelta(Head(s)) /\ NoPieces(Tail(s))
         /\ \A n : OnePiece(s, n) =>
                     \/ MediaDelta(Head(s)) /\ Head(s).piece = n /\ NoPieces(Tail(s))
                     \/ ~MediaDelta(Head(s)) /\ OnePiece(Tail(s), n)
<1> DEFINE t == Tail(s)
<1>1. /\ Len(s) \in Nat /\ Len(s) >= 1 /\ t \in Seq(Event) /\ Len(t) = Len(s) - 1
      /\ Head(s) = s[1] /\ DOMAIN s = 1 .. Len(s) /\ DOMAIN t = 1 .. Len(s) - 1
      /\ \A i \in 1 .. Len(s) - 1 : t[i] = s[i + 1]
  BY HeadTailProperties, EmptySeq, LenProperties
<1> HIDE DEF t
<1>2. ASSUME NoPieces(s) PROVE ~MediaDelta(Head(s)) /\ NoPieces(t)
  <2>1. \A k \in 1 .. Len(s) : ~MediaDelta(s[k])
    BY <1>1, <1>2 DEF NoPieces
  <2>2. 1 \in 1 .. Len(s) /\ \A i \in 1 .. Len(s) - 1 : i + 1 \in 1 .. Len(s)
    BY <1>1
  <2>3. \A i \in 1 .. Len(s) - 1 : ~MediaDelta(t[i])
    BY <1>1, <2>1, <2>2
  <2> QED
    BY <1>1, <2>1, <2>2, <2>3 DEF NoPieces
<1>3. ASSUME NEW n, OnePiece(s, n)
      PROVE  \/ MediaDelta(Head(s)) /\ Head(s).piece = n /\ NoPieces(t)
             \/ ~MediaDelta(Head(s)) /\ OnePiece(t, n)
  <2>1. PICK k \in 1 .. Len(s) : /\ MediaDelta(s[k]) /\ s[k].piece = n
                                 /\ \A j \in 1 .. Len(s) : MediaDelta(s[j]) => j = k
    BY <1>1, <1>3 DEF OnePiece
  <2>2. CASE k = 1
    <3>1. \A i \in 1 .. Len(s) - 1 : ~MediaDelta(t[i])
      BY <1>1, <2>1, <2>2
    <3> QED
      BY <1>1, <2>1, <2>2, <3>1 DEF NoPieces
  <2>3. CASE k # 1
    <3> DEFINE i == k - 1
    <3>1. i \in 1 .. Len(s) - 1 /\ t[i] = s[k] /\ ~MediaDelta(Head(s))
      BY <1>1, <2>1, <2>3
    <3>2. \A j \in 1 .. Len(s) - 1 : MediaDelta(t[j]) => j = i
      BY <1>1, <2>1
    <3> HIDE DEF i
    <3> QED
      BY <1>1, <2>1, <3>1, <3>2 DEF OnePiece
  <2> QED
    BY <2>2, <2>3
<1> QED
  BY <1>2, <1>3 DEF t

LEMMA NothingSaid == NoPieces(<<>>) /\ \A n : ~OnePiece(<<>>, n)
<1>1. DOMAIN <<>> = {}
  OBVIOUS
<1> QED
  BY <1>1 DEF NoPieces, OnePiece

LEMMA LineStays ==
  ASSUME InLine,
         pc'["gemini"] # "ended" =>
           /\ pc["gemini"] # "ended" /\ UNCHANGED <<outgoing, events, answering, encoder>>
           /\ heard'.pieces = heard.pieces /\ Reading' = Reading
  PROVE  InLine'
<1> SUFFICES ASSUME pc'["gemini"] # "ended"
             PROVE  \E n \in Nat : Leads(outgoing', Reading', Written(n)') /\ Unsaid(n)'
  BY DEF InLine
<1>1. PICK n \in Nat : Leads(outgoing, Reading, Written(n)) /\ Unsaid(n)
  BY DEF InLine
<1>2. Written(n)' = Written(n) /\ outgoing' = outgoing /\ Reading' = Reading
  BY DEF Written
<1>3. Unsaid(n)'
  BY <1>1 DEF Unsaid
<1> QED
  BY <1>1, <1>2, <1>3

LEMMA AnswersLine ==
  ASSUME Base, ShownWell, GeminiAnswers
  PROVE  ShownWell'
<1> Control /\ Data /\ OneAtATime /\ InLine
  BY DEF Base, ShownWell
<1>1. /\ pc["gemini"] = "read" /\ UNCHANGED <<events, outgoing, encoder, shown>>
      /\ heard.pieces \in Nat
  BY DEF GeminiAnswers, Data, Heard
<1>2. answering.media = {} /\ events = <<>>
  BY <1>1 DEF OneAtATime, NoAnswer
<1>3. PICK n \in Nat : Leads(outgoing, Reading, Written(n)) /\ Unsaid(n)
  BY <1>1 DEF InLine
<1>4. heard.pieces = n
  BY <1>2, <1>3, NothingSaid DEF Unsaid
<1>5. PICK m \in ServerMessage :
        /\ answering'.media = m.media /\ answering'.piece = heard.pieces + 1
        /\ heard'.pieces = IF m.media = {} THEN heard.pieces ELSE heard.pieces + 1
  BY AnswersHeard
<1>6. Unsaid(n)'
  BY <1>1, <1>2, <1>4, <1>5, NothingSaid DEF Unsaid
<1>7. Leads(outgoing', Reading', Written(n)')
  BY <1>1, <1>3 DEF Reading, Written
<1>8. InLine'
  BY <1>6, <1>7 DEF InLine
<1> QED
  BY <1>1, <1>8 DEF ShownWell

LEMMA DecodedLine ==
  ASSUME Base, ShownWell, GeminiDecoded
  PROVE  ShownWell'
<1> Control /\ Data /\ OneAtATime /\ InLine
  BY DEF Base, ShownWell
<1>1. /\ pc["gemini"] = "translate" /\ UNCHANGED <<outgoing, encoder, shown, heard>>
      /\ events' = Decoded(answering) /\ answering' = NoAnswer
  BY DEF GeminiDecoded
<1>2. events = <<>>
  BY <1>1 DEF OneAtATime
<1>3. PICK n \in Nat : Leads(outgoing, Reading, Written(n)) /\ Unsaid(n)
  BY <1>1 DEF InLine
<1>4. IF answering.media # {} THEN heard.pieces = n + 1 /\ answering.piece = n + 1
                              ELSE heard.pieces = n
  BY <1>2, <1>3, NothingSaid DEF Unsaid
<1>5. IF answering.media = {} THEN NoPieces(events') ELSE OnePiece(events', answering.piece)
  BY <1>1, DecodedEvents DEF Data, Locals
<1>6. answering'.media = {}
  BY <1>1 DEF NoAnswer
<1>7. Unsaid(n)'
  BY <1>1, <1>4, <1>5, <1>6 DEF Unsaid
<1>8. Leads(outgoing', Reading', Written(n)')
  BY <1>1, <1>3 DEF Reading, Written
<1>9. InLine'
  BY <1>7, <1>8 DEF InLine
<1> QED
  BY <1>1, <1>9 DEF ShownWell

(* What the encoder writes fits where it is, and it is then where that     *)
(* leads.                                                                  *)
LEMMA EncoderFits ==
  ASSUME NEW e \in Event, encoder \in Encoder, ~EncoderRefuses(e), NEW n \in Nat,
         ~encoder.live => encoder.item = "none",
         MediaDelta(e) => e.piece = n + 1, NEW k \in Nat, k = IF MediaDelta(e) THEN n + 1 ELSE n,
         e.type # "usage", encoder' = EncoderAfter(e), NEW p \in Payload,
         p = [event |-> e, at |-> Len(encoder.output), output |-> encoder.output]
  PROVE  /\ Fits(Written(n), p)
         /\ After(Written(n), e) = Written(k)'
<1>1. /\ p.event = e /\ p.at = Len(encoder.output) /\ p.output = encoder.output
      /\ e.type \in EventTypes
  BY DEF Event
<1>2. /\ Written(n).live = encoder.live /\ Written(n).item = encoder.item
      /\ Written(n).output = encoder.output /\ Written(n).pieces = n
  BY DEF Written
<1>3. CASE e.type = "response_start"
  <2>1. ~encoder.live /\ encoder.item = "none"
    BY <1>3 DEF EncoderRefuses
  <2>2. Fits(Written(n), p)
    BY <1>1, <1>2, <1>3, <2>1 DEF Fits, MediaDelta
  <2>3. encoder'.live /\ encoder'.item = "none" /\ encoder'.output = <<>> /\ encoder'.live = TRUE
    BY <1>3 DEF EncoderAfter
  <2>4. After(Written(n), e) = Written(n)' /\ k = n
    BY <1>2, <1>3, <2>3 DEF After, Written, MediaDelta
  <2> QED
    BY <2>2, <2>4
<1>4. CASE e.type = "content_start"
  <2>1. encoder.live /\ encoder.item = "none"
    BY <1>4 DEF EncoderRefuses
  <2>2. Fits(Written(n), p)
    BY <1>1, <1>2, <1>4, <2>1 DEF Fits, MediaDelta
  <2>3. encoder'.live = encoder.live /\ encoder'.item = e.kind /\ encoder'.output = encoder.output
    BY <1>4 DEF EncoderAfter, Encoder
  <2>4. After(Written(n), e) = Written(n)' /\ k = n
    BY <1>2, <1>4, <2>3 DEF After, Written, MediaDelta
  <2> QED
    BY <2>2, <2>4
<1>5. CASE e.type = "delta"
  <2>1. encoder.item = e.kind
    BY <1>5 DEF EncoderRefuses
  <2>2. Fits(Written(n), p)
    BY <1>1, <1>2, <1>5, <2>1 DEF Fits
  <2>3. encoder' = encoder
    BY <1>5 DEF EncoderAfter
  <2>4. CASE MediaDelta(e)
    <3>1. After(Written(n), e) = Written(n + 1)'
      BY <1>2, <1>5, <2>3, <2>4 DEF After, Written
    <3>2. k = n + 1
      BY <2>4
    <3> QED
      BY <2>2, <3>1, <3>2
  <2>5. CASE ~MediaDelta(e)
    <3>1. After(Written(n), e) = Written(n)'
      BY <1>2, <1>5, <2>3, <2>5 DEF After, Written
    <3>2. k = n
      BY <2>5
    <3> QED
      BY <2>2, <3>1, <3>2
  <2> QED
    BY <2>4, <2>5
<1>6. CASE e.type = "content_stop"
  <2>1. encoder.item # "none"
    BY <1>6 DEF EncoderRefuses
  <2>2. Fits(Written(n), p)
    BY <1>1, <1>2, <1>6, <2>1 DEF Fits, MediaDelta
  <2>3. /\ encoder'.live = encoder.live /\ encoder'.item = "none"
        /\ encoder'.output = Append(encoder.output, encoder.item)
    BY <1>6 DEF EncoderAfter, Encoder
  <2>4. After(Written(n), e) = Written(n)' /\ k = n
    BY <1>2, <1>6, <2>3 DEF After, Written, MediaDelta
  <2> QED
    BY <2>2, <2>4
<1>7. CASE e.type = "response_stop"
  <2>1. encoder.live /\ encoder.item = "none"
    BY <1>7 DEF EncoderRefuses
  <2>2. Fits(Written(n), p)
    BY <1>1, <1>2, <1>7, <2>1 DEF Fits, MediaDelta
  <2>3. encoder'.live = FALSE /\ encoder'.item = encoder.item /\ encoder'.output = encoder.output
    BY <1>7 DEF EncoderAfter, Encoder
  <2>4. After(Written(n), e) = Written(n)' /\ k = n
    BY <1>2, <1>7, <2>3 DEF After, Written, MediaDelta
  <2> QED
    BY <2>2, <2>4
<1> QED
  BY <1>1, <1>3, <1>4, <1>5, <1>6, <1>7 DEF EventTypes

LEMMA EncoderRests ==
  ASSUME NEW e \in Event, encoder \in Encoder, ~EncoderRefuses(e), encoder' = EncoderAfter(e),
         ~encoder.live => encoder.item = "none"
  PROVE  ~encoder'.live => encoder'.item = "none"
<1>1. e.type \in EventTypes
  BY DEF Event
<1>2. CASE e.type = "response_start"
  BY <1>2 DEF EncoderAfter
<1>3. CASE e.type = "content_start"
  <2>1. encoder.live /\ encoder'.live = encoder.live
    BY <1>3 DEF EncoderRefuses, EncoderAfter, Encoder
  <2> QED
    BY <2>1
<1>4. CASE e.type = "content_stop"
  BY <1>4 DEF EncoderAfter, Encoder
<1>5. CASE e.type = "response_stop"
  <2>1. encoder.item = "none" /\ encoder'.item = encoder.item
    BY <1>5 DEF EncoderRefuses, EncoderAfter, Encoder
  <2> QED
    BY <2>1
<1>6. CASE e.type \in {"delta", "usage"}
  <2>1. encoder' = encoder
    BY <1>6 DEF EncoderAfter
  <2> QED
    BY <2>1
<1> QED
  BY <1>1, <1>2, <1>3, <1>4, <1>5, <1>6 DEF EventTypes

LEMMA EncodesLine ==
  ASSUME Base, ShownWell, EncodesEvent
  PROVE  ShownWell'
<1> Control /\ Data /\ OneAtATime /\ InLine
  BY DEF Base, ShownWell
<1>11. events \in Seq(Event) /\ outgoing \in Seq(Payload) /\ encoder \in Encoder /\ events # <<>>
  BY DEF Data, Locals, EncodesEvent
<1>12. PICK e \in Event : e = Head(events)
  BY <1>11, HeadTailProperties
<1>1. /\ pc["gemini"] = "encode" /\ events # <<>> /\ ~EncoderRefuses(e)
      /\ encoder' = EncoderAfter(e) /\ outgoing' = outgoing \o Encoded(e) /\ events' = Tail(events)
      /\ UNCHANGED <<answering, heard, shown, pc>>
  BY <1>12 DEF EncodesEvent
<1>2. answering.media = {} /\ answering'.media = {}
  BY <1>1 DEF OneAtATime, NoAnswer
<1>3. PICK n \in Nat : Leads(outgoing, Reading, Written(n)) /\ Unsaid(n)
  BY <1>1 DEF InLine
<1>5. \/ NoPieces(events) /\ heard.pieces = n
      \/ OnePiece(events, n + 1) /\ heard.pieces = n + 1
  BY <1>2, <1>3 DEF Unsaid
<1>6. \/ ~MediaDelta(e) /\ NoPieces(Tail(events)) /\ heard.pieces = n
      \/ ~MediaDelta(e) /\ OnePiece(Tail(events), n + 1) /\ heard.pieces = n + 1
      \/ MediaDelta(e) /\ e.piece = n + 1 /\ NoPieces(Tail(events)) /\ heard.pieces = n + 1
  BY <1>11, <1>12, <1>5, PiecesTail
<1>7. PICK k \in Nat : k = IF MediaDelta(e) THEN n + 1 ELSE n
  OBVIOUS
<1>8. Unsaid(k)'
  BY <1>1, <1>2, <1>6, <1>7 DEF Unsaid
<1>9. Leads(outgoing', Reading', Written(k)')
  <2>1. Reading' = Reading
    BY <1>1 DEF Reading
  <2>2. CASE e.type = "usage"
    <3>1. Encoded(e) = <<>> /\ encoder' = encoder /\ ~MediaDelta(e)
      BY <1>1, <2>2 DEF Encoded, EncoderAfter, MediaDelta
    <3>2. outgoing' = outgoing
      BY <1>1, <1>11, <3>1, ConcatEmptySeq
    <3>3. Written(k)' = Written(n)
      BY <1>7, <3>1 DEF Written
    <3> QED
      BY <1>3, <2>1, <3>2, <3>3
  <2>3. CASE e.type # "usage"
    <3>1. PICK p : p = [event |-> e, at |-> Len(encoder.output), output |-> encoder.output]
      OBVIOUS
    <3>2. p \in Payload /\ p.event = e
      <4>1. encoder.output \in Seq(ItemKinds) /\ Len(encoder.output) \in Nat
        BY <1>11, LenProperties DEF Encoder
      <4> QED
        BY <1>11, <3>1, <4>1 DEF Payload
    <3>3. Encoded(e) = <<p>>
      BY <2>3, <3>1 DEF Encoded
    <3>4. outgoing' = Append(outgoing, p)
      BY <1>1, <1>11, <3>2, <3>3, AppendIsConcat
    <3>5. MediaDelta(e) => e.piece = n + 1
      BY <1>6
    <3>6. Fits(Written(n), p) /\ After(Written(n), e) = Written(k)'
      BY <1>1, <1>7, <1>11, <2>3, <3>1, <3>2, <3>5, EncoderFits DEF ShownWell
    <3>7. Written(n) \in Spot
      BY SpotsTyped
    <3> QED
      BY <1>3, <1>11, <2>1, <3>2, <3>4, <3>6, <3>7, LeadsOn
  <2> QED
    BY <2>2, <2>3
<1>10. InLine'
  BY <1>8, <1>9 DEF InLine
<1>13. ~encoder'.live => encoder'.item = "none"
  BY <1>1, <1>11, EncoderRests DEF ShownWell
<1> QED
  BY <1>1, <1>10, <1>13 DEF ShownWell

LEMMA ReaderFits ==
  ASSUME Data, NEW p \in Payload, Fits(Reading, p), shown.greeted, shown.faults = {},
         shown' = Reader(p)
  PROVE  shown'.faults = {} /\ shown'.greeted /\ Reading' = After(Reading, p.event)
<1>1. /\ Reading.live = shown.live /\ Reading.item = shown.item /\ Reading.output = shown.items
      /\ Reading.pieces = shown.pieces
  BY DEF Reading
<1>2. p.event \in Event /\ p.event.type \in EventTypes
  BY DEF Payload, Event
<1>3. ~Misplaced(p)
  BY <1>1 DEF Misplaced, Fits
<1>4. Piece(p) <=> MediaDelta(p.event)
  BY DEF Piece, MediaDelta
<1>5. ShownBlames(p) = {}
  BY <1>1, <1>3, <1>4 DEF ShownBlames, Fits
<1> DEFINE live == CASE p.event.type = "response_start" -> TRUE
                     [] p.event.type = "response_stop" -> FALSE
                     [] OTHER -> shown.live
           item == CASE p.event.type = "content_start" -> p.event.kind
                     [] p.event.type = "content_stop" -> "none"
                     [] OTHER -> shown.item
           items == CASE p.event.type = "response_start" -> <<>>
                      [] p.event.type = "content_stop" /\ shown.item # "none" ->
                           Append(shown.items, shown.item)
                      [] OTHER -> shown.items
           pieces == IF Piece(p) THEN p.event.piece ELSE shown.pieces
<1>6. /\ shown'.live = live /\ shown'.item = item /\ shown'.items = items /\ shown'.pieces = pieces
      /\ shown'.greeted = shown.greeted /\ shown'.faults = shown.faults \cup ShownBlames(p)
  BY DEF Data, Shown, Reader
<1>7. live = After(Reading, p.event).live
  BY <1>1 DEF After
<1>8. item = After(Reading, p.event).item
  <2>1. After(Reading, p.event).item =
          IF p.event.type = "content_start" THEN p.event.kind
          ELSE IF p.event.type \in {"response_start", "content_stop"} THEN "none" ELSE shown.item
    BY <1>1 DEF After
  <2>2. CASE p.event.type = "response_start"
    <3>1. shown.item = "none"
      BY <1>1, <2>2 DEF Fits
    <3> QED
      BY <2>1, <2>2, <3>1
  <2>3. CASE p.event.type # "response_start"
    BY <2>1, <2>3
  <2> QED
    BY <2>2, <2>3
<1>9. items = After(Reading, p.event).output
  BY <1>1 DEF After, Fits
<1>10. pieces = After(Reading, p.event).pieces
  BY <1>1, <1>4 DEF After
<1> HIDE DEF live, item, items, pieces
<1>11. Reading' = After(Reading, p.event)
  BY <1>6, <1>7, <1>8, <1>9, <1>10 DEF Reading, After
<1> QED
  BY <1>5, <1>6, <1>11

LEMMA PassedLine ==
  ASSUME Base, ShownWell, Passed
  PROVE  ShownWell'
<1> Control /\ Data /\ OneAtATime /\ InLine
  BY DEF Base, ShownWell
<1> DEFINE p == Head(outgoing)
<1>1. /\ pc["gemini"] = "text" /\ outgoing # <<>> /\ shown' = Reader(p) /\ outgoing' = Tail(outgoing)
      /\ UNCHANGED <<answering, heard, events, encoder>>
  BY DEF Passed, OneAtATime
<1>2. outgoing \in Seq(Payload) /\ p \in Payload
  BY <1>1, HeadTailProperties DEF Data, Locals
<1>3. PICK n \in Nat : Leads(outgoing, Reading, Written(n)) /\ Unsaid(n)
  BY <1>1 DEF InLine
<1>4. Fits(Reading, p) /\ Leads(Tail(outgoing), After(Reading, p.event), Written(n))
  BY <1>1, <1>2, <1>3, LeadsBack
<1> HIDE DEF p
<1>5. shown'.faults = {} /\ shown'.greeted /\ Reading' = After(Reading, p.event)
  BY <1>1, <1>2, <1>4, ReaderFits DEF ShownWell
<1>6. Written(n)' = Written(n) /\ Unsaid(n)'
  BY <1>1, <1>3 DEF Written, Unsaid
<1>7. InLine'
  BY <1>1, <1>4, <1>5, <1>6 DEF InLine
<1> QED
  BY <1>1, <1>5, <1>7 DEF ShownWell

(* The other steps leave the line alone, or end the copier it is on.       *)
LEMMA WellStays ==
  ASSUME ShownWell, UNCHANGED encoder, shown'.faults = shown.faults,
         shown'.greeted = shown.greeted \/ shown'.greeted = TRUE,
         pc'["gemini"] # "off" => pc["gemini"] # "off" \/ shown'.greeted = TRUE,
         pc'["gemini"] # "ended" =>
           /\ pc["gemini"] # "ended" /\ UNCHANGED <<outgoing, events, answering>>
           /\ heard'.pieces = heard.pieces /\ Reading' = Reading
  PROVE  ShownWell'
<1>1. InLine'
  BY LineStays DEF ShownWell
<1> QED
  BY <1>1 DEF ShownWell

LEMMA ClientWell ==
  ASSUME Base, ShownWell, ClientAsks \/ FromClient
  PROVE  ShownWell'
<1> Control /\ Data
  BY DEF Base
<1>1. UNCHANGED <<encoder, outgoing, events, answering>>
  BY DEF ClientAsks, FromClient, ClientRefused, ClientWaits, ClientRetries, ClientCancelled,
         ClientTranslated, Forwarded, Returns
<1>2. pc'["gemini"] = pc["gemini"]
  <2>1. \E place : Goes("client", place)
    BY DEF ClientAsks, FromClient, ClientRefused, ClientWaits, ClientRetries, ClientCancelled,
           ClientTranslated, Forwarded, Returns
  <2> QED
    BY <2>1, OtherStays DEF Goroutines
<1>3. shown'.faults = shown.faults /\ shown'.greeted = shown.greeted /\ Reading' = Reading
  <2>1. CASE ClientAsks
    <3>1. shown' = [shown EXCEPT !.sent = @ + 1]
      BY <2>1 DEF ClientAsks
    <3> QED
      BY <3>1 DEF Data, Shown, Reading
  <2>2. CASE FromClient
    <3>1. shown' = shown
      BY <2>2 DEF FromClient, ClientRefused, ClientWaits, ClientRetries, ClientCancelled,
                  ClientTranslated, Forwarded
    <3> QED
      BY <3>1 DEF Reading
  <2> QED
    BY <2>1, <2>2
<1>4. heard'.pieces = heard.pieces
  <2>1. CASE Forwarded
    BY <2>1 DEF Forwarded, Data, Heard
  <2>2. CASE ~Forwarded
    BY <2>2 DEF ClientAsks, FromClient, ClientRefused, ClientWaits, ClientRetries,
                ClientCancelled, ClientTranslated
  <2> QED
    BY <2>1, <2>2
<1> QED
  BY <1>1, <1>2, <1>3, <1>4, WellStays

LEMMA GeminiWell ==
  ASSUME Base, ShownWell, GeminiAnswers \/ FromGemini
  PROVE  ShownWell'
<1> Control /\ Data
  BY DEF Base
<1>1. CASE GeminiRefused \/ EncodeFails
  <2>1. UNCHANGED <<encoder, heard, shown>> /\ Goes("gemini", "ended")
    BY <1>1 DEF GeminiRefused, EncodeFails, Returns
  <2>2. pc["gemini"] # "off"
    BY <1>1 DEF GeminiRefused, EncodeFails
  <2>3. pc'["gemini"] = "ended"
    BY <2>1, OtherStays DEF Goroutines
  <2> QED
    BY <2>1, <2>2, <2>3, WellStays
<1>2. CASE Announces
  <2>1. /\ UNCHANGED <<encoder, heard, shown, outgoing, events, answering>>
        /\ pc["gemini"] = "encode"
    BY <1>2 DEF Announces
  <2>2. Reading' = Reading
    BY <2>1 DEF Reading
  <2> QED
    BY <2>1, <2>2, WellStays
<1> QED
  BY <1>1, <1>2, AnswersLine, DecodedLine, EncodesLine, PassedLine DEF FromGemini

LEMMA CopyingWell ==
  ASSUME Base, ShownWell, NEW g \in Copiers, Copying(g)
  PROVE  ShownWell'
<1> Control
  BY DEF Base
<1>1. UNCHANGED <<encoder, heard, shown>> /\ pc[g] \notin {"off", "ended"}
  BY CopyingFrame
<1>2. Reading' = Reading
  BY <1>1 DEF Reading
<1>3. CASE \E how \in {"clean", "failed"} : Returns(g, how)
  <2>1. CASE g = "gemini"
    <3>1. pc'["gemini"] = "ended"
      BY <1>3, <2>1, OtherStays DEF Returns, Goroutines
    <3> QED
      BY <1>1, <2>1, <3>1, WellStays
  <2>2. CASE g = "client"
    <3>1. pc'["gemini"] = pc["gemini"] /\ UNCHANGED <<answering, events, outgoing>>
      BY <1>3, <2>2, OtherStays DEF Returns, Goroutines
    <3> QED
      BY <1>1, <1>2, <3>1, WellStays
  <2> QED
    BY <2>1, <2>2 DEF Copiers
<1>4. CASE /\ UNCHANGED <<answering, events, outgoing>>
           /\ UNCHANGED pc \/ \E place \in {"read", "pong", "echo"} : Goes(g, place)
  <2>1. \/ pc'["gemini"] = pc["gemini"]
        \/ g = "gemini" /\ pc'["gemini"] \in {"read", "pong", "echo"}
    BY <1>4, OtherStays DEF Copiers, Goroutines
  <2> QED
    BY <1>1, <1>2, <1>4, <2>1, WellStays
<1> QED
  BY <1>3, <1>4, CopyingFrame

LEMMA ElsewiseWell ==
  ASSUME Base, ShownWell, Elsewise
  PROVE  ShownWell'
<1> Control /\ Data
  BY DEF Base
<1>1. UNCHANGED <<encoder, answering, events, outgoing, heard>>
  BY ElsewiseFrame
<1>2. CASE Greeted
  <2>1. pc["gemini"] = "off" /\ pc'["gemini"] = "read"
    BY <1>2, ElsewiseCopiers DEF Greeted, Control, Early, Copiers, Goroutines
  <2>2. shown' = [shown EXCEPT !.greeted = TRUE]
    BY <1>2 DEF Greeted
  <2>3. shown'.faults = shown.faults /\ shown'.greeted = TRUE /\ Reading' = Reading
    BY <2>2 DEF Data, Shown, Reading
  <2> QED
    BY <1>1, <2>1, <2>3, WellStays
<1>3. CASE ~Greeted
  <2>1. UNCHANGED shown /\ pc'["gemini"] = pc["gemini"]
    BY <1>3, ElsewiseCopiers DEF Copiers
  <2>2. Reading' = Reading
    BY <2>1 DEF Reading
  <2> QED
    BY <1>1, <2>1, <2>2, WellStays
<1> QED
  BY <1>2, <1>3

LEMMA WellKept == Base /\ ShownWell /\ [Next]_vars => ShownWell'
<1> SUFFICES ASSUME Base, ShownWell, [Next]_vars PROVE ShownWell'
  OBVIOUS
<1>1. CASE Done \/ UNCHANGED vars
  <2>1. UNCHANGED <<shown, heard, encoder, answering, events, outgoing, pc>>
    BY <1>1 DEF Done, vars
  <2>2. Reading' = Reading
    BY <2>1 DEF Reading
  <2> QED
    BY <2>1, <2>2, WellStays
<1> QED
  BY <1>1, ClientWell, GeminiWell, CopyingWell, ElsewiseWell, NextSplits

LEMMA WellStarts == Init => ShownWell
<1> SUFFICES ASSUME Init PROVE ShownWell
  OBVIOUS
<1>1. pc["gemini"] = "off" /\ shown.faults = {} /\ encoder.item = "none"
  BY DEF Init, InitSession, Goroutines
<1>2. Reading = Written(0) /\ outgoing = <<>>
  BY DEF Init, InitSession, Reading, Written
<1>3. Written(0) \in Spot
  BY DataStarts, SpotsTyped
<1>4. Leads(outgoing, Reading, Written(0))
  BY <1>2, <1>3, LeadsNowhere
<1>5. answering.media = {} /\ events = <<>> /\ heard.pieces = 0
  BY DEF Init, NoAnswer
<1>6. Unsaid(0)
  BY <1>5, NothingSaid DEF Unsaid
<1>7. InLine
  BY <1>4, <1>6 DEF InLine
<1> QED
  BY <1>1, <1>7 DEF ShownWell

-----------------------------------------------------------------------------
(* The second theorem.                                                     *)

IInv == Base /\ Dialogue /\ CallsKnown /\ ShownWell

LEMMA IInvHolds == Spec => []IInv
<1>1. Init => Base
  BY ControlStarts, DataStarts DEF Base
<1>2. Init => IInv
  BY <1>1, DialogueStarts, KnownStarts, WellStarts DEF IInv
<1>3. IInv /\ [Next]_vars => IInv'
  BY BaseKept, DialogueKept, KnownKept, WellKept DEF IInv
<1> QED
  BY <1>2, <1>3, PTL DEF Spec

(* Each side reads a dialogue of its own protocol, however the copiers,    *)
(* the mutexes, the deadlines and the peers interleave: the client's       *)
(* messages reach Gemini in order, once, and only after the setup it has   *)
(* confirmed; the client gets well-formed responses with every piece once; *)
(* and the first message that carries a call it was shown is not refused   *)
(* as unknown.                                                             *)
THEOREM BothReadInOrder == Spec => []InOrder
<1>1. IInv => InOrder
  <2> SUFFICES ASSUME IInv PROVE InOrder
    OBVIOUS
  <2>1. heard.faults = {} /\ shown.faults = {}
    BY DEF IInv, Dialogue, ShownWell
  <2>2. CallsAnswerable
    <3>1. Taken \subseteq IF pc["client"] = "text" THEN {asking.call} ELSE {}
      BY DEF Taken
    <3> QED
      BY <3>1 DEF IInv, CallsKnown, Known, CallsAnswerable
  <2> QED
    BY <2>1, <2>2 DEF InOrder
<1> QED
  BY <1>1, IInvHolds, PTL
=============================================================================
