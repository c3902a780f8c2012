--------------------------- MODULE AccountsProofs ---------------------------
(***************************************************************************)
(* Accounts for any number of administrators, providers and requests, any  *)
(* lifetimes and any capacity.  A step of the whole is a step of the       *)
(* sessions and a step of the tokens (NextSplits), so each property is     *)
(* proved of the component it is about, by cases on the component's own    *)
(* actions.                                                                *)
(***************************************************************************)
EXTENDS Accounts, FiniteSetTheorems, SequenceTheorems, TLAPS

USE ProvidersAssumption, SessionsAssumption, TokensAssumption

(* The steps of the two components.                                        *)
SessionStep ==
  \/ UNCHANGED adminVars
  \/ SessionsLost
  \/ \E s \in sessions : Refuse(s) \/ SignOut(s)
  \/ \E a \in Admins :
       \/ SignIn(a) \/ OpenSession(a) \/ Enter(a) \/ Leave(a) \/ Started(a)
       \/ \E s \in sessions, p \in Providers : Start(a, s, p) \/ Submit(a, s, p)

TokenStep ==
  \/ UNCHANGED tokenVars
  \/ LoginsLost
  \/ \E p \in Providers, at \in Nat : Begin(p, at)
  \/ \E p \in Providers : DeleteTokens(p)
  \/ \E c \in Callbacks :
       \/ \E s \in pending, p \in Providers : Complete(c, s, p)
       \/ Exchange(c) \/ CallbackStores(c) \/ CallbackFails(c)
  \/ \E r \in Callers :
       \/ \E p \in Providers : BearerToken(r, p)
       \/ Refresh(r) \/ RefreshStored(r) \/ RefreshFails(r)

Forward == now' \in Nat /\ now <= now'

LEMMA NextSplits ==
  ASSUME TypeOK, [Next]_vars
  PROVE  SessionStep /\ TokenStep /\ Forward /\ bounds' = bounds
<1>. USE DEF TypeOK
<1>1. CASE Tick
  BY <1>1 DEF Tick, SessionStep, TokenStep, Forward
<1>2. CASE Restart
  BY <1>2 DEF Restart, SessionStep, TokenStep, Forward
<1>3. CASE SessionEnds
  BY <1>3 DEF SessionEnds, SessionStep, TokenStep, Forward
<1>4. ASSUME NEW a \in Admins, Arrives(a) \/ Proceeds(a)
      PROVE  SessionStep /\ TokenStep /\ Forward /\ bounds' = bounds
  <2>1. UNCHANGED <<now, bounds, tokenVars>>
    BY <1>4 DEF Arrives, Proceeds
  <2>2. SessionStep
    BY <1>4 DEF Arrives, Proceeds, SessionStep
  <2> QED
    BY <2>1, <2>2 DEF TokenStep, Forward
<1>5. ASSUME NEW a \in Admins, BeginLogin(a)
      PROVE  SessionStep /\ TokenStep /\ Forward /\ bounds' = bounds
  <2>1. admin[a].provider \in Providers /\ admin[a].at \in Nat
    BY <1>5 DEF BeginLogin, Started, SessionsTypeOK, Request
  <2>2. Started(a) /\ Begin(admin[a].provider, admin[a].at) /\ UNCHANGED <<now, bounds>>
    BY <1>5 DEF BeginLogin
  <2> QED
    BY <2>1, <2>2 DEF SessionStep, TokenStep, Forward
<1>6. ASSUME NEW a \in Admins, Disconnect(a)
      PROVE  SessionStep /\ TokenStep /\ Forward /\ bounds' = bounds
  <2>1. admin[a].provider \in Providers
    BY <1>6 DEF Disconnect, Leave, SessionsTypeOK
  <2>2. Leave(a) /\ DeleteTokens(admin[a].provider) /\ UNCHANGED <<now, bounds>>
    BY <1>6 DEF Disconnect
  <2> QED
    BY <2>1, <2>2 DEF SessionStep, TokenStep, Forward
<1>7. ASSUME NEW a \in Admins, DisconnectFails(a)
      PROVE  SessionStep /\ TokenStep /\ Forward /\ bounds' = bounds
  BY <1>7 DEF DisconnectFails, SessionStep, TokenStep, Forward
<1>8. ASSUME NEW c \in Callbacks, Callbacking(c)
      PROVE  SessionStep /\ TokenStep /\ Forward /\ bounds' = bounds
  <2>1. UNCHANGED <<now, bounds, adminVars>>
    BY <1>8 DEF Callbacking
  <2>2. TokenStep
    BY <1>8 DEF Callbacking, TokenStep
  <2> QED
    BY <2>1, <2>2 DEF SessionStep, Forward
<1>9. ASSUME NEW r \in Callers, Calling(r)
      PROVE  SessionStep /\ TokenStep /\ Forward /\ bounds' = bounds
  <2>1. UNCHANGED <<now, bounds, adminVars>>
    BY <1>9 DEF Calling
  <2>2. TokenStep
    BY <1>9 DEF Calling, TokenStep
  <2> QED
    BY <2>1, <2>2 DEF SessionStep, Forward
<1>10. CASE UNCHANGED vars
  BY <1>10 DEF vars, SessionStep, TokenStep, Forward
<1> QED
  BY <1>1, <1>2, <1>3, <1>4, <1>5, <1>6, <1>7, <1>8, <1>9, <1>10 DEF Next

-----------------------------------------------------------------------------
(* Making room leaves fewer than the capacity and takes nothing that is    *)
(* younger than what it leaves.                                            *)
LEMMA RoomMade ==
  ASSUME NEW held, IsFiniteSet(held), NEW born, NEW cap \in Nat \ {0},
         Cardinality(held) <= cap, NEW kept \in Room(held, born, cap)
  PROVE  /\ kept \subseteq held /\ IsFiniteSet(kept) /\ Cardinality(kept) < cap
         /\ \A x \in held \ kept :
              Cardinality(held) >= cap /\ \A y \in held : born[x] <= born[y]
<1>0. Cardinality(held) \in Nat
  BY FS_CardinalityType
<1>1. CASE Cardinality(held) >= cap
  <2>1. PICK x \in Oldest(held, born) : kept = held \ {x}
    BY <1>1 DEF Room
  <2>2. x \in held /\ \A y \in held : born[x] <= born[y]
    BY <2>1 DEF Oldest
  <2>3. IsFiniteSet(kept) /\ Cardinality(kept) = Cardinality(held) - 1
    BY <2>1, <2>2, FS_RemoveElement
  <2> QED
    BY <1>0, <1>1, <2>1, <2>2, <2>3
<1>2. CASE ~(Cardinality(held) >= cap)
  <2>1. kept = held
    BY <1>2 DEF Room
  <2> QED
    BY <1>0, <1>2, <2>1
<1> QED
  BY <1>1, <1>2

(* An insertion into a register within its capacity.                       *)
Insertions(held, born, cap, ttl, t) == Room(Live(held, born, ttl, t), born, cap)

LEMMA InsertionBounded ==
  ASSUME NEW held, IsFiniteSet(held), NEW born, NEW cap \in Nat \ {0},
         NEW ttl, NEW t, Cardinality(held) <= cap,
         NEW kept \in Insertions(held, born, cap, ttl, t)
  PROVE  kept \subseteq held /\ \A new : Cardinality(kept \cup {new}) <= cap
<1>. SUFFICES ASSUME NEW new
              PROVE  kept \subseteq held /\ Cardinality(kept \cup {new}) <= cap
  OBVIOUS
<1>1. Live(held, born, ttl, t) \in SUBSET held
  BY DEF Live
<1>2. /\ IsFiniteSet(Live(held, born, ttl, t))
      /\ Cardinality(Live(held, born, ttl, t)) <= Cardinality(held)
      /\ Cardinality(Live(held, born, ttl, t)) \in Nat /\ Cardinality(held) \in Nat
  BY <1>1, FS_Subset, FS_CardinalityType
<1>3. Cardinality(Live(held, born, ttl, t)) <= cap
  BY <1>2
<1>4. kept \subseteq Live(held, born, ttl, t) /\ IsFiniteSet(kept) /\ Cardinality(kept) < cap
  BY <1>2, <1>3, RoomMade DEF Insertions
<1>5. /\ Cardinality(kept) \in Nat
      /\ \/ Cardinality(kept \cup {new}) = Cardinality(kept)
         \/ Cardinality(kept \cup {new}) = Cardinality(kept) + 1
  <2>1. Cardinality(kept \cup {new}) =
          IF new \in kept THEN Cardinality(kept) ELSE Cardinality(kept) + 1
    BY <1>4, FS_AddElement
  <2>2. Cardinality(kept) \in Nat
    BY <1>4, FS_CardinalityType
  <2> QED
    BY <2>1, <2>2
<1>6. IsFiniteSet(kept \cup {new})
  BY <1>4, FS_AddElement
<1>7. Cardinality(kept \cup {new}) \in Nat
  BY <1>6, FS_CardinalityType
<1> QED
  BY <1>1, <1>4, <1>5, <1>7

LEMMA RoomWithin ==
  ASSUME NEW held, NEW born, NEW cap, NEW kept \in Room(held, born, cap)
  PROVE  kept \subseteq held
<1>1. CASE Cardinality(held) >= cap
  BY <1>1 DEF Room
<1>2. CASE ~(Cardinality(held) >= cap)
  BY <1>2 DEF Room
<1> QED
  BY <1>1, <1>2

LEMMA FewerHeld ==
  ASSUME NEW held, IsFiniteSet(held), NEW cap \in Nat, Cardinality(held) <= cap,
         NEW kept \in SUBSET held
  PROVE  Cardinality(kept) <= cap
<1>1. IsFiniteSet(kept) /\ Cardinality(kept) <= Cardinality(held)
  BY FS_Subset
<1> QED
  BY <1>1, FS_CardinalityType

LEMMA FiniteHeld ==
  ASSUME NEW S, NEW s \in Seq(S), NEW held \in SUBSET (DOMAIN s)
  PROVE  IsFiniteSet(held)
<1>1. DOMAIN s = 1 .. Len(s) /\ Len(s) \in Nat
  BY LenProperties
<1>2. IsFiniteSet(1 .. Len(s))
  BY <1>1, FS_Interval
<1> QED
  BY <1>1, <1>2, FS_Subset

LEMMA Appended ==
  ASSUME NEW S, NEW s \in Seq(S), NEW x \in S
  PROVE  /\ Append(s, x) \in Seq(S)
         /\ DOMAIN Append(s, x) = DOMAIN s \cup {Len(s) + 1}
         /\ Len(s) + 1 \notin DOMAIN s
         /\ \A i \in DOMAIN s : Append(s, x)[i] = s[i]
         /\ Append(s, x)[Len(s) + 1] = x
<1>1. Len(s) \in Nat /\ DOMAIN s = 1 .. Len(s)
  BY LenProperties
<1>2. Append(s, x) \in Seq(S) /\ Len(Append(s, x)) = Len(s) + 1
  BY AppendProperties
<1>3. DOMAIN Append(s, x) = 1 .. Len(s) + 1
  BY <1>2, LenProperties
<1>4. 1 .. Len(s) + 1 = (1 .. Len(s)) \cup {Len(s) + 1}
  BY <1>1
<1> QED
  BY <1>1, <1>2, <1>3, <1>4, AppendProperties

-----------------------------------------------------------------------------
LEMMA RequestsTyped ==
  ASSUME SessionsTypeOK, NEW a \in Admins, NEW pc \in {"idle", "login", "start", "wait"},
         NEW at \in Nat, NEW p \in Providers \cup {NoProvider},
         pc \in {"start", "wait"} => p \in Providers,
         admin[a].pc # "run", UNCHANGED mutating,
         admin' = [admin EXCEPT ![a] = [pc |-> pc, at |-> at, provider |-> p]]
  PROVE  /\ admin' \in [Admins -> Request]
         /\ \A b \in Admins :
              admin'[b].pc \in {"start", "wait", "run"} => admin'[b].provider \in Providers
         /\ \A b \in Admins : admin'[b].pc = "run" <=> mutating' = b
<1>1. [pc |-> pc, at |-> at, provider |-> p] \in Request
  BY DEF Request
<1>2. admin' \in [Admins -> Request]
  BY <1>1 DEF SessionsTypeOK
<1>3. \A b \in Admins \ {a} : admin'[b] = admin[b]
  BY DEF SessionsTypeOK
<1>4. admin'[a] = [pc |-> pc, at |-> at, provider |-> p]
  BY DEF SessionsTypeOK
<1>5. admin'[a].pc # "run" /\ mutating # a
  BY <1>4 DEF SessionsTypeOK
<1> QED
  BY <1>2, <1>3, <1>4, <1>5 DEF SessionsTypeOK

LEMMA SessionsTyped ==
  ASSUME SessionsTypeOK, SessionStep, now \in Nat
  PROVE  SessionsTypeOK'
<1>. USE DEF SessionsTypeOK
<1>0. IsFiniteSet(sessions)
  BY FiniteHeld
<1>1. CASE UNCHANGED adminVars
  BY <1>1 DEF adminVars
<1>2. CASE SessionsLost
  <2>1. IdleRequest \in Request
    BY DEF IdleRequest, Request
  <2>2. admin' \in [Admins -> Request] /\ \A a \in Admins : admin'[a].pc = "idle"
    BY <1>2, <2>1 DEF SessionsLost, IdleRequest
  <2>3. /\ sessions' = {} /\ mutating' = NoAdmin /\ signins' = signins
        /\ closed' = closed \cup sessions
    BY <1>2 DEF SessionsLost
  <2>4. Cardinality({}) = 0
    BY FS_EmptySet
  <2> QED
    BY <2>2, <2>3, <2>4
<1>3. ASSUME NEW s \in sessions, Refuse(s) \/ SignOut(s) PROVE SessionsTypeOK'
  <2>1. /\ sessions' = sessions \ {s} /\ closed' \in SUBSET (DOMAIN signins)
        /\ UNCHANGED <<signins, admin, mutating>>
    BY <1>3 DEF Refuse, SignOut
  <2>2. Cardinality(sessions') <= MaxSessions
    BY <1>0, <2>1, FewerHeld
  <2> QED
    BY <2>1, <2>2
<1>4. ASSUME NEW a \in Admins, SignIn(a) PROVE SessionsTypeOK'
  <2>1. /\ admin' \in [Admins -> Request]
        /\ \A b \in Admins :
             admin'[b].pc \in {"start", "wait", "run"} => admin'[b].provider \in Providers
        /\ \A b \in Admins : admin'[b].pc = "run" <=> mutating' = b
    BY <1>4, RequestsTyped DEF SignIn, Goes
  <2> QED
    BY <1>4, <2>1 DEF SignIn
<1>5. ASSUME NEW a \in Admins, OpenSession(a) PROVE SessionsTypeOK'
  <2>1. /\ admin' \in [Admins -> Request]
        /\ \A b \in Admins :
             admin'[b].pc \in {"start", "wait", "run"} => admin'[b].provider \in Providers
        /\ \A b \in Admins : admin'[b].pc = "run" <=> mutating' = b
    BY <1>5, RequestsTyped DEF OpenSession, Returns, IdleRequest
  <2>2. admin[a].at \in Nat
    BY DEF Request
  <2>3. /\ signins' \in Seq(Nat) /\ DOMAIN signins' = DOMAIN signins \cup {Len(signins) + 1}
    BY <1>5, <2>2, Appended DEF OpenSession
  <2>4. PICK kept \in Room(Live(sessions, signins, SessionTTL, admin[a].at), signins, MaxSessions) :
          sessions' = kept \cup {Len(signins) + 1}
    BY <1>5 DEF OpenSession
  <2>5. kept \subseteq sessions /\ Cardinality(sessions') <= MaxSessions
    <3>1. Cardinality(sessions) <= MaxSessions /\ MaxSessions \in Nat \ {0}
      OBVIOUS
    <3>2. PICK t : kept \in Insertions(sessions, signins, MaxSessions, SessionTTL, t)
      BY DEF Insertions
    <3>3. /\ kept \subseteq sessions
          /\ \A new : Cardinality(kept \cup {new}) <= MaxSessions
      BY ONLY <1>0, <3>1, <3>2, InsertionBounded, Zenon
    <3> QED
      BY <2>4, <3>3
  <2>6. UNCHANGED <<mutating, closed>>
    BY <1>5 DEF OpenSession
  <2> QED
    BY <2>1, <2>3, <2>4, <2>5, <2>6
<1>6. ASSUME NEW a \in Admins, NEW s \in sessions, NEW p \in Providers,
             Start(a, s, p) \/ Submit(a, s, p)
      PROVE  SessionsTypeOK'
  <2>1. /\ admin' \in [Admins -> Request]
        /\ \A b \in Admins :
             admin'[b].pc \in {"start", "wait", "run"} => admin'[b].provider \in Providers
        /\ \A b \in Admins : admin'[b].pc = "run" <=> mutating' = b
    <3>1. CASE Start(a, s, p)
      BY <3>1, RequestsTyped DEF Start, Goes
    <3>2. CASE Submit(a, s, p)
      BY <3>2, RequestsTyped DEF Submit, Goes
    <3> QED
      BY <1>6, <3>1, <3>2
  <2>2. UNCHANGED <<signins, sessions, mutating, closed>>
    BY <1>6 DEF Start, Submit
  <2> QED
    BY <2>1, <2>2
<1>7. ASSUME NEW a \in Admins, Enter(a) PROVE SessionsTypeOK'
  <2>1. /\ admin[a].provider \in Providers
        /\ admin' = [admin EXCEPT ![a] = [pc |-> "run", at |-> 0, provider |-> admin[a].provider]]
        /\ mutating = NoAdmin /\ mutating' = a /\ UNCHANGED <<signins, sessions, closed>>
    BY <1>7 DEF Enter, Goes
  <2>2. [pc |-> "run", at |-> 0, provider |-> admin[a].provider] \in Request
    BY <2>1 DEF Request
  <2>3. admin' \in [Admins -> Request] /\ \A b \in Admins \ {a} : admin'[b] = admin[b]
    BY <2>1, <2>2
  <2>4. admin'[a].pc = "run" /\ admin'[a].provider \in Providers
    BY <2>1
  <2> QED
    BY <2>1, <2>3, <2>4
<1>8. ASSUME NEW a \in Admins, Leave(a) PROVE SessionsTypeOK'
  <2>1. /\ admin' = [admin EXCEPT ![a] = IdleRequest] /\ mutating = a
        /\ mutating' = NoAdmin /\ UNCHANGED <<signins, sessions, closed>>
    BY <1>8 DEF Leave, Returns
  <2>2. IdleRequest \in Request /\ IdleRequest.pc = "idle"
    BY DEF IdleRequest, Request
  <2>3. admin' \in [Admins -> Request] /\ \A b \in Admins \ {a} : admin'[b] = admin[b]
    BY <2>1, <2>2
  <2>4. admin'[a].pc = "idle"
    BY <2>1, <2>2
  <2> QED
    BY <2>1, <2>3, <2>4
<1>9. ASSUME NEW a \in Admins, Started(a) PROVE SessionsTypeOK'
  <2>1. /\ admin' \in [Admins -> Request]
        /\ \A b \in Admins :
             admin'[b].pc \in {"start", "wait", "run"} => admin'[b].provider \in Providers
        /\ \A b \in Admins : admin'[b].pc = "run" <=> mutating' = b
    BY <1>9, RequestsTyped DEF Started, Returns, IdleRequest
  <2> QED
    BY <1>9, <2>1 DEF Started
<1> QED
  BY <1>1, <1>2, <1>3, <1>4, <1>5, <1>6, <1>7, <1>8, <1>9 DEF SessionStep

-----------------------------------------------------------------------------
LEMMA AnswersTyped ==
  ASSUME TokensTypeOK, now \in Nat
  PROVE  /\ NoTokens \in TokenSet /\ IdleCallback \in Callback /\ IdleCaller \in Caller
         /\ Expiries \subseteq Nat
         /\ IdleCallback.pc = "idle" /\ IdleCaller.pc = "idle"
<1>1. NoTokens \in TokenSet
  BY DEF NoTokens, TokenSet
<1>2. Expiries \subseteq Nat
  BY DEF Expiries
<1> QED
  BY <1>1, <1>2 DEF IdleCallback, IdleCaller, Callback, Caller

(* The callbacks after one of them has moved.                              *)
LEMMA CallbacksTyped ==
  ASSUME TokensTypeOK, NEW c \in Callbacks, NEW x \in Callback,
         x.pc # "idle" => x.login \in DOMAIN logins /\ x.provider \in Providers,
         callback' = [callback EXCEPT ![c] = x], UNCHANGED logins
  PROVE  /\ callback' \in [Callbacks -> Callback]
         /\ \A d \in Callbacks :
              callback'[d].pc # "idle" =>
                callback'[d].login \in DOMAIN logins' /\ callback'[d].provider \in Providers
BY DEF TokensTypeOK

LEMMA CallersTyped ==
  ASSUME TokensTypeOK, NEW r \in Callers, NEW x \in Caller,
         x.pc # "idle" => x.provider \in Providers,
         caller' = [caller EXCEPT ![r] = x]
  PROVE  /\ caller' \in [Callers -> Caller]
         /\ \A q \in Callers : caller'[q].pc # "idle" => caller'[q].provider \in Providers
BY DEF TokensTypeOK

LEMMA TokensTyped ==
  ASSUME TokensTypeOK, TokenStep, now \in Nat
  PROVE  TokensTypeOK'
<1>. USE DEF TokensTypeOK
<1>0. IsFiniteSet(pending)
  BY FiniteHeld
<1>1. CASE UNCHANGED tokenVars
  BY <1>1 DEF tokenVars
<1>2. CASE LoginsLost
  <2>1. /\ callback' \in [Callbacks -> Callback] /\ \A c \in Callbacks : callback'[c].pc = "idle"
        /\ caller' \in [Callers -> Caller] /\ \A r \in Callers : caller'[r].pc = "idle"
    BY <1>2, AnswersTyped DEF LoginsLost
  <2>2. exchanged' \subseteq DOMAIN logins
    BY <1>2 DEF LoginsLost
  <2>3. /\ pending' = {} /\ used' = used \cup pending /\ lock' = NoCaller
        /\ UNCHANGED <<logins, tokens, minted, spent, off>>
    BY <1>2 DEF LoginsLost
  <2>4. Cardinality({}) = 0
    BY FS_EmptySet
  <2> QED
    BY <2>1, <2>2, <2>3, <2>4
<1>3. ASSUME NEW p \in Providers, NEW at \in Nat, Begin(p, at) PROVE TokensTypeOK'
  <2>1. [provider |-> p, created |-> at] \in Login
    BY DEF Login
  <2>2. logins' \in Seq(Login) /\ DOMAIN logins' = DOMAIN logins \cup {Len(logins) + 1}
    BY <1>3, <2>1, Appended DEF Begin
  <2>3. PICK kept \in Room(Live(pending, Created, StateTTL, now), Created, MaxPending) :
          pending' = kept \cup {Len(logins) + 1}
    BY <1>3 DEF Begin
  <2>4. kept \subseteq pending /\ Cardinality(pending') <= MaxPending
    <3>1. Cardinality(pending) <= MaxPending /\ MaxPending \in Nat \ {0}
      OBVIOUS
    <3>2. kept \in Insertions(pending, Created, MaxPending, StateTTL, now)
      BY DEF Insertions
    <3>3. /\ kept \subseteq pending
          /\ \A new : Cardinality(kept \cup {new}) <= MaxPending
      BY ONLY <1>0, <3>1, <3>2, InsertionBounded, Zenon
    <3> QED
      BY <2>3, <3>3
  <2>5. /\ off' = off \ {p}
        /\ UNCHANGED <<tokens, callback, caller, lock, minted, used, exchanged, spent>>
    BY <1>3 DEF Begin
  <2> QED
    BY <2>2, <2>3, <2>4, <2>5
<1>4. ASSUME NEW p \in Providers, DeleteTokens(p) PROVE TokensTypeOK'
  <2>1. tokens' \in [Providers -> TokenSet] /\ off' \subseteq Providers
    BY <1>4, AnswersTyped DEF DeleteTokens
  <2> QED
    BY <1>4, <2>1 DEF DeleteTokens
<1>5. ASSUME NEW c \in Callbacks, NEW s \in pending, NEW p \in Providers, Complete(c, s, p)
      PROVE  TokensTypeOK'
  <2>1. pending' = pending \ {s} /\ used' = used \cup {s}
        /\ UNCHANGED <<logins, tokens, caller, lock, minted, exchanged, spent, off>>
    BY <1>5 DEF Complete, Consume
  <2>2. Cardinality(pending') <= MaxPending
    BY <1>0, <2>1, FewerHeld
  <2>3. \/ UNCHANGED callback
        \/ callback' = [callback EXCEPT ![c] =
             [pc |-> "exchange", login |-> s, provider |-> p, got |-> NoTokens]]
    BY <1>5 DEF Complete
  <2>4. [pc |-> "exchange", login |-> s, provider |-> p, got |-> NoTokens] \in Callback
    <3>1. s \in Nat
      BY LenProperties
    <3> QED
      BY <3>1, AnswersTyped DEF Callback
  <2>5. /\ callback' \in [Callbacks -> Callback]
        /\ \A d \in Callbacks :
             callback'[d].pc # "idle" =>
               callback'[d].login \in DOMAIN logins' /\ callback'[d].provider \in Providers
    <3>1. CASE UNCHANGED callback
      BY <2>1, <3>1
    <3>2. CASE ~UNCHANGED callback
      BY <2>1, <2>3, <2>4, <3>2, CallbacksTyped
    <3> QED
      BY <3>1, <3>2
  <2> QED
    BY <2>1, <2>2, <2>5
<1>6. ASSUME NEW c \in Callbacks, Exchange(c) PROVE TokensTypeOK'
  <2>1. PICK refresh \in 0 .. minted + 1, expires \in Expiries :
          /\ Minted(0, refresh)
          /\ callback' = [callback EXCEPT ![c] =
               [@ EXCEPT !.pc = "store",
                         !.got = [by |-> callback[c].login, refresh |-> refresh, expires |-> expires]]]
    BY <1>6 DEF Exchange
  <2>2. /\ UNCHANGED <<logins, pending, tokens, caller, lock, used, exchanged, spent, off>>
        /\ callback[c].pc # "idle"
    BY <1>6 DEF Exchange
  <2>3. minted' \in Nat
    BY <2>1 DEF Minted
  <2> DEFINE got == [by |-> callback[c].login, refresh |-> refresh, expires |-> expires]
             x == [callback[c] EXCEPT !.pc = "store", !.got = got]
  <2>4. callback[c] \in Callback
    OBVIOUS
  <2>5. got \in TokenSet
    BY <2>4, AnswersTyped DEF TokenSet, Callback
  <2>6. x \in Callback /\ x.login = callback[c].login /\ x.provider = callback[c].provider
    BY <2>4, <2>5 DEF Callback
  <2>7. callback' = [callback EXCEPT ![c] = x]
    BY <2>1
  <2>8. callback[c].login \in DOMAIN logins /\ callback[c].provider \in Providers
    BY <2>2
  <2> HIDE DEF x
  <2>9. /\ callback' \in [Callbacks -> Callback]
        /\ \A d \in Callbacks :
             callback'[d].pc # "idle" =>
               callback'[d].login \in DOMAIN logins' /\ callback'[d].provider \in Providers
    BY <2>2, <2>6, <2>7, <2>8, CallbacksTyped
  <2> QED
    BY <2>2, <2>3, <2>9
<1>7. ASSUME NEW c \in Callbacks, CallbackStores(c) \/ CallbackFails(c) PROVE TokensTypeOK'
  <2>1. /\ callback[c].pc # "idle"
        /\ callback' = [callback EXCEPT ![c] = IdleCallback]
        /\ exchanged' = exchanged \cup {callback[c].login}
        /\ UNCHANGED <<logins, pending, caller, lock, minted, used, spent, off>>
    BY <1>7 DEF CallbackStores, CallbackFails, CallbackReturns
  <2>2. tokens' \in [Providers -> TokenSet]
    <3>1. callback[c].got \in TokenSet
      BY DEF Callback
    <3> QED
      BY <1>7, <3>1 DEF CallbackStores, CallbackFails
  <2>3. /\ callback' \in [Callbacks -> Callback]
        /\ \A d \in Callbacks :
             callback'[d].pc # "idle" =>
               callback'[d].login \in DOMAIN logins' /\ callback'[d].provider \in Providers
    BY <2>1, AnswersTyped, CallbacksTyped
  <2>4. callback[c].login \in DOMAIN logins
    BY <2>1
  <2> QED
    BY <2>1, <2>2, <2>3, <2>4
<1>8. ASSUME NEW r \in Callers, NEW p \in Providers, BearerToken(r, p) PROVE TokensTypeOK'
  <2>1. [pc |-> "refresh", provider |-> p, seen |-> tokens[p], got |-> NoTokens] \in Caller
    BY AnswersTyped DEF Caller
  <2>2. /\ caller' \in [Callers -> Caller]
        /\ \A q \in Callers : caller'[q].pc # "idle" => caller'[q].provider \in Providers
    BY <1>8, <2>1, CallersTyped DEF BearerToken
  <2> QED
    BY <1>8, <2>2 DEF BearerToken
<1>9. ASSUME NEW r \in Callers, Refresh(r) PROVE TokensTypeOK'
  <2>1. PICK refresh \in 0 .. minted + 1, expires \in Expiries :
          /\ Minted(caller[r].seen.refresh, refresh)
          /\ caller' = [caller EXCEPT ![r] =
               [@ EXCEPT !.pc = "store",
                         !.got = [by |-> caller[r].seen.by, refresh |-> refresh, expires |-> expires]]]
    BY <1>9 DEF Refresh
  <2>2. /\ UNCHANGED <<logins, pending, tokens, callback, lock, used, exchanged, spent, off>>
        /\ caller[r].pc # "idle"
    BY <1>9 DEF Refresh
  <2>3. minted' \in Nat
    BY <2>1 DEF Minted
  <2> DEFINE got == [by |-> caller[r].seen.by, refresh |-> refresh, expires |-> expires]
             x == [caller[r] EXCEPT !.pc = "store", !.got = got]
  <2>4. caller[r] \in Caller
    OBVIOUS
  <2>5. got \in TokenSet
    <3>1. caller[r].seen \in TokenSet
      BY <2>4 DEF Caller
    <3>2. caller[r].seen.by \in Nat /\ expires \in Nat /\ refresh \in Nat
      BY <3>1, AnswersTyped DEF TokenSet
    <3> QED
      BY <3>2 DEF TokenSet
  <2>6. x \in Caller /\ x.provider = caller[r].provider
    BY <2>4, <2>5 DEF Caller
  <2>7. caller' = [caller EXCEPT ![r] = x]
    BY <2>1
  <2>8. caller[r].provider \in Providers
    BY <2>2
  <2> HIDE DEF x
  <2>9. /\ caller' \in [Callers -> Caller]
        /\ \A q \in Callers : caller'[q].pc # "idle" => caller'[q].provider \in Providers
    BY <2>6, <2>7, <2>8, CallersTyped
  <2> QED
    BY <2>2, <2>3, <2>9
<1>10. ASSUME NEW r \in Callers, RefreshStored(r) \/ RefreshFails(r) PROVE TokensTypeOK'
  <2>1. /\ caller' = [caller EXCEPT ![r] = IdleCaller] /\ lock' = NoCaller
        /\ UNCHANGED <<logins, pending, callback, minted, used, exchanged, off>>
    BY <1>10 DEF RefreshStored, RefreshFails, CallerReturns
  <2>2. caller[r].seen \in TokenSet /\ caller[r].got \in TokenSet
    BY DEF Caller
  <2>3. tokens' \in [Providers -> TokenSet] /\ spent' \subseteq Nat
    BY <1>10, <2>2 DEF RefreshStored, RefreshFails, TokenSet
  <2>4. /\ caller' \in [Callers -> Caller]
        /\ \A q \in Callers : caller'[q].pc # "idle" => caller'[q].provider \in Providers
    BY <2>1, AnswersTyped, CallersTyped
  <2> QED
    BY <2>1, <2>3, <2>4
<1> QED
  BY <1>1, <1>2, <1>3, <1>4, <1>5, <1>6, <1>7, <1>8, <1>9, <1>10 DEF TokenStep

LEMMA TypeAtStart == Init => TypeOK
<1> SUFFICES ASSUME Init PROVE TypeOK
  OBVIOUS
<1>1. IdleRequest \in Request
  BY DEF IdleRequest, Request
<1>2. Cardinality({}) = 0
  BY FS_EmptySet
<1>3. NoTokens \in TokenSet /\ IdleCallback \in Callback /\ IdleCaller \in Caller
  BY DEF NoTokens, TokenSet, IdleCallback, Callback, IdleCaller, Caller
<1>4. now \in Nat /\ bounds \in Bound
  BY BoundsAssumption DEF Init
<1>5. SessionsTypeOK
  BY <1>1, <1>2 DEF Init, SessionsInit, SessionsTypeOK, IdleRequest
<1>6. TokensTypeOK
  BY <1>2, <1>3 DEF Init, TokensInit, TokensTypeOK, IdleCallback, IdleCaller
<1> QED
  BY <1>4, <1>5, <1>6 DEF TypeOK

(* The registers and the requests keep their shapes and the registers      *)
(* their capacities; one mutation and one refresh at a time hold their     *)
(* mutexes (SessionAuth, RuntimeTokenResolver).                            *)
THEOREM TypeCorrect == Spec => []TypeOK
<1>1. Init => TypeOK
  BY TypeAtStart
<1>2. TypeOK /\ [Next]_vars => TypeOK'
  <2> SUFFICES ASSUME TypeOK, [Next]_vars PROVE TypeOK'
    OBVIOUS
  <2>1. SessionStep /\ TokenStep /\ Forward /\ bounds' = bounds
    BY NextSplits
  <2>2. SessionsTypeOK' /\ TokensTypeOK'
    BY <2>1, SessionsTyped, TokensTyped DEF TypeOK
  <2> QED
    BY <2>1, <2>2 DEF TypeOK, Forward
<1> QED
  BY <1>1, <1>2, PTL DEF Spec

-----------------------------------------------------------------------------
Younger(D, born, s) == {t \in D : born[t] >= born[s]}

(* What is inserted later never makes fewer of those that are as young.    *)
LEMMA YoungerStay ==
  ASSUME NEW D, NEW E, IsFiniteSet(E), D \subseteq E, NEW b, NEW c, \A t \in D : c[t] = b[t],
         NEW s \in D, NEW cap \in Nat, Cardinality(Younger(D, b, s)) >= cap
  PROVE  Cardinality(Younger(E, c, s)) >= cap
<1>1. Younger(D, b, s) \in SUBSET Younger(E, c, s)
  BY DEF Younger
<1>2. Younger(E, c, s) \in SUBSET E
  BY DEF Younger
<1>3. IsFiniteSet(Younger(E, c, s))
  BY <1>2, FS_Subset
<1>4. /\ IsFiniteSet(Younger(D, b, s))
      /\ Cardinality(Younger(D, b, s)) <= Cardinality(Younger(E, c, s))
  BY <1>1, <1>3, FS_Subset
<1>5. Cardinality(Younger(D, b, s)) \in Nat /\ Cardinality(Younger(E, c, s)) \in Nat
  BY <1>3, <1>4, FS_CardinalityType
<1> QED
  BY <1>4, <1>5

(* An entry an insertion drops has expired or is the oldest of many.       *)
LEMMA EvictedIsOldest ==
  ASSUME NEW D, IsFiniteSet(D), NEW held \in SUBSET D, NEW born, NEW cap \in Nat \ {0},
         NEW ttl, NEW t, Cardinality(held) <= cap,
         NEW kept \in Insertions(held, born, cap, ttl, t), NEW s \in held \ kept
  PROVE  ~(t < born[s] + ttl) \/ Cardinality(Younger(D, born, s)) >= cap
<1>. SUFFICES ASSUME t < born[s] + ttl
              PROVE  Cardinality(Younger(D, born, s)) >= cap
  OBVIOUS
<1>. DEFINE live == Live(held, born, ttl, t)
<1>1. live \in SUBSET held /\ s \in live \ kept
  BY DEF Live
<1>2. IsFiniteSet(held)
  BY FS_Subset
<1>3. IsFiniteSet(live) /\ Cardinality(live) <= Cardinality(held)
  BY <1>1, <1>2, FS_Subset
<1>4. Cardinality(live) \in Nat /\ Cardinality(held) \in Nat
  BY <1>2, <1>3, FS_CardinalityType
<1>5. Cardinality(live) <= cap /\ kept \in Room(live, born, cap)
  BY <1>3, <1>4 DEF Insertions
<1>6. Cardinality(live) >= cap /\ \A y \in live : born[s] <= born[y]
  <2>. HIDE DEF live
  <2> QED
    BY <1>1, <1>3, <1>5, RoomMade
<1>7. live \in SUBSET Younger(D, born, s)
  BY <1>1, <1>6 DEF Younger
<1>8. Younger(D, born, s) \in SUBSET D
  BY DEF Younger
<1>9. IsFiniteSet(Younger(D, born, s))
  BY <1>8, FS_Subset
<1>10. Cardinality(live) <= Cardinality(Younger(D, born, s))
  BY <1>7, <1>9, FS_Subset
<1>11. Cardinality(Younger(D, born, s)) \in Nat
  BY <1>9, FS_CardinalityType
<1> QED
  BY <1>4, <1>6, <1>10, <1>11

(* No request has read a clock that is ahead of the clock.                 *)
Ages == \A a \in Admins : admin[a].at <= now

LEMMA AgesKept ==
  ASSUME TypeOK, TypeOK', Ages, SessionStep, Forward
  PROVE  Ages'
<1>. USE DEF TypeOK, SessionsTypeOK
<1>1. \A a \in Admins : admin'[a].at \in {0, now, admin[a].at}
  <2>0. \A x, pc, at, p :
          admin' = [admin EXCEPT ![x] = [pc |-> pc, at |-> at, provider |-> p]] =>
            \A a \in Admins : admin'[a].at = at \/ admin'[a].at = admin[a].at
    OBVIOUS
  <2>1. CASE UNCHANGED adminVars
    BY <2>1 DEF adminVars
  <2>2. CASE SessionsLost
    BY <2>2 DEF SessionsLost, IdleRequest
  <2>3. ASSUME NEW s \in sessions, Refuse(s) \/ SignOut(s)
        PROVE  \A a \in Admins : admin'[a].at \in {0, now, admin[a].at}
    BY <2>3 DEF Refuse, SignOut
  <2>4. ASSUME NEW b \in Admins,
               \/ SignIn(b) \/ OpenSession(b) \/ Enter(b) \/ Leave(b) \/ Started(b)
               \/ \E s \in sessions, p \in Providers : Start(b, s, p) \/ Submit(b, s, p)
        PROVE  \A a \in Admins : admin'[a].at \in {0, now, admin[a].at}
    BY <2>0, <2>4 DEF SignIn, OpenSession, Enter, Leave, Started, Start, Submit, Goes, Returns, IdleRequest
  <2> QED
    BY <2>1, <2>2, <2>3, <2>4 DEF SessionStep
<1>2. \A a \in Admins : admin[a].at <= now'
  BY DEF Ages, Forward, Request
<1>3. now' \in Nat /\ 0 <= now' /\ now <= now'
  BY DEF Forward
<1> QED
  BY ONLY <1>1, <1>2, <1>3 DEF Ages

LEMMA SessionsStay ==
  ASSUME TypeOK, TypeOK', Ages, SessionsKept, SessionStep, Forward
  PROVE  SessionsKept'
<1>. USE DEF TypeOK, SessionsTypeOK
<1>0. IsFiniteSet(DOMAIN signins) /\ IsFiniteSet(DOMAIN signins')
  BY FiniteHeld
<1>1. ASSUME UNCHANGED signins,
             \A s \in sessions \ (sessions' \cup closed') : now >= signins[s] + SessionTTL,
             closed \subseteq closed'
      PROVE  SessionsKept'
  <2> SUFFICES ASSUME NEW s \in DOMAIN signins \ (sessions' \cup closed')
               PROVE  \/ now' >= signins[s] + SessionTTL
                      \/ Cardinality({t \in DOMAIN signins : signins[t] >= signins[s]}) >= MaxSessions
    BY <1>1 DEF SessionsKept
  <2>1. signins[s] \in Nat
    OBVIOUS
  <2>2. \/ now >= signins[s] + SessionTTL
        \/ Cardinality({t \in DOMAIN signins : signins[t] >= signins[s]}) >= MaxSessions
    BY <1>1 DEF SessionsKept
  <2> QED
    BY <2>1, <2>2 DEF Forward
<1>2. CASE UNCHANGED adminVars
  BY <1>1, <1>2 DEF adminVars
<1>3. CASE SessionsLost
  BY <1>1, <1>3 DEF SessionsLost
<1>4. ASSUME NEW s \in sessions, Refuse(s) \/ SignOut(s) PROVE SessionsKept'
  <2>1. signins[s] \in Nat
    OBVIOUS
  <2>2. CASE Refuse(s)
    <3>1. now >= signins[s] + SessionTTL
      BY <2>1, <2>2 DEF Refuse, Valid
    <3> QED
      BY <1>1, <2>2, <3>1 DEF Refuse
  <2>3. CASE SignOut(s)
    BY <1>1, <2>3 DEF SignOut
  <2> QED
    BY <1>4, <2>2, <2>3
<1>5. ASSUME NEW a \in Admins, OpenSession(a) PROVE SessionsKept'
  <2>1. admin[a].at \in Nat /\ admin[a].at <= now
    BY DEF Ages, Request
  <2>2. PICK kept \in Room(Live(sessions, signins, SessionTTL, admin[a].at), signins, MaxSessions) :
          sessions' = kept \cup {Len(signins) + 1}
    BY <1>5 DEF OpenSession
  <2>3. kept \in Insertions(sessions, signins, MaxSessions, SessionTTL, admin[a].at)
    BY DEF Insertions
  <2>4. /\ DOMAIN signins' = DOMAIN signins \cup {Len(signins) + 1}
        /\ \A t \in DOMAIN signins : signins'[t] = signins[t]
    BY <1>5, <2>1, Appended DEF OpenSession
  <2>5. closed' = closed
    BY <1>5 DEF OpenSession
  <2> SUFFICES ASSUME NEW s \in DOMAIN signins' \ (sessions' \cup closed')
               PROVE  \/ now' >= signins'[s] + SessionTTL
                      \/ Cardinality(Younger(DOMAIN signins', signins', s)) >= MaxSessions
    BY DEF SessionsKept, Younger
  <2>6. s \in DOMAIN signins /\ signins'[s] = signins[s] /\ signins[s] \in Nat
    BY <2>2, <2>4
  <2>7. \/ now >= signins[s] + SessionTTL
        \/ Cardinality(Younger(DOMAIN signins, signins, s)) >= MaxSessions
    <3>1. CASE s \notin sessions
      BY <2>5, <2>6, <3>1 DEF SessionsKept, Younger
    <3>2. CASE s \in sessions
      <4>1. s \in sessions \ kept /\ sessions \in SUBSET (DOMAIN signins)
        BY <2>2, <3>2
      <4>2. \/ ~(admin[a].at < signins[s] + SessionTTL)
            \/ Cardinality(Younger(DOMAIN signins, signins, s)) >= MaxSessions
        BY <1>0, <2>3, <4>1, EvictedIsOldest
      <4> QED
        BY <2>1, <2>6, <4>2
    <3> QED
      BY <3>1, <3>2
  <2>8. CASE now >= signins[s] + SessionTTL
    BY <2>6, <2>8 DEF Forward
  <2>9. CASE Cardinality(Younger(DOMAIN signins, signins, s)) >= MaxSessions
    <3>1. Cardinality(Younger(DOMAIN signins', signins', s)) >= MaxSessions
      BY <1>0, <2>4, <2>6, <2>9, YoungerStay
    <3> QED
      BY <3>1
  <2> QED
    BY <2>7, <2>8, <2>9
<1>6. ASSUME NEW a \in Admins,
             \/ SignIn(a) \/ Enter(a) \/ Leave(a) \/ Started(a)
             \/ \E s \in sessions, p \in Providers : Start(a, s, p) \/ Submit(a, s, p)
      PROVE  SessionsKept'
  <2>1. UNCHANGED <<signins, sessions, closed>>
    BY <1>6 DEF SignIn, Enter, Leave, Started, Start, Submit
  <2> QED
    BY <1>1, <2>1
<1> QED
  BY <1>2, <1>3, <1>4, <1>5, <1>6 DEF SessionStep

LEMMA LoginsTyped ==
  ASSUME TokensTypeOK
  PROVE  \A s \in DOMAIN logins :
           /\ logins[s] \in Login
           /\ logins[s].created \in Nat /\ logins[s].provider \in Providers
<1>1. \A s \in DOMAIN logins : logins[s] \in Login
  <2>1. DOMAIN logins = 1 .. Len(logins)
    BY LenProperties DEF TokensTypeOK
  <2> QED
    BY <2>1, ElementOfSeq DEF TokensTypeOK
<1>2. \A x \in Login : x.created \in Nat /\ x.provider \in Providers
  BY DEF Login
<1> QED
  BY <1>1, <1>2

LEMMA LoginsStay ==
  ASSUME TypeOK, TypeOK', LoginsKept, TokenStep, Forward
  PROVE  LoginsKept'
<1>. USE DEF TypeOK, TokensTypeOK
<1>0. IsFiniteSet(DOMAIN logins) /\ IsFiniteSet(DOMAIN logins')
  BY FiniteHeld
<1>1. ASSUME UNCHANGED logins, pending \subseteq pending' \cup used', used \subseteq used'
      PROVE  LoginsKept'
  <2>1. \A s \in DOMAIN logins : logins[s] \in Login /\ logins[s].created \in Nat
    BY LoginsTyped
  <2>2. \A s \in DOMAIN logins : Unexpired(s)' => Unexpired(s)
    BY <1>1, <2>1 DEF Unexpired, Forward
  <2> QED
    BY <1>1, <2>2 DEF LoginsKept
<1>2. CASE UNCHANGED tokenVars
  BY <1>1, <1>2 DEF tokenVars
<1>3. CASE LoginsLost
  BY <1>1, <1>3 DEF LoginsLost
<1>4. ASSUME NEW p \in Providers, NEW at \in Nat, Begin(p, at) PROVE LoginsKept'
  <2>1. [provider |-> p, created |-> at] \in Login
    BY DEF Login
  <2>2. PICK kept \in Room(Live(pending, Created, StateTTL, now), Created, MaxPending) :
          pending' = kept \cup {Len(logins) + 1}
    BY <1>4 DEF Begin
  <2>3. kept \in Insertions(pending, Created, MaxPending, StateTTL, now)
    BY DEF Insertions
  <2>4. /\ DOMAIN logins' = DOMAIN logins \cup {Len(logins) + 1}
        /\ \A t \in DOMAIN logins : logins'[t] = logins[t]
    BY <1>4, <2>1, Appended DEF Begin
  <2>5. used' = used
    BY <1>4 DEF Begin
  <2>6. \A t \in DOMAIN logins : Created[t] = logins[t].created /\ Created'[t] = Created[t]
    BY <2>4 DEF Created
  <2>7. \A t \in DOMAIN logins' : Created'[t] = logins'[t].created
    BY DEF Created
  <2> SUFFICES ASSUME NEW s \in DOMAIN logins' \ (pending' \cup used'), Unexpired(s)'
               PROVE  Cardinality(Younger(DOMAIN logins', Created', s)) >= MaxPending
    BY <2>7 DEF LoginsKept, Younger
  <2>0. \A t \in DOMAIN logins : logins[t] \in Login /\ logins[t].created \in Nat
    BY LoginsTyped
  <2>8. s \in DOMAIN logins /\ logins'[s] = logins[s] /\ logins[s].created \in Nat
    BY <2>0, <2>2, <2>4
  <2>9. now < logins[s].created + StateTTL
    BY <2>8 DEF Unexpired, Forward
  <2>10. Cardinality(Younger(DOMAIN logins, Created, s)) >= MaxPending
    <3>1. CASE s \notin pending
      <4>1. Younger(DOMAIN logins, Created, s) =
              {t \in DOMAIN logins : logins[t].created >= logins[s].created}
        BY <2>6, <2>8 DEF Younger
      <4> QED
        BY <2>5, <2>8, <2>9, <3>1, <4>1 DEF LoginsKept, Unexpired
    <3>2. CASE s \in pending
      <4>1. s \in pending \ kept /\ pending \in SUBSET (DOMAIN logins)
        BY <2>2, <3>2
      <4>2. \/ ~(now < Created[s] + StateTTL)
            \/ Cardinality(Younger(DOMAIN logins, Created, s)) >= MaxPending
        BY <1>0, <2>3, <4>1, EvictedIsOldest
      <4> QED
        BY <2>6, <2>8, <2>9, <4>2
    <3> QED
      BY <3>1, <3>2
  <2> QED
    BY <1>0, <2>4, <2>6, <2>8, <2>10, YoungerStay
<1>5. ASSUME NEW c \in Callbacks, NEW s \in pending, NEW p \in Providers, Complete(c, s, p)
      PROVE  LoginsKept'
  BY <1>1, <1>5 DEF Complete, Consume
<1>6. ASSUME \/ \E p \in Providers : DeleteTokens(p)
             \/ \E c \in Callbacks : Exchange(c) \/ CallbackStores(c) \/ CallbackFails(c)
             \/ \E r \in Callers :
                  \/ \E p \in Providers : BearerToken(r, p)
                  \/ Refresh(r) \/ RefreshStored(r) \/ RefreshFails(r)
      PROVE  LoginsKept'
  <2>1. UNCHANGED <<logins, pending, used>>
    BY <1>6 DEF DeleteTokens, Exchange, CallbackStores, CallbackFails, CallbackReturns,
                BearerToken, Refresh, RefreshStored, RefreshFails, CallerReturns
  <2> QED
    BY <1>1, <2>1
<1> QED
  BY <1>2, <1>3, <1>4, <1>5, <1>6 DEF TokenStep

(* Inserting into a full register, of sessions (SessionAuth.evictOldest)   *)
(* or of pending logins (MemoryStateRepository.evictOldestLocked), never   *)
(* drops an entry that has not expired while an older one stays.           *)
THEOREM YoungestStay == Spec => []YoungestKept
<1>. DEFINE Inv == TypeOK /\ Ages /\ YoungestKept
<1>1. Init => Inv
  <2>1. Init => TypeOK
    BY TypeAtStart
  <2>2. Init => Ages
    BY DEF Init, SessionsInit, IdleRequest, Ages
  <2>3. Init => YoungestKept
    BY DEF Init, SessionsInit, TokensInit, YoungestKept, SessionsKept, LoginsKept
  <2> QED
    BY <2>1, <2>2, <2>3
<1>2. Inv /\ TypeOK' /\ [Next]_vars => Inv'
  <2> SUFFICES ASSUME Inv, TypeOK', [Next]_vars PROVE Inv'
    OBVIOUS
  <2>1. SessionStep /\ TokenStep /\ Forward
    BY NextSplits
  <2> QED
    BY <2>1, AgesKept, SessionsStay, LoginsStay DEF YoungestKept
<1>3. Inv => YoungestKept
  OBVIOUS
<1> QED
  BY <1>1, <1>2, <1>3, TypeCorrect, PTL DEF Spec

-----------------------------------------------------------------------------
(* The refresh tokens held for provider p: the stored one, and those that  *)
(* a call of BearerToken has read or received; and those a callback has.   *)
HeldFor(p) ==
  ({tokens[p].refresh}
     \cup {caller[r].seen.refresh : r \in {q \in Callers : caller[q].provider = p}}
     \cup {caller[r].got.refresh : r \in {q \in Callers : caller[q].provider = p}}) \ {0}

HeldBy(c) == {callback[c].got.refresh} \ {0}

(* A call that is under way holds the mutex, and the tokens it refreshes.  *)
Mutex ==
  \A r \in Callers :
    IF caller[r].pc = "idle" THEN caller[r] = IdleCaller
    ELSE lock = r /\ caller[r].seen.refresh # 0

(* No refresh token is held in two places, or once its successor is stored *)
HeldOnce ==
  /\ spent \subseteq 1 .. minted
  /\ \A p \in Providers : HeldFor(p) \subseteq (1 .. minted) \ spent
  /\ \A c \in Callbacks : HeldBy(c) \subseteq (1 .. minted) \ spent
  /\ \A p \in Providers, q \in Providers : p # q => HeldFor(p) \cap HeldFor(q) = {}
  /\ \A p \in Providers, c \in Callbacks : HeldFor(p) \cap HeldBy(c) = {}
  /\ \A c \in Callbacks, d \in Callbacks : c # d => HeldBy(c) \cap HeldBy(d) = {}


LEMMA HeldForMember ==
  ASSUME NEW p, NEW n
  PROVE  n \in HeldFor(p) <=>
           /\ n # 0
           /\ \/ n = tokens[p].refresh
              \/ \E r \in Callers :
                   caller[r].provider = p /\ n \in {caller[r].seen.refresh, caller[r].got.refresh}
BY DEF HeldFor

(* What can become of the refresh tokens held: some are let go,            *)
LEMMA LetGo ==
  ASSUME HeldOnce, minted \in Nat, minted' \in Nat, minted <= minted', spent' = spent,
         \A p \in Providers : HeldFor(p)' \subseteq HeldFor(p),
         \A c \in Callbacks : HeldBy(c)' \subseteq HeldBy(c)
  PROVE  HeldOnce'
<1>1. 1 .. minted \subseteq 1 .. minted'
  OBVIOUS
<1> QED
  BY <1>1, Zenon DEF HeldOnce

(* one is new, and held by a call or by a callback,                        *)
LEMMA NewFor ==
  ASSUME HeldOnce, minted \in Nat, minted' = minted + 1, spent' = spent, NEW p \in Providers,
         HeldFor(p)' \subseteq HeldFor(p) \cup {minted + 1},
         \A q \in Providers \ {p} : HeldFor(q)' \subseteq HeldFor(q),
         \A c \in Callbacks : HeldBy(c)' \subseteq HeldBy(c)
  PROVE  HeldOnce'
<1>1. 1 .. minted \subseteq 1 .. minted' /\ minted + 1 \in 1 .. minted' /\ minted + 1 \notin 1 .. minted
  OBVIOUS
<1>2. \A q \in Providers \ {p} : HeldFor(q) \cap HeldFor(p)' = {}
  BY <1>1 DEF HeldOnce
<1>3. \A c \in Callbacks : HeldFor(p)' \cap HeldBy(c) = {}
  BY <1>1 DEF HeldOnce
<1>4. HeldFor(p)' \subseteq (1 .. minted') \ spent
  BY <1>1 DEF HeldOnce
<1>5. \A q \in Providers, r \in Providers : q # r => HeldFor(q)' \cap HeldFor(r)' = {}
  BY <1>2 DEF HeldOnce
<1>6. \A q \in Providers, c \in Callbacks : HeldFor(q)' \cap HeldBy(c)' = {}
  BY <1>3 DEF HeldOnce
<1>7. /\ \A q \in Providers : HeldFor(q)' \subseteq (1 .. minted') \ spent
      /\ \A c \in Callbacks : HeldBy(c)' \subseteq (1 .. minted') \ spent
  BY <1>1, <1>4 DEF HeldOnce
<1>8. \A c \in Callbacks, d \in Callbacks : c # d => HeldBy(c)' \cap HeldBy(d)' = {}
  BY DEF HeldOnce
<1>9. spent \subseteq 1 .. minted'
  BY <1>1 DEF HeldOnce
<1> QED
  BY <1>5, <1>6, <1>7, <1>8, <1>9 DEF HeldOnce

LEMMA NewBy ==
  ASSUME HeldOnce, minted \in Nat, minted' = minted + 1, spent' = spent, NEW c \in Callbacks,
         HeldBy(c)' \subseteq {minted + 1},
         \A d \in Callbacks \ {c} : HeldBy(d)' \subseteq HeldBy(d),
         \A p \in Providers : HeldFor(p)' \subseteq HeldFor(p)
  PROVE  HeldOnce'
<1>1. 1 .. minted \subseteq 1 .. minted' /\ minted + 1 \in 1 .. minted' /\ minted + 1 \notin 1 .. minted
  OBVIOUS
<1>2. \A d \in Callbacks \ {c} : HeldBy(d) \cap HeldBy(c)' = {}
  BY <1>1 DEF HeldOnce
<1>3. \A p \in Providers : HeldFor(p) \cap HeldBy(c)' = {}
  BY <1>1 DEF HeldOnce
<1>4. HeldBy(c)' \subseteq (1 .. minted') \ spent
  BY <1>1 DEF HeldOnce
<1>5. \A q \in Providers, r \in Providers : q # r => HeldFor(q)' \cap HeldFor(r)' = {}
  BY DEF HeldOnce
<1>6. \A q \in Providers, d \in Callbacks : HeldFor(q)' \cap HeldBy(d)' = {}
  BY <1>3 DEF HeldOnce
<1>7. /\ \A q \in Providers : HeldFor(q)' \subseteq (1 .. minted') \ spent
      /\ \A d \in Callbacks : HeldBy(d)' \subseteq (1 .. minted') \ spent
  BY <1>1, <1>4 DEF HeldOnce
<1>8. \A d \in Callbacks, e \in Callbacks : d # e => HeldBy(d)' \cap HeldBy(e)' = {}
  BY <1>2 DEF HeldOnce
<1>9. spent \subseteq 1 .. minted'
  BY <1>1 DEF HeldOnce
<1> QED
  BY <1>5, <1>6, <1>7, <1>8, <1>9 DEF HeldOnce

(* a callback stores its own,                                              *)
LEMMA HandedOver ==
  ASSUME HeldOnce, minted' = minted, spent' = spent, NEW c \in Callbacks, NEW p \in Providers,
         HeldBy(c)' = {}, HeldFor(p)' \subseteq HeldFor(p) \cup HeldBy(c),
         \A q \in Providers \ {p} : HeldFor(q)' \subseteq HeldFor(q),
         \A d \in Callbacks \ {c} : HeldBy(d)' \subseteq HeldBy(d)
  PROVE  HeldOnce'
<1>1. \A q \in Providers \ {p} : HeldFor(q) \cap HeldFor(p)' = {}
  BY DEF HeldOnce
<1>2. \A d \in Callbacks \ {c} : HeldFor(p)' \cap HeldBy(d) = {}
  BY DEF HeldOnce
<1>3. \A q \in Providers, r \in Providers : q # r => HeldFor(q)' \cap HeldFor(r)' = {}
  BY <1>1 DEF HeldOnce
<1>4. \A q \in Providers, d \in Callbacks : HeldFor(q)' \cap HeldBy(d)' = {}
  BY <1>2 DEF HeldOnce
<1>5. \A d \in Callbacks, e \in Callbacks : d # e => HeldBy(d)' \cap HeldBy(e)' = {}
  BY DEF HeldOnce
<1>6. /\ \A q \in Providers : HeldFor(q)' \subseteq (1 .. minted) \ spent
      /\ \A d \in Callbacks : HeldBy(d)' \subseteq (1 .. minted) \ spent
  BY DEF HeldOnce
<1> QED
  BY <1>3, <1>4, <1>5, <1>6 DEF HeldOnce

(* or a call stores the successor of the one it presented.                 *)
LEMMA Succeeded ==
  ASSUME HeldOnce, minted' = minted, NEW p \in Providers, NEW n \in HeldFor(p),
         spent' = spent \cup {n}, HeldFor(p)' \subseteq HeldFor(p) \ {n},
         \A q \in Providers \ {p} : HeldFor(q)' \subseteq HeldFor(q),
         \A c \in Callbacks : HeldBy(c)' \subseteq HeldBy(c)
  PROVE  HeldOnce'
<1>1. n \in 1 .. minted
  BY DEF HeldOnce
<1>2. \A q \in Providers : HeldFor(q)' \subseteq HeldFor(q) /\ n \notin HeldFor(q)'
  BY DEF HeldOnce
<1>3. \A c \in Callbacks : n \notin HeldBy(c)
  BY DEF HeldOnce
<1>4. spent' \subseteq 1 .. minted'
  BY <1>1 DEF HeldOnce
<1>5. \A q \in Providers : HeldFor(q)' \subseteq (1 .. minted') \ spent'
  BY <1>2 DEF HeldOnce
<1>6. \A c \in Callbacks : HeldBy(c)' \subseteq (1 .. minted') \ spent'
  BY <1>3 DEF HeldOnce
<1>7. /\ \A q \in Providers, r \in Providers : q # r => HeldFor(q)' \cap HeldFor(r)' = {}
      /\ \A q \in Providers, d \in Callbacks : HeldFor(q)' \cap HeldBy(d)' = {}
  BY <1>2 DEF HeldOnce
<1>8. \A d \in Callbacks, e \in Callbacks : d # e => HeldBy(d)' \cap HeldBy(e)' = {}
  BY DEF HeldOnce
<1> QED
  BY <1>4, <1>5, <1>6, <1>7, <1>8 DEF HeldOnce

(* A call of BearerToken moves: what is held for its provider.             *)
LEMMA CallMoves ==
  ASSUME TokensTypeOK, NEW r \in Callers, NEW x, caller' = [caller EXCEPT ![r] = x]
  PROVE  /\ caller'[r] = x
         /\ \A q \in Callers \ {r} : caller'[q] = caller[q]
         /\ tokens' = tokens => \A p :
              HeldFor(p)' \subseteq HeldFor(p) \cup
                (IF x.provider = p THEN {x.seen.refresh, x.got.refresh} \ {0} ELSE {})
<1>1. caller'[r] = x /\ \A q \in Callers \ {r} : caller'[q] = caller[q]
  BY DEF TokensTypeOK
<1>2. ASSUME tokens' = tokens, NEW p, NEW n \in HeldFor(p)'
      PROVE  \/ n \in HeldFor(p)
             \/ x.provider = p /\ n \in {x.seen.refresh, x.got.refresh} \ {0}
  BY <1>1, <1>2 DEF HeldFor
<1> QED
  BY <1>1, <1>2

LEMMA MutexStep ==
  ASSUME TokensTypeOK, Mutex, TokenStep
  PROVE  Mutex'
<1>1. CASE UNCHANGED <<caller, lock>>
  BY <1>1 DEF Mutex
<1>2. CASE LoginsLost
  BY <1>2 DEF LoginsLost, Mutex, IdleCaller
<1>3. ASSUME NEW r \in Callers, NEW p \in Providers, BearerToken(r, p) PROVE Mutex'
  <2>1. \A q \in Callers : caller[q] = IdleCaller
    BY <1>3 DEF BearerToken, MutexFree, Mutex, TokensTypeOK, TokensAssumption
  <2>2. /\ caller'[r] = [pc |-> "refresh", provider |-> p, seen |-> tokens[p], got |-> NoTokens]
        /\ \A q \in Callers \ {r} : caller'[q] = caller[q]
    BY <1>3, CallMoves DEF BearerToken
  <2> QED
    BY <1>3, <2>1, <2>2 DEF BearerToken, Mutex, IdleCaller
<1>4. ASSUME NEW r \in Callers, Refresh(r) PROVE Mutex'
  <2>1. PICK got : caller' = [caller EXCEPT ![r] = [caller[r] EXCEPT !.pc = "store", !.got = got]]
    BY <1>4 DEF Refresh
  <2>2. /\ caller'[r] = [caller[r] EXCEPT !.pc = "store", !.got = got]
        /\ \A q \in Callers \ {r} : caller'[q] = caller[q]
    BY <2>1, CallMoves
  <2>3. caller[r] \in Caller
    BY DEF TokensTypeOK
  <2>4. caller'[r].pc = "store" /\ caller'[r].seen = caller[r].seen
    BY <2>2, <2>3 DEF Caller
  <2> QED
    BY <1>4, <2>2, <2>4 DEF Refresh, Mutex
<1>5. ASSUME NEW r \in Callers, RefreshStored(r) \/ RefreshFails(r) PROVE Mutex'
  <2>1. caller' = [caller EXCEPT ![r] = IdleCaller] /\ lock' = NoCaller /\ caller[r].pc # "idle"
    BY <1>5 DEF RefreshStored, RefreshFails, CallerReturns
  <2>2. caller'[r] = IdleCaller /\ \A q \in Callers \ {r} : caller'[q] = caller[q]
    BY <2>1, CallMoves
  <2>3. \A q \in Callers \ {r} : caller[q] = IdleCaller
    BY <2>1 DEF Mutex
  <2> QED
    BY <2>2, <2>3 DEF Mutex, IdleCaller
<1>6. ASSUME \/ \E p \in Providers, at \in Nat : Begin(p, at)
             \/ \E p \in Providers : DeleteTokens(p)
             \/ \E c \in Callbacks, s \in pending, p \in Providers : Complete(c, s, p)
             \/ \E c \in Callbacks : Exchange(c) \/ CallbackStores(c) \/ CallbackFails(c)
      PROVE  UNCHANGED <<caller, lock>>
  BY <1>6 DEF Begin, DeleteTokens, Complete, Exchange, CallbackStores, CallbackFails, CallbackReturns
<1> QED
  BY <1>1, <1>2, <1>3, <1>4, <1>5, <1>6 DEF TokenStep, tokenVars

LEMMA HeldOnceStep ==
  ASSUME TokensTypeOK, TokensTypeOK', Mutex, HeldOnce, TokenStep
  PROVE  HeldOnce'
<1>0. minted \in Nat /\ minted' \in Nat
  BY DEF TokensTypeOK
<1>1. CASE UNCHANGED <<tokens, caller, callback, minted, spent>>
  <2>1. \A p : HeldFor(p)' = HeldFor(p)
    BY <1>1 DEF HeldFor
  <2>2. \A c : HeldBy(c)' = HeldBy(c)
    BY <1>1 DEF HeldBy
  <2> QED
    BY <1>0, <1>1, <2>1, <2>2, LetGo
<1>2. CASE LoginsLost
  <2>1. \A p \in Providers : HeldFor(p)' \subseteq HeldFor(p)
    BY <1>2 DEF LoginsLost, HeldFor, IdleCaller, NoTokens
  <2>2. \A c \in Callbacks : HeldBy(c)' \subseteq HeldBy(c)
    BY <1>2 DEF LoginsLost, HeldBy, IdleCallback, NoTokens
  <2> QED
    BY <1>0, <1>2, <2>1, <2>2, LetGo DEF LoginsLost
<1>3. ASSUME NEW p \in Providers, DeleteTokens(p) PROVE HeldOnce'
  <2>1. \A q \in Providers : HeldFor(q)' \subseteq HeldFor(q)
    BY <1>3 DEF DeleteTokens, HeldFor, NoTokens, TokensTypeOK
  <2>2. \A c \in Callbacks : HeldBy(c)' \subseteq HeldBy(c)
    BY <1>3 DEF DeleteTokens, HeldBy
  <2> QED
    BY <1>0, <1>3, <2>1, <2>2, LetGo DEF DeleteTokens
<1>4. ASSUME NEW c \in Callbacks, NEW s \in pending, NEW p \in Providers, Complete(c, s, p)
      PROVE  HeldOnce'
  <2>1. \A q : HeldFor(q)' = HeldFor(q)
    BY <1>4 DEF Complete, HeldFor
  <2>2. \A d \in Callbacks : HeldBy(d)' \subseteq HeldBy(d)
    BY <1>4 DEF Complete, HeldBy, NoTokens, TokensTypeOK
  <2> QED
    BY <1>0, <1>4, <2>1, <2>2, LetGo DEF Complete
<1>5. ASSUME NEW c \in Callbacks, Exchange(c) PROVE HeldOnce'
  <2>1. PICK refresh \in 0 .. minted + 1, expires \in Expiries :
          /\ Minted(0, refresh)
          /\ callback' = [callback EXCEPT ![c] =
               [@ EXCEPT !.pc = "store",
                         !.got = [by |-> callback[c].login, refresh |-> refresh, expires |-> expires]]]
    BY <1>5 DEF Exchange
  <2>2. \A q : HeldFor(q)' = HeldFor(q)
    BY <1>5 DEF Exchange, HeldFor
  <2>3. \A d \in Callbacks \ {c} : HeldBy(d)' = HeldBy(d)
    BY <2>1 DEF HeldBy, TokensTypeOK
  <2>4. callback'[c].got.refresh = refresh
    <3>1. callback[c] \in Callback
      BY DEF TokensTypeOK
    <3> QED
      BY <2>1, <3>1 DEF Callback, TokensTypeOK
  <2>5. CASE refresh = minted + 1 /\ minted' = minted + 1
    BY <1>0, <1>5, <2>2, <2>3, <2>4, <2>5, NewBy DEF Exchange, HeldBy
  <2>6. CASE refresh = 0 /\ UNCHANGED minted
    <3>1. HeldBy(c)' = {}
      BY <2>4, <2>6 DEF HeldBy
    <3> QED
      BY <1>0, <1>5, <2>2, <2>3, <2>6, <3>1, LetGo DEF Exchange
  <2> QED
    BY <2>1, <2>5, <2>6 DEF Minted
<1>6. ASSUME NEW c \in Callbacks, CallbackStores(c) \/ CallbackFails(c) PROVE HeldOnce'
  <2>1. /\ callback' = [callback EXCEPT ![c] = IdleCallback]
        /\ UNCHANGED <<caller, minted, spent>> /\ callback[c].provider \in Providers
    BY <1>6 DEF CallbackStores, CallbackFails, CallbackReturns, TokensTypeOK
  <2>2. HeldBy(c)' = {} /\ \A d \in Callbacks \ {c} : HeldBy(d)' = HeldBy(d)
    BY <2>1 DEF HeldBy, IdleCallback, NoTokens, TokensTypeOK
  <2>0. PICK p \in Providers : p = callback[c].provider
    BY <2>1
  <2>3. /\ HeldFor(p)' \subseteq HeldFor(p) \cup HeldBy(c)
        /\ \A q \in Providers \ {p} : HeldFor(q)' \subseteq HeldFor(q)
    <3>1. \/ tokens' = tokens
          \/ tokens' = [tokens EXCEPT ![p] = callback[c].got]
      BY <1>6, <2>0 DEF CallbackStores, CallbackFails
    <3> QED
      BY <2>0, <2>1, <3>1 DEF HeldFor, HeldBy, TokensTypeOK
  <2> QED
    BY <2>1, <2>2, <2>3, HandedOver
<1>7. ASSUME NEW r \in Callers, NEW p \in Providers, BearerToken(r, p) PROVE HeldOnce'
  <2>1. \A q \in Providers : HeldFor(q)' \subseteq HeldFor(q)
    <3> DEFINE x == [pc |-> "refresh", provider |-> p, seen |-> tokens[p], got |-> NoTokens]
    <3>1. caller' = [caller EXCEPT ![r] = x] /\ tokens' = tokens
      BY <1>7 DEF BearerToken
    <3>2. x.provider = p /\ {x.seen.refresh, x.got.refresh} \ {0} \subseteq HeldFor(p)
      BY DEF NoTokens, HeldFor
    <3> HIDE DEF x
    <3>3. \A q : HeldFor(q)' \subseteq HeldFor(q) \cup
                   (IF x.provider = q THEN {x.seen.refresh, x.got.refresh} \ {0} ELSE {})
      BY <3>1, CallMoves
    <3> QED
      BY <3>2, <3>3
  <2>2. \A c : HeldBy(c)' = HeldBy(c)
    BY <1>7 DEF BearerToken, HeldBy
  <2> QED
    BY <1>0, <1>7, <2>1, <2>2, LetGo DEF BearerToken
<1>8. ASSUME NEW r \in Callers, Refresh(r) PROVE HeldOnce'
  <2>1. PICK refresh \in 0 .. minted + 1, expires \in Expiries :
          /\ Minted(caller[r].seen.refresh, refresh)
          /\ caller' = [caller EXCEPT ![r] =
               [@ EXCEPT !.pc = "store",
                         !.got = [by |-> caller[r].seen.by, refresh |-> refresh, expires |-> expires]]]
    BY <1>8 DEF Refresh
  <2> DEFINE got == [by |-> caller[r].seen.by, refresh |-> refresh, expires |-> expires]
             x == [caller[r] EXCEPT !.pc = "store", !.got = got]
  <2>0. PICK p \in Providers : p = caller[r].provider
    BY <1>8 DEF Refresh, TokensTypeOK
  <2>2. caller[r] \in Caller
    BY DEF TokensTypeOK
  <2>3. x.provider = p /\ x.seen = caller[r].seen /\ x.got.refresh = refresh
    BY <2>0, <2>2 DEF Caller
  <2>4. {caller[r].seen.refresh} \ {0} \subseteq HeldFor(p)
    BY <2>0 DEF HeldFor
  <2>5. caller' = [caller EXCEPT ![r] = x] /\ tokens' = tokens
    BY <1>8, <2>1 DEF Refresh
  <2> HIDE DEF x
  <2>6. \A q : HeldFor(q)' \subseteq HeldFor(q) \cup
                 (IF x.provider = q THEN {x.seen.refresh, x.got.refresh} \ {0} ELSE {})
    BY <2>5, CallMoves
  <2>7. \A q \in Providers \ {p} : HeldFor(q)' \subseteq HeldFor(q)
    BY <2>3, <2>6
  <2>8. HeldFor(p)' \subseteq HeldFor(p) \cup ({refresh} \ {0})
    BY <2>3, <2>4, <2>6
  <2>9. UNCHANGED spent /\ \A c : HeldBy(c)' = HeldBy(c)
    BY <1>8 DEF Refresh, HeldBy
  <2>10. CASE refresh = minted + 1 /\ minted' = minted + 1
    <3>1. HeldFor(p)' \subseteq HeldFor(p) \cup {minted + 1}
      BY <2>8, <2>10
    <3> QED
      BY <1>0, <2>2, <2>7, <2>9, <2>10, <3>1, NewFor
  <2>11. CASE refresh = caller[r].seen.refresh /\ UNCHANGED minted
    <3>1. \A q \in Providers : HeldFor(q)' \subseteq HeldFor(q)
      BY <2>4, <2>7, <2>8, <2>11
    <3> QED
      BY <1>0, <2>9, <2>11, <3>1, LetGo
  <2> QED
    BY <2>1, <2>10, <2>11 DEF Minted
<1>9. ASSUME NEW r \in Callers, RefreshStored(r) \/ RefreshFails(r) PROVE HeldOnce'
  <2>1. /\ caller' = [caller EXCEPT ![r] = IdleCaller] /\ caller[r].pc # "idle"
        /\ UNCHANGED <<callback, minted>>
    BY <1>9 DEF RefreshStored, RefreshFails, CallerReturns
  <2>0. PICK p, old, new :
          /\ p \in Providers /\ p = caller[r].provider
          /\ old = caller[r].seen.refresh /\ new = caller[r].got.refresh
    BY <2>1 DEF TokensTypeOK
  <2>2. old # 0
    BY <2>0, <2>1 DEF Mutex
  <2>3. \A q \in Callers : caller'[q] = IdleCaller
    BY <2>1, CallMoves DEF Mutex
  <2>4. \A q \in Providers : HeldFor(q)' = {tokens'[q].refresh} \ {0}
    BY <2>3 DEF HeldFor, IdleCaller, NoTokens
  <2>5. \A c : HeldBy(c)' = HeldBy(c)
    BY <2>1 DEF HeldBy
  <2>6. old \in HeldFor(p) /\ {new} \ {0} \subseteq HeldFor(p)
    BY <2>0, <2>2 DEF HeldFor
  <2>7. \A q \in Providers : {tokens[q].refresh} \ {0} \subseteq HeldFor(q)
    BY DEF HeldFor
  <2>8. CASE RefreshFails(r)
    BY <1>0, <2>1, <2>4, <2>5, <2>7, <2>8, LetGo DEF RefreshFails
  <2>9. CASE RefreshStored(r)
    <3>1. /\ tokens'[p].refresh = new
          /\ \A q \in Providers \ {p} : tokens'[q].refresh = tokens[q].refresh
      BY <2>0, <2>9 DEF RefreshStored, TokensTypeOK
    <3>2. HeldFor(p)' = {new} \ {0} /\ \A q \in Providers \ {p} : HeldFor(q)' \subseteq HeldFor(q)
      BY <2>0, <2>4, <2>7, <3>1
    <3>3. spent' = IF new = old THEN spent ELSE spent \cup {old}
      BY <2>0, <2>9 DEF RefreshStored
    <3>4. CASE new = old
      <4>1. \A q \in Providers : HeldFor(q)' \subseteq HeldFor(q)
        BY <2>6, <3>2
      <4> QED
        BY <1>0, <2>1, <2>5, <3>3, <3>4, <4>1, LetGo
    <3>5. CASE new # old
      <4>1. HeldFor(p)' \subseteq HeldFor(p) \ {old}
        BY <2>6, <3>2, <3>5
      <4> QED
        BY <2>0, <2>1, <2>5, <2>6, <3>2, <3>3, <3>5, <4>1, Succeeded
    <3> QED
      BY <3>4, <3>5
  <2> QED
    BY <1>9, <2>8, <2>9
<1>10. ASSUME NEW p \in Providers, NEW at \in Nat, Begin(p, at)
       PROVE  UNCHANGED <<tokens, caller, callback, minted, spent>>
  BY <1>10 DEF Begin
<1> QED
  BY <1>1, <1>2, <1>3, <1>4, <1>5, <1>6, <1>7, <1>8, <1>9, <1>10 DEF TokenStep, tokenVars

(* With any number of requests, callbacks and disconnects, and however the *)
(* provider answers, a refresh token of which the successor was stored is  *)
(* neither in the store nor presented again (runtime.go:52-93).            *)
THEOREM NoTokenTwice == Spec => []NoSpentRefresh
<1>. DEFINE Inv == TypeOK /\ Mutex /\ HeldOnce
<1>1. Init => Inv
  <2>1. Init => Mutex
    BY DEF Init, TokensInit, Mutex, IdleCaller
  <2>2. Init => HeldOnce
    BY DEF Init, TokensInit, HeldOnce, HeldFor, HeldBy, IdleCaller, IdleCallback, NoTokens
  <2> QED
    BY <2>1, <2>2, TypeAtStart
<1>2. Inv /\ TypeOK' /\ [Next]_vars => Inv'
  <2> SUFFICES ASSUME Inv, TypeOK', [Next]_vars PROVE Inv'
    OBVIOUS
  <2> QED
    BY NextSplits, MutexStep, HeldOnceStep DEF TypeOK
<1>3. Inv => NoSpentRefresh
  <2> SUFFICES ASSUME Inv PROVE NoSpentRefresh
    OBVIOUS
  <2>1. spent \subseteq 1 .. minted /\ \A p \in Providers : HeldFor(p) \cap spent = {}
    BY DEF HeldOnce
  <2>2. 0 \notin spent
    BY <2>1
  <2>3. \A p \in Providers : tokens[p].refresh = 0 \/ tokens[p].refresh \in HeldFor(p)
    BY DEF HeldFor
  <2>4. ASSUME NEW r \in Callers, caller[r].pc = "refresh"
        PROVE  caller[r].provider \in Providers /\ caller[r].seen.refresh \in HeldFor(caller[r].provider)
    BY <2>4 DEF HeldFor, Mutex, TypeOK, TokensTypeOK
  <2> QED
    BY <2>1, <2>2, <2>3, <2>4 DEF NoSpentRefresh
<1> QED
  BY <1>1, <1>2, <1>3, TypeCorrect, PTL DEF Spec

-----------------------------------------------------------------------------
(* by is nothing, or a login for provider p.                               *)
From(by, p) == by # 0 => by \in DOMAIN logins /\ logins[by].provider = p

Lineage ==
  /\ \A p \in Providers : From(tokens[p].by, p)
  /\ \A r \in Callers : From(caller[r].seen.by, caller[r].provider)
                        /\ From(caller[r].got.by, caller[r].provider)
  /\ \A c \in Callbacks :
       IF callback[c].pc = "idle" THEN callback[c] = IdleCallback
       ELSE From(callback[c].login, callback[c].provider)
            /\ callback[c].got.by \in {0, callback[c].login}

(* A login is pending, under way in one callback, or over.                 *)
Once ==
  /\ exchanged \subseteq used /\ pending \cap used = {}
  /\ \A c \in Callbacks :
       callback[c].pc # "idle" =>
         /\ callback[c].login \in used \ exchanged
         /\ \A d \in Callbacks \ {c} : callback[d].login # callback[c].login

Off == \A p \in off : tokens[p].by = 0 /\ Quiet(p)

FromThen(n, p) == n # 0 => n \in DOMAIN logins' /\ logins'[n].provider = p

LEMMA LoginsStand ==
  ASSUME TokensTypeOK, TokenStep
  PROVE  /\ DOMAIN logins \subseteq DOMAIN logins'
         /\ \A s \in DOMAIN logins : logins'[s] = logins[s]
         /\ \A n, p : From(n, p) => FromThen(n, p)
<1>1. CASE UNCHANGED logins
  BY <1>1 DEF From, FromThen
<1>2. ASSUME NEW p \in Providers, NEW at \in Nat, Begin(p, at)
      PROVE  /\ DOMAIN logins \subseteq DOMAIN logins'
             /\ \A s \in DOMAIN logins : logins'[s] = logins[s]
  <2>1. [provider |-> p, created |-> at] \in Login
    BY DEF Login
  <2>2. /\ DOMAIN Append(logins, [provider |-> p, created |-> at]) = DOMAIN logins \cup {Len(logins) + 1}
        /\ \A i \in DOMAIN logins : Append(logins, [provider |-> p, created |-> at])[i] = logins[i]
    BY <2>1, Appended DEF TokensTypeOK
  <2> QED
    BY <1>2, <2>2 DEF Begin
<1>3. ASSUME ~UNCHANGED logins PROVE \E p \in Providers, at \in Nat : Begin(p, at)
  BY <1>3 DEF TokenStep, tokenVars, LoginsLost, DeleteTokens, Complete, Exchange, CallbackStores,
              CallbackFails, CallbackReturns, BearerToken, Refresh, RefreshStored, RefreshFails,
              CallerReturns
<1>4. /\ DOMAIN logins \subseteq DOMAIN logins'
      /\ \A s \in DOMAIN logins : logins'[s] = logins[s]
  BY <1>1, <1>2, <1>3
<1> QED
  BY <1>4 DEF From, FromThen

LEMMA LineageStep ==
  ASSUME TokensTypeOK, TokensTypeOK', Mutex, Mutex', Lineage, TokenStep
  PROVE  Lineage'
<1>. DEFINE Stored == \A p \in Providers : FromThen(tokens'[p].by, p)
            Called == \A r \in Callers :
              /\ FromThen(caller'[r].seen.by, caller'[r].provider)
              /\ FromThen(caller'[r].got.by, caller'[r].provider)
            Back == \A c \in Callbacks :
              IF callback'[c].pc = "idle" THEN callback'[c] = IdleCallback
              ELSE /\ FromThen(callback'[c].login, callback'[c].provider)
                   /\ callback'[c].got.by \in {0, callback'[c].login}
<1>1. \A n, p : From(n, p) => FromThen(n, p)
  BY LoginsStand
<1>2. \A p : FromThen(0, p)
  BY DEF From, FromThen
<1>3. ASSUME UNCHANGED tokens PROVE Stored
  BY <1>1, <1>3 DEF Lineage
<1>4. ASSUME UNCHANGED caller PROVE Called
  BY <1>1, <1>4 DEF Lineage
<1>5. ASSUME UNCHANGED callback PROVE Back
  BY <1>1, <1>5 DEF Lineage
<1>6. ASSUME Stored, Called, Back PROVE Lineage'
  BY <1>6 DEF Lineage, From, FromThen
<1>7. CASE UNCHANGED <<tokens, caller, callback>>
  BY <1>3, <1>4, <1>5, <1>6, <1>7
<1>8. CASE LoginsLost
  <2>1. Called
    BY <1>2, <1>8 DEF LoginsLost, IdleCaller, NoTokens
  <2>2. Back
    BY <1>8 DEF LoginsLost, IdleCallback
  <2> QED
    BY <1>3, <1>6, <1>8, <2>1, <2>2 DEF LoginsLost
<1>9. ASSUME NEW p \in Providers, DeleteTokens(p) PROVE Lineage'
  <2>1. \A q \in Providers : tokens'[q] = NoTokens \/ tokens'[q] = tokens[q]
    BY <1>9 DEF DeleteTokens, TokensTypeOK
  <2>2. Stored
    BY <1>1, <1>2, <2>1 DEF Lineage, NoTokens
  <2> QED
    BY <1>4, <1>5, <1>6, <1>9, <2>2 DEF DeleteTokens
<1>10. ASSUME NEW c \in Callbacks, NEW s \in pending, NEW p \in Providers, Complete(c, s, p)
       PROVE  Lineage'
  <2>1. CASE UNCHANGED callback
    BY <1>7, <1>10, <2>1 DEF Complete
  <2>2. CASE ~UNCHANGED callback
    <3>1. /\ logins[s].provider = p /\ s \in DOMAIN logins
          /\ callback' = [callback EXCEPT ![c] =
               [pc |-> "exchange", login |-> s, provider |-> p, got |-> NoTokens]]
      BY <1>10, <2>2 DEF Complete, TokensTypeOK
    <3>2. FromThen(s, p)
      BY <1>1, <3>1 DEF From, FromThen
    <3>3. /\ callback'[c] = [pc |-> "exchange", login |-> s, provider |-> p, got |-> NoTokens]
          /\ \A d \in Callbacks \ {c} : callback'[d] = callback[d]
      BY <3>1 DEF TokensTypeOK
    <3>4. Back
      <4>1. \A d \in Callbacks \ {c} :
              IF callback[d].pc = "idle" THEN callback[d] = IdleCallback
              ELSE FromThen(callback[d].login, callback[d].provider)
                   /\ callback[d].got.by \in {0, callback[d].login}
        BY <1>1 DEF Lineage
      <4>2. /\ FromThen(callback'[c].login, callback'[c].provider)
            /\ callback'[c].got.by = 0 /\ callback'[c].pc = "exchange"
        BY <3>2, <3>3 DEF NoTokens
      <4> QED
        BY <3>3, <4>1, <4>2
    <3> QED
      BY <1>3, <1>4, <1>6, <1>10, <3>4 DEF Complete
  <2> QED
    BY <2>1, <2>2
<1>11. ASSUME NEW c \in Callbacks, Exchange(c) PROVE Lineage'
  <2>1. PICK refresh, expires :
          callback' = [callback EXCEPT ![c] =
               [callback[c] EXCEPT !.pc = "store",
                         !.got = [by |-> callback[c].login, refresh |-> refresh, expires |-> expires]]]
    BY <1>11 DEF Exchange
  <2>2. callback[c] \in Callback /\ callback[c].pc # "idle"
    BY <1>11 DEF TokensTypeOK, Exchange
  <2>3. /\ callback'[c].login = callback[c].login /\ callback'[c].provider = callback[c].provider
        /\ callback'[c].got.by = callback[c].login /\ callback'[c].pc = "store"
        /\ \A d \in Callbacks \ {c} : callback'[d] = callback[d]
    BY <2>1, <2>2 DEF TokensTypeOK, Callback
  <2>4. Back
    <3>1. FromThen(callback[c].login, callback[c].provider)
      BY <1>1, <2>2, <2>3 DEF Lineage
    <3>2. \A d \in Callbacks \ {c} :
            IF callback[d].pc = "idle" THEN callback[d] = IdleCallback
            ELSE FromThen(callback[d].login, callback[d].provider)
                 /\ callback[d].got.by \in {0, callback[d].login}
      BY <1>1 DEF Lineage
    <3> QED
      BY <2>3, <3>1, <3>2
  <2> QED
    BY <1>3, <1>4, <1>6, <1>11, <2>4 DEF Exchange
<1>12. ASSUME NEW c \in Callbacks, CallbackStores(c) \/ CallbackFails(c) PROVE Lineage'
  <2>1. callback' = [callback EXCEPT ![c] = IdleCallback] /\ UNCHANGED caller /\ callback[c].pc # "idle"
    BY <1>12 DEF CallbackStores, CallbackFails, CallbackReturns
  <2>2. callback'[c] = IdleCallback /\ \A d \in Callbacks \ {c} : callback'[d] = callback[d]
    BY <2>1 DEF TokensTypeOK
  <2>3. Back
    BY <1>1, <2>2 DEF Lineage, IdleCallback
  <2>4. From(callback[c].got.by, callback[c].provider)
    BY <2>1 DEF Lineage, From
  <2>5. Stored
    <3>1. CASE UNCHANGED tokens
      BY <1>3, <3>1
    <3>2. CASE tokens' = [tokens EXCEPT ![callback[c].provider] = callback[c].got]
      <4>1. \A q \in Providers :
              \/ tokens'[q] = tokens[q]
              \/ q = callback[c].provider /\ tokens'[q] = callback[c].got
        BY <3>2 DEF TokensTypeOK
      <4> QED
        BY <1>1, <2>4, <4>1 DEF Lineage
    <3> QED
      BY <1>12, <3>1, <3>2 DEF CallbackStores, CallbackFails
  <2> QED
    BY <1>4, <1>6, <2>1, <2>3, <2>5
<1>13. ASSUME NEW r \in Callers, NEW p \in Providers, BearerToken(r, p) PROVE Lineage'
  <2>1. /\ caller'[r] = [pc |-> "refresh", provider |-> p, seen |-> tokens[p], got |-> NoTokens]
        /\ \A q \in Callers \ {r} : caller'[q] = caller[q]
    BY <1>13, CallMoves DEF BearerToken
  <2>2. FromThen(tokens[p].by, p)
    BY <1>1 DEF Lineage
  <2>3. \A q \in Callers \ {r} :
          /\ FromThen(caller'[q].seen.by, caller'[q].provider)
          /\ FromThen(caller'[q].got.by, caller'[q].provider)
    BY <1>1, <2>1 DEF Lineage
  <2>4. /\ FromThen(caller'[r].seen.by, caller'[r].provider)
        /\ FromThen(caller'[r].got.by, caller'[r].provider)
    BY <1>13, <2>1, <2>2 DEF From, FromThen, NoTokens, BearerToken
  <2>5. Called
    BY <2>3, <2>4
  <2> QED
    BY <1>3, <1>5, <1>6, <1>13, <2>5 DEF BearerToken
<1>14. ASSUME NEW r \in Callers, Refresh(r) PROVE Lineage'
  <2>1. PICK refresh, expires :
          caller' = [caller EXCEPT ![r] =
               [caller[r] EXCEPT !.pc = "store",
                         !.got = [by |-> caller[r].seen.by, refresh |-> refresh, expires |-> expires]]]
    BY <1>14 DEF Refresh
  <2>2. caller[r] \in Caller
    BY DEF TokensTypeOK
  <2>3. /\ caller'[r].seen = caller[r].seen /\ caller'[r].provider = caller[r].provider
        /\ caller'[r].got.by = caller[r].seen.by
        /\ \A q \in Callers \ {r} : caller'[q] = caller[q]
    BY <2>1, <2>2 DEF TokensTypeOK, Caller
  <2>4. /\ FromThen(caller'[r].seen.by, caller'[r].provider)
        /\ FromThen(caller'[r].got.by, caller'[r].provider)
    BY <1>1, <2>3 DEF Lineage
  <2>5. \A q \in Callers \ {r} :
          /\ FromThen(caller'[q].seen.by, caller'[q].provider)
          /\ FromThen(caller'[q].got.by, caller'[q].provider)
    BY <1>1, <2>3 DEF Lineage
  <2>6. Called
    BY <2>4, <2>5
  <2> QED
    BY <1>3, <1>5, <1>6, <1>14, <2>6 DEF Refresh
<1>15. ASSUME NEW r \in Callers, RefreshStored(r) \/ RefreshFails(r) PROVE Lineage'
  <2>1. caller' = [caller EXCEPT ![r] = IdleCaller] /\ UNCHANGED callback
    BY <1>15 DEF RefreshStored, RefreshFails, CallerReturns
  <2>2. caller'[r] = IdleCaller /\ \A q \in Callers \ {r} : caller'[q] = caller[q]
    BY <2>1, CallMoves
  <2>3. /\ FromThen(caller'[r].seen.by, caller'[r].provider)
        /\ FromThen(caller'[r].got.by, caller'[r].provider)
    BY <2>2 DEF IdleCaller, NoTokens, From, FromThen
  <2>4. \A q \in Callers \ {r} :
          /\ FromThen(caller'[q].seen.by, caller'[q].provider)
          /\ FromThen(caller'[q].got.by, caller'[q].provider)
    BY <1>1, <2>2 DEF Lineage
  <2>5. Called
    BY <2>3, <2>4
  <2>6. Stored
    <3>1. CASE UNCHANGED tokens
      BY <1>3, <3>1
    <3>2. CASE tokens' = [tokens EXCEPT ![caller[r].provider] = caller[r].got]
      <4>1. \A q \in Providers :
              \/ tokens'[q] = tokens[q]
              \/ q = caller[r].provider /\ tokens'[q] = caller[r].got
        BY <3>2 DEF TokensTypeOK
      <4> QED
        BY <1>1, <4>1 DEF Lineage
    <3> QED
      BY <1>15, <3>1, <3>2 DEF RefreshStored, RefreshFails
  <2> QED
    BY <1>5, <1>6, <2>1, <2>5, <2>6
<1>16. ASSUME NEW p \in Providers, NEW at \in Nat, Begin(p, at)
       PROVE  UNCHANGED <<tokens, caller, callback>>
  BY <1>16 DEF Begin
<1> QED
  BY <1>7, <1>8, <1>9, <1>10, <1>11, <1>12, <1>13, <1>14, <1>15, <1>16 DEF TokenStep, tokenVars

LEMMA LoginsNumbered ==
  ASSUME TokensTypeOK, Lineage
  PROVE  /\ 0 \notin DOMAIN logins /\ Len(logins) + 1 \notin DOMAIN logins
         /\ \A c \in Callbacks :
              IF callback[c].pc = "idle" THEN callback[c].login = 0
              ELSE callback[c].login \in DOMAIN logins
<1>1. DOMAIN logins = 1 .. Len(logins) /\ Len(logins) \in Nat
  BY LenProperties DEF TokensTypeOK
<1> QED
  BY <1>1 DEF TokensTypeOK, Lineage, IdleCallback

LEMMA OnceStep ==
  ASSUME TokensTypeOK, TokensTypeOK', Lineage, Once, TokenStep
  PROVE  Once'
<1>. USE DEF TokensTypeOK
<1>1. CASE UNCHANGED <<callback, pending, used, exchanged>>
  BY <1>1 DEF Once
<1>2. CASE LoginsLost
  BY <1>2 DEF LoginsLost, Once, IdleCallback
<1>3. ASSUME NEW p \in Providers, NEW at \in Nat, Begin(p, at) PROVE Once'
  <2>1. PICK kept \in Room(Live(pending, Created, StateTTL, now), Created, MaxPending) :
          pending' = kept \cup {Len(logins) + 1}
    BY <1>3 DEF Begin
  <2>2. kept \subseteq pending
    BY RoomWithin DEF Live
  <2>3. Len(logins) + 1 \notin DOMAIN logins
    BY LoginsNumbered
  <2>4. pending' \cap used = {}
    BY <2>1, <2>2, <2>3 DEF Once
  <2>5. UNCHANGED <<callback, used, exchanged>>
    BY <1>3 DEF Begin
  <2> QED
    BY <2>4, <2>5 DEF Once
<1>4. ASSUME NEW c \in Callbacks, NEW s \in pending, NEW p \in Providers, Complete(c, s, p)
      PROVE  Once'
  <2>1. /\ pending' = pending \ {s} /\ used' = used \cup {s} /\ UNCHANGED exchanged
        /\ s \notin used /\ s \notin exchanged
    BY <1>4 DEF Complete, Consume, Once
  <2>2. \A d \in Callbacks : callback[d].pc # "idle" => callback[d].login # s
    BY <2>1 DEF Once
  <2>3. CASE UNCHANGED callback
    BY <2>1, <2>3 DEF Once
  <2>4. CASE callback' = [callback EXCEPT ![c] =
               [pc |-> "exchange", login |-> s, provider |-> p, got |-> NoTokens]]
    <3>1. /\ callback'[c].login = s
          /\ \A d \in Callbacks \ {c} : callback'[d] = callback[d]
      BY <2>4
    <3>2. \A d \in Callbacks \ {c} : callback[d].login # s
      BY <2>2, LoginsNumbered
    <3> QED
      BY <2>1, <3>1, <3>2 DEF Once
  <2> QED
    BY <1>4, <2>3, <2>4 DEF Complete
<1>5. ASSUME NEW c \in Callbacks, Exchange(c) PROVE Once'
  <2>1. PICK got :
          callback' = [callback EXCEPT ![c] = [callback[c] EXCEPT !.pc = "store", !.got = got]]
    BY <1>5 DEF Exchange
  <2>2. callback[c] \in Callback
    OBVIOUS
  <2>3. /\ callback'[c].login = callback[c].login
        /\ \A d \in Callbacks \ {c} : callback'[d] = callback[d]
    BY <2>1, <2>2 DEF Callback
  <2>4. UNCHANGED <<pending, used, exchanged>> /\ callback[c].pc # "idle"
    BY <1>5 DEF Exchange
  <2> QED
    BY <2>3, <2>4 DEF Once
<1>6. ASSUME NEW c \in Callbacks, CallbackStores(c) \/ CallbackFails(c) PROVE Once'
  <2>1. /\ callback' = [callback EXCEPT ![c] = IdleCallback] /\ callback[c].pc # "idle"
        /\ exchanged' = exchanged \cup {callback[c].login} /\ UNCHANGED <<pending, used>>
    BY <1>6 DEF CallbackStores, CallbackFails, CallbackReturns
  <2>2. /\ callback'[c].pc = "idle" /\ callback'[c].login = 0
        /\ \A d \in Callbacks \ {c} : callback'[d] = callback[d]
    BY <2>1 DEF IdleCallback
  <2> QED
    BY <2>1, <2>2, LoginsNumbered DEF Once
<1>7. ASSUME \/ \E p \in Providers : DeleteTokens(p)
             \/ \E r \in Callers :
                  \/ \E p \in Providers : BearerToken(r, p)
                  \/ Refresh(r) \/ RefreshStored(r) \/ RefreshFails(r)
      PROVE  UNCHANGED <<callback, pending, used, exchanged>>
  BY <1>7 DEF DeleteTokens, BearerToken, Refresh, RefreshStored, RefreshFails, CallerReturns
<1> QED
  BY <1>1, <1>2, <1>3, <1>4, <1>5, <1>6, <1>7 DEF TokenStep, tokenVars

(* A provider that was disconnected while nothing was under way stays so   *)
(* until a login is begun for it.                                          *)
LEMMA OffStep ==
  ASSUME TokensTypeOK, TokensTypeOK', Mutex, Lineage, Off, TokenStep, now \in Nat, Forward
  PROVE  Off'
<1>. USE DEF TokensTypeOK
<1>1. \A s \in DOMAIN logins : Unexpired(s)' => Unexpired(s)
  BY LoginsTyped, LoginsStand DEF Unexpired, Forward
<1>2. ASSUME UNCHANGED logins, off' \subseteq off, pending' \subseteq pending,
             \A p \in off' : tokens'[p] \in {NoTokens, tokens[p]},
             \A p \in off', c \in Callbacks : callback[c].provider # p => callback'[c].provider # p,
             \A p \in off', r \in Callers : caller[r].provider # p => caller'[r].provider # p
      PROVE  Off'
  <2> SUFFICES ASSUME NEW p \in off' PROVE tokens'[p].by = 0 /\ Quiet(p)'
    BY DEF Off
  <2>1. tokens[p].by = 0 /\ Quiet(p)
    BY <1>2 DEF Off
  <2>2. tokens'[p].by = 0
    BY <1>2, <2>1 DEF NoTokens
  <2>3. \A s \in pending' : logins'[s].provider = p => ~Unexpired(s)'
    BY <1>1, <1>2, <2>1 DEF Quiet
  <2>4. /\ \A c \in Callbacks : callback'[c].provider # p
        /\ \A r \in Callers : caller'[r].provider # p
    BY <1>2, <2>1 DEF Quiet
  <2> QED
    BY <2>2, <2>3, <2>4 DEF Quiet
<1>3. CASE UNCHANGED tokenVars
  BY <1>2, <1>3 DEF tokenVars
<1>4. CASE LoginsLost
  <2>1. \A p \in off : p # NoProvider
    BY ProvidersAssumption
  <2> QED
    BY <1>2, <1>4, <2>1 DEF LoginsLost, IdleCallback, IdleCaller
<1>5. ASSUME NEW p \in Providers, NEW at \in Nat, Begin(p, at) PROVE Off'
  <2>1. PICK kept \in Room(Live(pending, Created, StateTTL, now), Created, MaxPending) :
          pending' = kept \cup {Len(logins) + 1}
    BY <1>5 DEF Begin
  <2>2. kept \subseteq pending
    BY RoomWithin DEF Live
  <2>3. logins'[Len(logins) + 1].provider = p
    <3>1. [provider |-> p, created |-> at] \in Login
      BY DEF Login
    <3>2. Append(logins, [provider |-> p, created |-> at])[Len(logins) + 1] = [provider |-> p, created |-> at]
      BY <3>1, Appended
    <3> QED
      BY <1>5, <3>2 DEF Begin
  <2>4. off' = off \ {p} /\ UNCHANGED <<tokens, callback, caller>>
    BY <1>5 DEF Begin
  <2>5. ASSUME NEW q \in off' PROVE tokens'[q].by = 0 /\ Quiet(q)'
    <3>1. q # p /\ tokens[q].by = 0 /\ Quiet(q)
      BY <2>4 DEF Off
    <3>2. \A s \in kept : logins'[s] = logins[s] /\ (logins[s].provider = q => ~Unexpired(s)')
      BY <1>1, <2>2, <3>1, LoginsStand DEF Quiet
    <3>3. \A s \in pending' : logins'[s].provider = q => ~Unexpired(s)'
      BY <2>1, <2>3, <3>1, <3>2
    <3> QED
      BY <2>4, <3>1, <3>3 DEF Quiet
  <2> QED
    BY <2>5 DEF Off
<1>6. ASSUME NEW p \in Providers, DeleteTokens(p) PROVE Off'
  <2>1. \A q \in Providers : tokens'[q] \in {NoTokens, tokens[q]} /\ tokens'[p] = NoTokens
    BY <1>6 DEF DeleteTokens
  <2>2. off' \subseteq off \cup {p} /\ (p \in off' => p \in off \/ Quiet(p))
    BY <1>6 DEF DeleteTokens
  <2>3. UNCHANGED <<logins, pending, callback, caller>>
    BY <1>6 DEF DeleteTokens
  <2>4. ASSUME NEW q \in off' PROVE tokens'[q].by = 0 /\ Quiet(q)'
    <3>1. Quiet(q)
      BY <2>2 DEF Off
    <3>2. tokens'[q].by = 0
      BY <2>1, <2>2 DEF Off, NoTokens
    <3>3. Quiet(q)'
      BY <1>1, <2>3, <3>1 DEF Quiet
    <3> QED
      BY <3>2, <3>3
  <2> QED
    BY <2>4 DEF Off
<1>7. ASSUME NEW c \in Callbacks, NEW s \in pending, NEW p \in Providers, Complete(c, s, p)
      PROVE  Off'
  <2>1. UNCHANGED <<logins, tokens, caller, off>> /\ pending' \subseteq pending
    BY <1>7 DEF Complete, Consume
  <2>2. CASE UNCHANGED callback
    BY <1>2, <2>1, <2>2
  <2>3. CASE /\ Unexpired(s) /\ logins[s].provider = p
             /\ callback' = [callback EXCEPT ![c] =
                  [pc |-> "exchange", login |-> s, provider |-> p, got |-> NoTokens]]
    <3>1. p \notin off
      BY <2>3 DEF Off, Quiet
    <3>2. callback'[c].provider = p /\ \A d \in Callbacks \ {c} : callback'[d] = callback[d]
      BY <2>3
    <3> QED
      BY <1>2, <2>1, <3>1, <3>2
  <2> QED
    BY <1>7, <2>2, <2>3 DEF Complete
<1>8. ASSUME NEW c \in Callbacks, Exchange(c) PROVE Off'
  <2>1. PICK got :
          callback' = [callback EXCEPT ![c] = [callback[c] EXCEPT !.pc = "store", !.got = got]]
    BY <1>8 DEF Exchange
  <2>2. callback[c] \in Callback
    OBVIOUS
  <2>3. \A d \in Callbacks : callback'[d].provider = callback[d].provider
    BY <2>1, <2>2 DEF Callback
  <2>4. UNCHANGED <<logins, pending, tokens, caller, off>>
    BY <1>8 DEF Exchange
  <2> QED
    BY <1>2, <2>3, <2>4
<1>9. ASSUME NEW c \in Callbacks, CallbackStores(c) \/ CallbackFails(c) PROVE Off'
  <2>1. /\ callback' = [callback EXCEPT ![c] = IdleCallback] /\ callback[c].pc # "idle"
        /\ UNCHANGED <<logins, pending, caller, off>>
        /\ tokens' = tokens \/ tokens' = [tokens EXCEPT ![callback[c].provider] = callback[c].got]
    BY <1>9 DEF CallbackStores, CallbackFails, CallbackReturns
  <2>2. callback[c].provider \notin off /\ NoProvider \notin off
    BY ProvidersAssumption DEF Off, Quiet
  <2>3. callback'[c].provider = NoProvider /\ \A d \in Callbacks \ {c} : callback'[d] = callback[d]
    BY <2>1 DEF IdleCallback
  <2>4. \A p \in off : tokens'[p] = tokens[p]
    BY <2>1, <2>2
  <2> QED
    BY <1>2, <2>1, <2>2, <2>3, <2>4
<1>10. ASSUME NEW r \in Callers, NEW p \in Providers, BearerToken(r, p) PROVE Off'
  <2>1. p \notin off
    BY <1>10 DEF BearerToken, Off
  <2>2. caller'[r].provider = p /\ \A q \in Callers \ {r} : caller'[q] = caller[q]
    BY <1>10 DEF BearerToken
  <2>3. UNCHANGED <<logins, pending, tokens, callback, off>>
    BY <1>10 DEF BearerToken
  <2> QED
    BY <1>2, <2>1, <2>2, <2>3
<1>11. ASSUME NEW r \in Callers, Refresh(r) PROVE Off'
  <2>1. PICK got :
          caller' = [caller EXCEPT ![r] = [caller[r] EXCEPT !.pc = "store", !.got = got]]
    BY <1>11 DEF Refresh
  <2>2. caller[r] \in Caller
    OBVIOUS
  <2>3. \A q \in Callers : caller'[q].provider = caller[q].provider
    BY <2>1, <2>2 DEF Caller
  <2>4. UNCHANGED <<logins, pending, tokens, callback, off>>
    BY <1>11 DEF Refresh
  <2> QED
    BY <1>2, <2>3, <2>4
<1>12. ASSUME NEW r \in Callers, RefreshStored(r) \/ RefreshFails(r) PROVE Off'
  <2>1. /\ caller' = [caller EXCEPT ![r] = IdleCaller] /\ caller[r].pc # "idle"
        /\ UNCHANGED <<logins, pending, callback, off>>
        /\ tokens' = tokens \/ tokens' = [tokens EXCEPT ![caller[r].provider] = caller[r].got]
    BY <1>12 DEF RefreshStored, RefreshFails, CallerReturns
  <2>2. caller[r].provider \notin off /\ NoProvider \notin off
    BY ProvidersAssumption DEF Off, Quiet
  <2>3. caller'[r].provider = NoProvider /\ \A q \in Callers \ {r} : caller'[q] = caller[q]
    BY <2>1 DEF IdleCaller
  <2>4. \A p \in off : tokens'[p] = tokens[p]
    BY <2>1, <2>2
  <2> QED
    BY <1>2, <2>1, <2>2, <2>3, <2>4
<1> QED
  BY <1>3, <1>4, <1>5, <1>6, <1>7, <1>8, <1>9, <1>10, <1>11, <1>12 DEF TokenStep

(* With any number of administrators, browsers and requests: the tokens    *)
(* stored for a provider come from a login that was begun for it, a login  *)
(* is exchanged once, and a disconnect made while nothing was under way    *)
(* holds until the next login (service.go:90-128, handler.go:164-179).     *)
THEOREM TokensComeFromLogins == Spec => []TokensFromLogins
<1>. DEFINE Inv == TypeOK /\ Mutex /\ Lineage /\ Once /\ Off
<1>1. Init => Inv
  <2>1. Init => Mutex /\ Lineage /\ Once /\ Off
    BY DEF Init, TokensInit, Mutex, Lineage, Once, Off, From, IdleCaller, IdleCallback, NoTokens
  <2> QED
    BY <2>1, TypeAtStart
<1>2. Inv /\ TypeOK' /\ [Next]_vars => Inv'
  <2> SUFFICES ASSUME Inv, TypeOK', [Next]_vars PROVE Inv'
    OBVIOUS
  <2>1. TokenStep /\ Forward
    BY NextSplits
  <2>2. Mutex'
    BY <2>1, MutexStep DEF TypeOK
  <2>3. Lineage'
    BY <2>1, <2>2, LineageStep DEF TypeOK
  <2>4. Once'
    BY <2>1, OnceStep DEF TypeOK
  <2>5. Off'
    BY <2>1, OffStep DEF TypeOK
  <2> QED
    BY <2>2, <2>3, <2>4, <2>5
<1>3. Inv => TokensFromLogins
  BY DEF Lineage, From, Once, Off, TokensFromLogins
<1> QED
  BY <1>1, <1>2, <1>3, TypeCorrect, PTL DEF Spec
=============================================================================
