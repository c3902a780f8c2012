------------------------------ MODULE Accounts ------------------------------
(***************************************************************************)
(* Admin sessions and OAuth logins together, as bootstrap/admin.go and     *)
(* transport/httpserver/server.go wire them: a login is begun and a        *)
(* provider disconnected only through SessionAuth, while callbacks and     *)
(* calls of BearerToken need no session.                                   *)
(***************************************************************************)
EXTENDS AdminSessions, OAuthTokens

CONSTANT Bounds  \* sets of bounds, of which a behaviour is given one

VARIABLE bounds

vars == <<now, bounds, adminVars, tokenVars>>

Bound == [time : Nat, admins : Nat, sessions : Nat, logins : Nat, minted : Nat]

ASSUME BoundsAssumption == Bounds \subseteq Bound

TypeOK ==
  /\ now \in Nat
  /\ bounds \in Bound
  /\ SessionsTypeOK
  /\ TokensTypeOK

(* The zero time is no time of the clock.                                  *)
Init ==
  /\ now = 1
  /\ bounds \in Bounds
  /\ SessionsInit
  /\ TokensInit

Tick ==
  /\ now < bounds.time
  /\ now' = now + 1
  /\ UNCHANGED <<bounds, adminVars, tokenVars>>

Restart ==
  /\ SessionsLost
  /\ LoginsLost
  /\ UNCHANGED <<now, bounds>>

Arrives(a) ==
  /\ Cardinality({b \in Admins : admin[b].pc # "idle"}) < bounds.admins
  /\ \/ SignIn(a) /\ Len(signins) < bounds.sessions
     \/ \E s \in sessions, p \in Providers : Start(a, s, p) \/ Submit(a, s, p)
  /\ UNCHANGED <<now, bounds, tokenVars>>

Proceeds(a) ==
  /\ \/ Enter(a)
     \/ OpenSession(a) /\ Len(signins) < bounds.sessions
  /\ UNCHANGED <<now, bounds, tokenVars>>

SessionEnds ==
  /\ \E s \in sessions : Refuse(s) \/ SignOut(s)
  /\ UNCHANGED <<now, bounds, tokenVars>>

BeginLogin(a) ==
  /\ Started(a)
  /\ Len(logins) < bounds.logins
  /\ Begin(admin[a].provider, admin[a].at)
  /\ UNCHANGED <<now, bounds>>

Disconnect(a) ==
  /\ Leave(a)
  /\ DeleteTokens(admin[a].provider)
  /\ UNCHANGED <<now, bounds>>

DisconnectFails(a) ==
  /\ Leave(a)
  /\ UNCHANGED <<now, bounds, tokenVars>>

Callbacking(c) ==
  /\ \/ \E s \in pending, p \in Providers : Complete(c, s, p)
     \/ Exchange(c) /\ minted < bounds.minted
     \/ CallbackStores(c)
     \/ CallbackFails(c)
  /\ UNCHANGED <<now, bounds, adminVars>>

Calling(r) ==
  /\ \/ \E p \in Providers : BearerToken(r, p)
     \/ Refresh(r) /\ minted < bounds.minted
     \/ RefreshStored(r)
     \/ RefreshFails(r)
  /\ UNCHANGED <<now, bounds, adminVars>>

Next ==
  \/ Tick \/ Restart \/ SessionEnds
  \/ \E a \in Admins : Arrives(a) \/ Proceeds(a) \/ BeginLogin(a)
                       \/ Disconnect(a) \/ DisconnectFails(a)
  \/ \E c \in Callbacks : Callbacking(c)
  \/ \E r \in Callers : Calling(r)

Spec == Init /\ [][Next]_vars

-----------------------------------------------------------------------------
(* A refresh token is presented again only while no successor of it was    *)
(* stored: neither the store nor a refresh under way holds one that was    *)
(* replaced (providers that rotate refresh tokens revoke the whole login   *)
(* when an old one comes back; runtime.go:52, 89).                         *)
NoSpentRefresh ==
  /\ \A p \in Providers : tokens[p].refresh \notin spent
  /\ \A r \in Callers : caller[r].pc = "refresh" => caller[r].seen.refresh \notin spent

(* A provider's tokens descend from a login an administrator began for     *)
(* that provider, of which the code was exchanged once; and after a        *)
(* disconnect made while nothing was under way for it there are none until *)
(* a login is begun again (service.go:106-128, handler.go:174).            *)
TokensFromLogins ==
  /\ \A p \in Providers :
       tokens[p].by # 0 => tokens[p].by \in DOMAIN logins /\ logins[tokens[p].by].provider = p
  /\ \A c \in Callbacks :
       callback[c].pc # "idle" =>
         /\ callback[c].login \notin exchanged
         /\ \A d \in Callbacks \ {c} : callback[d].login # callback[c].login
  /\ \A p \in off : tokens[p].by = 0

(* Neither a full register of sessions nor one of pending logins loses an  *)
(* entry that is younger than what it keeps (evictOldestLocked, twice).    *)
YoungestKept == SessionsKept /\ LoginsKept
=============================================================================
