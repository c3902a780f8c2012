---------------------------- MODULE AdminSessions ----------------------------
(***************************************************************************)
(* The sessions of the admin interface (transport/adminhttp/session.go)    *)
(* and the path of a request through SessionAuth.ServeHTTP: the session is *)
(* checked once, under mu; a mutation then waits for mutationMu, which one *)
(* mutation holds while it runs.  A request names any session that was     *)
(* ever made: cookies outlive their sessions.                              *)
(*                                                                         *)
(* Left out, because nothing changes: wrong passwords and CSRF tokens, and *)
(* requests without a session.  The mutation modelled here is the          *)
(* disconnect of an OAuth provider; those of the catalog and the keys are  *)
(* in Catalog.                                                             *)
(***************************************************************************)
EXTENDS Expiry, Sequences

CONSTANTS Admins,       \* requests of administrators
          SessionTTL,   \* lifetime of a session
          MaxSessions,  \* maxAdminSessions
          NoAdmin       \* no request holds mutationMu

ASSUME SessionsAssumption ==
  /\ SessionTTL \in Nat \ {0} /\ MaxSessions \in Nat \ {0}
  /\ NoAdmin \notin Admins

VARIABLES
  signins,   \* when each session was made (ExpiresAt, less the lifetime)
  sessions,  \* the sessions in the map
  admin,     \* the requests
  mutating,  \* the request that holds mutationMu
  closed     \* history: sessions signed out of, or lost in a restart

adminVars == <<signins, sessions, admin, mutating, closed>>

Request ==
  [pc : {"idle", "login", "start", "wait", "run"}, at : Nat,
   provider : Providers \cup {NoProvider}]

IdleRequest == [pc |-> "idle", at |-> 0, provider |-> NoProvider]

SessionsTypeOK ==
  /\ signins \in Seq(Nat)
  /\ sessions \subseteq DOMAIN signins
  /\ Cardinality(sessions) <= MaxSessions
  /\ admin \in [Admins -> Request]
  /\ \A a \in Admins :
       admin[a].pc \in {"start", "wait", "run"} => admin[a].provider \in Providers
  /\ mutating \in Admins \cup {NoAdmin}
  /\ \A a \in Admins : admin[a].pc = "run" <=> mutating = a
  /\ closed \subseteq DOMAIN signins

SessionsInit ==
  /\ signins = <<>> /\ sessions = {} /\ closed = {}
  /\ admin = [a \in Admins |-> IdleRequest]
  /\ mutating = NoAdmin

Goes(a, pc, at, p) ==
  admin' = [admin EXCEPT ![a] = [pc |-> pc, at |-> at, provider |-> p]]

Returns(a) == admin' = [admin EXCEPT ![a] = IdleRequest]

-----------------------------------------------------------------------------
(* login: the right password; the clock is read before the lock.           *)
SignIn(a) ==
  /\ admin[a].pc = "idle"
  /\ Goes(a, "login", now, NoProvider)
  /\ UNCHANGED <<signins, sessions, mutating, closed>>

OpenSession(a) ==
  /\ admin[a].pc = "login"
  /\ \E kept \in Room(Live(sessions, signins, SessionTTL, admin[a].at), signins, MaxSessions) :
       sessions' = kept \cup {Len(signins) + 1}
  /\ signins' = Append(signins, admin[a].at)
  /\ Returns(a)
  /\ UNCHANGED <<mutating, closed>>

(* session: only a session of the map that has not expired lets a request  *)
(* through; one that has expired is dropped when it is asked for.          *)
Valid(s) == s \in sessions /\ now < signins[s] + SessionTTL

Refuse(s) ==
  /\ s \in sessions /\ ~Valid(s)
  /\ sessions' = sessions \ {s}
  /\ UNCHANGED <<signins, admin, mutating, closed>>

SignOut(s) ==
  /\ Valid(s)
  /\ sessions' = sessions \ {s}
  /\ closed' = closed \cup {s}
  /\ UNCHANGED <<signins, admin, mutating>>

(* GET /admin/oauth/{provider}/start: no mutation, so no mutex.            *)
Start(a, s, p) ==
  /\ admin[a].pc = "idle" /\ Valid(s)
  /\ Goes(a, "start", now, p)
  /\ UNCHANGED <<signins, sessions, mutating, closed>>

(* A mutation: after the check it waits, whatever becomes of the session.  *)
Submit(a, s, p) ==
  /\ admin[a].pc = "idle" /\ Valid(s)
  /\ Goes(a, "wait", 0, p)
  /\ UNCHANGED <<signins, sessions, mutating, closed>>

Enter(a) ==
  /\ admin[a].pc = "wait" /\ mutating = NoAdmin
  /\ Goes(a, "run", 0, admin[a].provider)
  /\ mutating' = a
  /\ UNCHANGED <<signins, sessions, closed>>

Leave(a) ==
  /\ admin[a].pc = "run"
  /\ Returns(a)
  /\ mutating' = NoAdmin
  /\ UNCHANGED <<signins, sessions, closed>>

Started(a) ==
  /\ admin[a].pc = "start"
  /\ Returns(a)
  /\ UNCHANGED <<signins, sessions, mutating, closed>>

SessionsLost ==
  /\ sessions' = {}
  /\ closed' = closed \cup sessions
  /\ admin' = [a \in Admins |-> IdleRequest]
  /\ mutating' = NoAdmin
  /\ UNCHANGED signins

(* A session that has neither ended nor expired is in the map unless       *)
(* MaxSessions sessions (itself included) are at least as young.           *)
SessionsKept ==
  \A s \in DOMAIN signins \ (sessions \cup closed) :
    \/ now >= signins[s] + SessionTTL
    \/ Cardinality({t \in DOMAIN signins : signins[t] >= signins[s]}) >= MaxSessions
=============================================================================
