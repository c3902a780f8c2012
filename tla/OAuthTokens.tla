----------------------------- MODULE OAuthTokens -----------------------------
(***************************************************************************)
(* OAuth logins and tokens (application/oauth, provider/oauth): pending    *)
(* logins in memory, callbacks that complete them, the token sets in the   *)
(* credential store, and the calls of BearerToken that refresh them.       *)
(*                                                                         *)
(* BearerToken holds one mutex over its whole call, the network included.  *)
(* A callback and a disconnect write the same token sets without it.       *)
(*                                                                         *)
(* A login is the number it was given: it stands for its random state, its *)
(* verifier and its redirect URI, which is a function of the provider.  A  *)
(* refresh token is the number under which the provider issued it.         *)
(***************************************************************************)
EXTENDS Expiry, Sequences

CONSTANTS Callbacks,   \* requests of browsers the provider sent back
          Callers,     \* requests that need a bearer token
          StateTTL,    \* defaultStateTTL
          MaxPending,  \* maxPendingOAuthStates
          Skew,        \* defaultRefreshSkew
          Lifetimes,   \* what a provider may answer as expires_in
          NoCaller     \* the resolver's mutex is free

ASSUME TokensAssumption ==
  /\ StateTTL \in Nat \ {0} /\ MaxPending \in Nat \ {0}
  /\ Skew \in Nat /\ Lifetimes \subseteq Nat
  /\ NoCaller \notin Callers

VARIABLES
  logins,     \* every login begun: its provider and when (CreatedAt)
  pending,    \* the logins in the map
  tokens,     \* the token set stored for each provider
  callback,   \* the callbacks
  caller,     \* the calls of BearerToken
  lock,       \* the call that holds the resolver's mutex
  minted,     \* how many refresh tokens the providers have issued
  used,       \* history: logins consumed, or lost in a restart
  exchanged,  \* history: logins whose exchange has ended
  spent,      \* history: refresh tokens whose successor was stored
  off         \* history: providers disconnected while nothing was under way

tokenVars ==
  <<logins, pending, tokens, callback, caller, lock, minted, used, exchanged, spent, off>>

(* A token set: the login it descends from (0: there is no token set), its *)
(* refresh token (0: none) and when it expires (0: the zero time, never).  *)
TokenSet == [by : Nat, refresh : Nat, expires : Nat]
NoTokens == [by |-> 0, refresh |-> 0, expires |-> 0]

Login == [provider : Providers, created : Nat]
Created == [s \in DOMAIN logins |-> logins[s].created]

IdleCallback == [pc |-> "idle", login |-> 0, provider |-> NoProvider, got |-> NoTokens]
IdleCaller == [pc |-> "idle", provider |-> NoProvider, seen |-> NoTokens, got |-> NoTokens]

Callback ==
  [pc : {"idle", "exchange", "store"}, login : Nat, provider : Providers \cup {NoProvider},
   got : TokenSet]
Caller ==
  [pc : {"idle", "refresh", "store"}, provider : Providers \cup {NoProvider},
   seen : TokenSet, got : TokenSet]

TokensTypeOK ==
  /\ logins \in Seq(Login)
  /\ pending \subseteq DOMAIN logins
  /\ Cardinality(pending) <= MaxPending
  /\ tokens \in [Providers -> TokenSet]
  /\ callback \in [Callbacks -> Callback]
  /\ \A c \in Callbacks :
       callback[c].pc # "idle" =>
         callback[c].login \in DOMAIN logins /\ callback[c].provider \in Providers
  /\ caller \in [Callers -> Caller]
  /\ \A r \in Callers : caller[r].pc # "idle" => caller[r].provider \in Providers
  /\ lock \in Callers \cup {NoCaller}
  /\ minted \in Nat
  /\ used \subseteq DOMAIN logins /\ exchanged \subseteq DOMAIN logins
  /\ spent \subseteq Nat
  /\ off \subseteq Providers

TokensInit ==
  /\ logins = <<>> /\ pending = {}
  /\ tokens = [p \in Providers |-> NoTokens]
  /\ callback = [c \in Callbacks |-> IdleCallback]
  /\ caller = [r \in Callers |-> IdleCaller]
  /\ lock = NoCaller /\ minted = 0
  /\ used = {} /\ exchanged = {} /\ spent = {} /\ off = {}

-----------------------------------------------------------------------------
(* Begin, once the clock was read: Put prunes with a later clock, evicts,  *)
(* and enters the new login.                                               *)
Begin(p, at) ==
  /\ \E kept \in Room(Live(pending, Created, StateTTL, now), Created, MaxPending) :
       pending' = kept \cup {Len(logins) + 1}
  /\ logins' = Append(logins, [provider |-> p, created |-> at])
  /\ off' = off \ {p}
  /\ UNCHANGED <<tokens, callback, caller, lock, minted, used, exchanged, spent>>

Peek(s) == pending

(* Consume takes the login out before anything about it is checked.        *)
Consume(s) == pending \ {s}

Unexpired(s) == now < logins[s].created + StateTTL

(* A browser comes back for login s to the callback of provider p, perhaps *)
(* not for the first time.                                                 *)
Complete(c, s, p) ==
  /\ callback[c].pc = "idle"
  /\ s \in pending
  /\ pending' = Consume(s)
  /\ used' = used \cup {s}
  /\ IF Unexpired(s) /\ logins[s].provider = p
       THEN callback' = [callback EXCEPT ![c] =
              [pc |-> "exchange", login |-> s, provider |-> p, got |-> NoTokens]]
       ELSE UNCHANGED callback
  /\ UNCHANGED <<logins, tokens, caller, lock, minted, exchanged, spent, off>>

(* The provider answers with a new refresh token, or with none.            *)
Minted(none, refresh) ==
  \/ refresh = minted + 1 /\ minted' = minted + 1
  \/ refresh = none /\ UNCHANGED minted

Expiries == {0} \cup {now + life : life \in Lifetimes}

Exchange(c) ==
  /\ callback[c].pc = "exchange"
  /\ \E refresh \in 0 .. minted + 1, expires \in Expiries :
       /\ Minted(0, refresh)
       /\ callback' = [callback EXCEPT ![c] =
            [@ EXCEPT !.pc = "store",
                      !.got = [by |-> callback[c].login, refresh |-> refresh, expires |-> expires]]]
  /\ UNCHANGED <<logins, pending, tokens, caller, lock, used, exchanged, spent, off>>

CallbackReturns(c) ==
  /\ callback' = [callback EXCEPT ![c] = IdleCallback]
  /\ exchanged' = exchanged \cup {callback[c].login}
  /\ UNCHANGED <<logins, pending, caller, lock, minted, used, spent, off>>

CallbackStores(c) ==
  /\ callback[c].pc = "store"
  /\ tokens' = [tokens EXCEPT ![callback[c].provider] = callback[c].got]
  /\ CallbackReturns(c)

(* The exchange failed or brought no access token, or Put failed.          *)
CallbackFails(c) ==
  /\ callback[c].pc # "idle"
  /\ CallbackReturns(c)
  /\ UNCHANGED tokens

-----------------------------------------------------------------------------
AnyTime == TRUE
MutexFree == lock = NoCaller

(* The token set lives on for longer than the skew.                        *)
Current(t) == t.expires = 0 \/ now + Skew < t.expires

(* BearerToken, with the mutex: no token set, a current one, and one that  *)
(* cannot be refreshed are answered at once and change nothing.            *)
BearerToken(r, p) ==
  /\ caller[r].pc = "idle"
  /\ MutexFree
  /\ tokens[p].by # 0 /\ ~Current(tokens[p]) /\ tokens[p].refresh # 0
  /\ caller' = [caller EXCEPT ![r] =
       [pc |-> "refresh", provider |-> p, seen |-> tokens[p], got |-> NoTokens]]
  /\ lock' = r
  /\ UNCHANGED <<logins, pending, tokens, callback, minted, used, exchanged, spent, off>>

(* An answer without a refresh token keeps the old one.                    *)
Refresh(r) ==
  /\ caller[r].pc = "refresh"
  /\ \E refresh \in 0 .. minted + 1, expires \in Expiries :
       /\ Minted(caller[r].seen.refresh, refresh)
       /\ caller' = [caller EXCEPT ![r] =
            [@ EXCEPT !.pc = "store",
                      !.got = [by |-> caller[r].seen.by, refresh |-> refresh, expires |-> expires]]]
  /\ UNCHANGED <<logins, pending, tokens, callback, lock, used, exchanged, spent, off>>

CallerReturns(r) ==
  /\ caller' = [caller EXCEPT ![r] = IdleCaller]
  /\ lock' = NoCaller
  /\ UNCHANGED <<logins, pending, callback, minted, used, exchanged, off>>

RefreshStored(r) ==
  /\ caller[r].pc = "store"
  /\ tokens' = [tokens EXCEPT ![caller[r].provider] = caller[r].got]
  /\ spent' = IF caller[r].got.refresh = caller[r].seen.refresh
                THEN spent ELSE spent \cup {caller[r].seen.refresh}
  /\ CallerReturns(r)

(* The refresh failed, whether or not the provider acted on it; or it      *)
(* brought no access token, or Put failed.                                 *)
RefreshFails(r) ==
  /\ caller[r].pc # "idle"
  /\ CallerReturns(r)
  /\ UNCHANGED <<tokens, spent>>

-----------------------------------------------------------------------------
(* Nothing that could store a token set for p is under way.                *)
Quiet(p) ==
  /\ \A s \in pending : logins[s].provider = p => ~Unexpired(s)
  /\ \A c \in Callbacks : callback[c].provider # p
  /\ \A r \in Callers : caller[r].provider # p

DeleteTokens(p) ==
  /\ tokens' = [tokens EXCEPT ![p] = NoTokens]
  /\ off' = IF Quiet(p) THEN off \cup {p} ELSE off
  /\ UNCHANGED <<logins, pending, callback, caller, lock, minted, used, exchanged, spent>>

(* A restart: what was in memory is lost, the token sets are stored.       *)
LoginsLost ==
  /\ pending' = {}
  /\ used' = used \cup pending
  /\ callback' = [c \in Callbacks |-> IdleCallback]
  /\ caller' = [r \in Callers |-> IdleCaller]
  /\ lock' = NoCaller
  /\ exchanged' = exchanged \cup
       {callback[c].login : c \in {d \in Callbacks : callback[d].pc # "idle"}}
  /\ UNCHANGED <<logins, tokens, minted, spent, off>>

-----------------------------------------------------------------------------
LoginsKept ==
  \A s \in DOMAIN logins \ (pending \cup used) :
    \/ ~Unexpired(s)
    \/ Cardinality({t \in DOMAIN logins : logins[t].created >= logins[s].created}) >= MaxPending
=============================================================================
