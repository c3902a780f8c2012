------------------------------ MODULE Routing ------------------------------
(***************************************************************************)
(* The provider catalog and the routing table built from it: when a        *)
(* catalog is valid, what the router is given, when it accepts it, and how *)
(* a request is resolved to an ordered list of providers to attempt.       *)
(*                                                                         *)
(* Catalogs are checked twice, by Validate when an administrator edits     *)
(* them and by buildSnapshot when the router is given them; the table only *)
(* holds enabled providers, the catalog holds all of them.                 *)
(*                                                                         *)
(* A provider list is a map by id (the primary key of its table), and the  *)
(* upstream model of a route target, which no check reads, is left out.    *)
(***************************************************************************)
EXTENDS Naturals, Sequences

CONSTANTS
  ProviderIDs,    \* non-empty provider ids
  Protocols,      \* the supported protocols
  Models,         \* the model names routes are keyed by
  Routes,         \* the target lists a form or the environment may contain
  BaseURLs,       \* what a form may contain as a base URL
  ValidBaseURLs,  \* those validateBaseURL accepts
  Keys,           \* API keys
  NoKey           \* a provider without one

ASSUME RoutingAssumption ==
  /\ ProviderIDs # {} /\ Protocols # {} /\ Models # {}
  /\ ValidBaseURLs \subseteq BaseURLs
  /\ Routes \subseteq Seq(ProviderIDs)
  /\ NoKey \notin Keys

Maps(D, R) == UNION {[S -> R] : S \in SUBSET D}

Put(f, x, v) == [y \in DOMAIN f \cup {x} |-> IF y = x THEN v ELSE f[y]]
Remove(f, x) == [y \in DOMAIN f \ {x} |-> f[y]]

-----------------------------------------------------------------------------
(* The catalog                                                             *)

Provider == [protocol : Protocols, baseURL : BaseURLs, enabled : BOOLEAN]

Snapshot == [providers : Maps(ProviderIDs, Provider),
             defaults  : Maps(Protocols, ProviderIDs),
             routes    : Maps(Models, Routes)]

EmptyMap      == [x \in {} |-> x]
EmptySnapshot == [providers |-> EmptyMap, defaults |-> EmptyMap, routes |-> EmptyMap]

Enabled(s) == {id \in DOMAIN s.providers : s.providers[id].enabled}

(* Mutant: a default may name a disabled provider.                         *)
ValidDisabledDefault(s) ==
  /\ \A id \in DOMAIN s.providers : s.providers[id].baseURL \in ValidBaseURLs
  /\ \A p \in DOMAIN s.defaults :
       /\ s.defaults[p] \in DOMAIN s.providers
       /\ s.providers[s.defaults[p]].protocol = p
  /\ \A m \in DOMAIN s.routes :
       /\ s.routes[m] # <<>>
       /\ \A i \in DOMAIN s.routes[m] : s.routes[m][i] \in Enabled(s)

(* Snapshot.Validate.                                                      *)
Valid(s) ==
  /\ \A id \in DOMAIN s.providers : s.providers[id].baseURL \in ValidBaseURLs
  /\ \A p \in DOMAIN s.defaults :
       /\ s.defaults[p] \in Enabled(s)
       /\ s.providers[s.defaults[p]].protocol = p
  /\ \A m \in DOMAIN s.routes :
       /\ s.routes[m] # <<>>
       /\ \A i \in DOMAIN s.routes[m] : s.routes[m][i] \in Enabled(s)

-----------------------------------------------------------------------------
(* The table                                                               *)

Target == [protocol : Protocols, baseURL : BaseURLs, apiKey : Keys \cup {NoKey}]

Table == [targets  : Maps(ProviderIDs, Target),
          defaults : Maps(Protocols, ProviderIDs),
          routes   : Maps(Models, Routes)]

(* routingInputs: the enabled providers, each with the key it has, and the *)
(* defaults and routes as they are.                                        *)
RoutingInputs(s, keys) ==
  [targets  |-> [id \in Enabled(s) |->
                   [protocol |-> s.providers[id].protocol,
                    baseURL  |-> s.providers[id].baseURL,
                    apiKey   |-> keys[id]]],
   defaults |-> s.defaults,
   routes   |-> s.routes]

(* buildSnapshot: what it refuses; what it accepts is published as it is.  *)
Buildable(t) ==
  /\ \A p \in DOMAIN t.defaults :
       /\ t.defaults[p] \in DOMAIN t.targets
       /\ t.targets[t.defaults[p]].protocol = p
  /\ \A m \in DOMAIN t.routes :
       /\ t.routes[m] # <<>>
       /\ \A i \in DOMAIN t.routes[m] : t.routes[m][i] \in DOMAIN t.targets

(* Table.Resolve: the route of the model, else the protocol's default; no  *)
(* attempt at all is ErrNoRoute.                                           *)
Resolve(t, protocol, model) ==
  IF model \in DOMAIN t.routes THEN t.routes[model]
  ELSE IF protocol \in DOMAIN t.defaults THEN <<t.defaults[protocol]>>
  ELSE <<>>

(* Table.Ready, what the readiness probe answers.                          *)
Ready(t) == DOMAIN t.targets # {} /\ (DOMAIN t.defaults # {} \/ DOMAIN t.routes # {})
=============================================================================
