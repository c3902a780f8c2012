------------------------------ MODULE Catalog ------------------------------
(***************************************************************************)
(* Editing the configuration of a running gateway.  The same facts live in *)
(* four places: the catalog tables and the credentials table of SQLite,    *)
(* the key map of the credentials service, and the router's table, the     *)
(* only one requests read.  An administrator's mutation updates them one   *)
(* after the other, may fail or be cancelled between any two, and tries to *)
(* put back what it already changed.                                       *)
(*                                                                         *)
(* Three mutexes are involved: mutationMu of the admin session middleware, *)
(* held around a whole mutation, the catalog service's and the credentials *)
(* service's.  Each is held by the administrator whose program counter is  *)
(* in its critical section, so no variable stands for it.                  *)
(*                                                                         *)
(* Modelled with SQLite and encrypted credentials, the only setting where  *)
(* anything can be edited.                                                 *)
(***************************************************************************)
EXTENDS Routing

CONSTANTS
  Admins,       \* concurrent admin requests that are not a GET
  Configured,   \* the catalog the environment configures
  Environment,  \* the keys the environment configures
  StoreFaults   \* TRUE: SQLite calls may fail (the request's context ends)

ASSUME CatalogAssumption ==
  /\ Configured \in Snapshot
  /\ Valid(Configured)
  /\ Environment \in [ProviderIDs -> Keys \cup {NoKey}]
  /\ StoreFaults \in BOOLEAN

VARIABLES
  catalog,   \* the tables providers, protocol_defaults and model_routes
  apiKeys,   \* the table credentials
  values,    \* credentials.Service.values
  router,    \* routing.Table
  phase,     \* of the process: "down", "keys" (starting) or "serving"
  pc,        \* where each admin request is
  current, next,  \* the catalog it loaded and the one it wants
  keys,      \* the credentials snapshot it took
  edit,      \* the provider and the key it sets or deletes
  reply,     \* the answer just given, if the last step gave one
  unrestored \* history: providers whose key could not be put back

locals == <<current, next, keys, edit>>
vars   == <<catalog, apiKeys, values, router, phase, pc, locals, reply, unrestored>>

NoKeys  == [id \in ProviderIDs |-> NoKey]
NoEdit  == [id |-> CHOOSE id \in ProviderIDs : TRUE, key |-> NoKey]

CatalogSection    == {"replace", "keys", "publish", "keys_back", "publish_back"}
CredentialSection == {"reload", "publish_keys", "undo"}

CatalogMuFree(a)     == \A b \in Admins \ {a} : pc[b] \notin CatalogSection
CredentialsMuFree(a) == \A b \in Admins \ {a} : pc[b] \notin CredentialSection

Goes(a, from, to) == pc[a] = from /\ pc' = [pc EXCEPT ![a] = to]

(* The handler returns: its locks and its locals are gone.                 *)
Answers(a, from, answer) ==
  /\ Goes(a, from, "idle")
  /\ reply'   = answer
  /\ current' = [current EXCEPT ![a] = EmptySnapshot]
  /\ next'    = [next EXCEPT ![a] = EmptySnapshot]
  /\ keys'    = [keys EXCEPT ![a] = NoKeys]
  /\ edit'    = [edit EXCEPT ![a] = NoEdit]

Continues(a, from, to) == Goes(a, from, to) /\ reply' = "none"

-----------------------------------------------------------------------------
(* The beginning of a mutation                                             *)

(* Mutant: the middleware does not serialise mutations.                    *)
EntersAtOnce(a) == phase = "serving" /\ pc[a] = "idle"

(* SessionAuth takes mutationMu.                                           *)
Enters(a) == phase = "serving" /\ \A b \in Admins : pc[b] = "idle"

(* Service.update up to its first effect: load, mutate (when the mutation  *)
(* accepts the catalog), validate.  A deletion goes to the router first.   *)
Edits(a, accepted, changed, first) ==
  /\ Enters(a)
  /\ CatalogMuFree(a)
  /\ \/ /\ accepted
        /\ Valid(changed)
        /\ Continues(a, "idle", first)
        /\ current' = [current EXCEPT ![a] = catalog]
        /\ next' = [next EXCEPT ![a] = changed]
        /\ UNCHANGED <<keys, edit>>
     \/ /\ ~(accepted /\ Valid(changed)) \/ StoreFaults
        /\ Answers(a, "idle", "error")
  /\ UNCHANGED <<catalog, apiKeys, values, router, phase, unrestored>>

CreateProvider(a, id, item) ==
  Edits(a, id \notin DOMAIN catalog.providers,
        [catalog EXCEPT !.providers = Put(@, id, item)], "replace")

UpdateProvider(a, id, item) ==
  Edits(a, id \in DOMAIN catalog.providers,
        [catalog EXCEPT !.providers = Put(@, id, item)], "replace")

SetProviderEnabled(a, id, enabled) ==
  LET toggled == [catalog.providers EXCEPT ![id].enabled = enabled] IN
  Edits(a, id \in DOMAIN catalog.providers, [catalog EXCEPT !.providers = toggled], "replace")

(* Mutant: a deletion is written to the store before the router.           *)
DeleteProviderPersistFirst(a, id) ==
  /\ id \notin {catalog.defaults[p] : p \in DOMAIN catalog.defaults}
  /\ \A m \in DOMAIN catalog.routes :
       \A i \in DOMAIN catalog.routes[m] : catalog.routes[m][i] # id
  /\ Edits(a, id \in DOMAIN catalog.providers,
           [catalog EXCEPT !.providers = Remove(@, id)], "replace")

(* Refused while a default or a route names the provider.                  *)
DeleteProvider(a, id) ==
  LET referenced ==
        \/ \E p \in DOMAIN catalog.defaults : catalog.defaults[p] = id
        \/ \E m \in DOMAIN catalog.routes :
             \E i \in DOMAIN catalog.routes[m] : catalog.routes[m][i] = id
  IN  Edits(a, id \in DOMAIN catalog.providers /\ ~referenced,
            [catalog EXCEPT !.providers = Remove(@, id)], "keys")

SetDefault(a, protocol, id) ==
  Edits(a, TRUE, [catalog EXCEPT !.defaults = Put(@, protocol, id)], "replace")

ClearDefault(a, protocol) ==
  Edits(a, TRUE, [catalog EXCEPT !.defaults = Remove(@, protocol)], "replace")

SetRoute(a, model, targets) ==
  Edits(a, TRUE, [catalog EXCEPT !.routes = Put(@, model, targets)], "replace")

DeleteRoute(a, model) ==
  Edits(a, TRUE, [catalog EXCEPT !.routes = Remove(@, model)], "replace")

-----------------------------------------------------------------------------
(* Catalog mutations: the store and the router, in either order            *)

Deletes(a) == DOMAIN next[a].providers # DOMAIN current[a].providers
                /\ DOMAIN next[a].providers \subseteq DOMAIN current[a].providers

(* Deleting a provider's row deletes its credentials (ON DELETE CASCADE).  *)
Cascade(s) == [id \in ProviderIDs |-> IF id \in DOMAIN s.providers THEN apiKeys[id]
                                                                  ELSE NoKey]

(* Store.Replace: one transaction.                                         *)
Replace(a) ==
  /\ Continues(a, "replace", IF Deletes(a) THEN "forget" ELSE "keys")
  /\ catalog' = next[a]
  /\ apiKeys' = Cascade(next[a])
  /\ UNCHANGED <<values, router, phase, locals, unrestored>>

(* A deletion gives the router the loaded catalog back.                    *)
ReplaceFails(a) ==
  /\ StoreFaults
  /\ IF Deletes(a)
     THEN Continues(a, "replace", "keys_back") /\ UNCHANGED locals
     ELSE Answers(a, "replace", "error")
  /\ UNCHANGED <<catalog, apiKeys, values, router, phase, unrestored>>

(* The apply callback, first half: credentials.Snapshot().                 *)
TakeKeys(a, from, to) ==
  /\ Continues(a, from, to)
  /\ CredentialsMuFree(a)
  /\ keys' = [keys EXCEPT ![a] = values]
  /\ UNCHANGED <<catalog, apiKeys, values, router, phase, current, next, edit, unrestored>>

(* Mutant: the new targets are published before the new defaults and routes *)
PublishTargetsOnly(a) ==
  LET table == RoutingInputs(next[a], keys[a]) IN
  /\ router' = [router EXCEPT !.targets = table.targets]
  /\ IF Deletes(a)
     THEN Continues(a, "publish", "replace") /\ UNCHANGED locals
     ELSE Answers(a, "publish", "ok")
  /\ UNCHANGED <<catalog, apiKeys, values, phase, unrestored>>

(* Second half: ReplaceProtocols.  A table the router refuses is rolled    *)
(* back in the store, unless the store has not been written yet.           *)
Publish(a) ==
  LET table == RoutingInputs(next[a], keys[a]) IN
  /\ IF Buildable(table)
     THEN /\ router' = table
          /\ UNCHANGED catalog
          /\ IF Deletes(a)
             THEN Continues(a, "publish", "replace") /\ UNCHANGED locals
             ELSE Answers(a, "publish", "ok")
     ELSE /\ catalog' = IF Deletes(a) THEN catalog ELSE current[a]
          /\ UNCHANGED router
          /\ Answers(a, "publish", "error")
  /\ UNCHANGED <<apiKeys, values, phase, unrestored>>

(* Mutant: the failed deletion leaves the router as it is.                 *)
PublishNothingBack(a) ==
  /\ Answers(a, "publish_back", "error")
  /\ UNCHANGED <<catalog, apiKeys, values, router, phase, unrestored>>

(* The rollback of a deletion that could not be stored.                    *)
PublishBack(a) ==
  /\ router' = LET table == RoutingInputs(current[a], keys[a])
               IN  IF Buildable(table) THEN table ELSE router
  /\ Answers(a, "publish_back", "error")
  /\ UNCHANGED <<catalog, apiKeys, values, phase, unrestored>>

(* Mutant: the handler forgets to forget the key.                          *)
ForgetNothing(a) ==
  /\ CredentialsMuFree(a)
  /\ Answers(a, "forget", "ok")
  /\ UNCHANGED <<catalog, apiKeys, values, router, phase, unrestored>>

(* deleteProvider, after the service: ForgetProvider.                      *)
ForgetProvider(a) ==
  LET gone == DOMAIN current[a].providers \ DOMAIN next[a].providers IN
  /\ CredentialsMuFree(a)
  /\ values' = [id \in ProviderIDs |-> IF id \in gone THEN NoKey ELSE values[id]]
  /\ unrestored' = unrestored \ gone
  /\ Answers(a, "forget", "ok")
  /\ UNCHANGED <<catalog, apiKeys, router, phase>>

-----------------------------------------------------------------------------
(* Credential mutations: SetAPIKey, and DeleteAPIKey with key = NoKey      *)

(* repository.Put or Delete.  A key needs its provider's row.              *)
EditKey(a, id, key) ==
  /\ Enters(a)
  /\ CredentialsMuFree(a)
  /\ \/ /\ key # NoKey => id \in DOMAIN catalog.providers
        /\ apiKeys' = [apiKeys EXCEPT ![id] = key]
        /\ edit' = [edit EXCEPT ![a] = [id |-> id, key |-> key]]
        /\ Continues(a, "idle", "reload")
        /\ UNCHANGED <<current, next, keys>>
     \/ /\ (key # NoKey /\ id \notin DOMAIN catalog.providers) \/ StoreFaults
        /\ Answers(a, "idle", "error")
        /\ UNCHANGED apiKeys
  /\ UNCHANGED <<catalog, values, router, phase, unrestored>>

(* The apply callback loads the catalog itself.                            *)
ReloadCatalog(a) ==
  /\ \/ /\ Continues(a, "reload", "publish_keys")
        /\ current' = [current EXCEPT ![a] = catalog]
     \/ StoreFaults /\ Continues(a, "reload", "undo") /\ UNCHANGED current
  /\ UNCHANGED <<catalog, apiKeys, values, router, phase, next, keys, edit, unrestored>>

(* ReplaceProtocols, then the new key map, still under the service's lock. *)
PublishKeys(a) ==
  LET changed == [values EXCEPT ![edit[a].id] = edit[a].key]
      table   == RoutingInputs(current[a], changed)
  IN  /\ IF Buildable(table)
         THEN /\ router' = table
              /\ values' = changed
              /\ unrestored' = unrestored \ {edit[a].id}
              /\ Answers(a, "publish_keys", "ok")
         ELSE /\ Continues(a, "publish_keys", "undo")
              /\ UNCHANGED <<router, values, locals, unrestored>>
      /\ UNCHANGED <<catalog, apiKeys, phase>>

(* Mutant: nothing is put back.                                            *)
UndoesNothing(a) ==
  /\ Answers(a, "undo", "error")
  /\ UNCHANGED <<catalog, apiKeys, values, router, phase, unrestored>>

(* Mutant: the rollback ignores hadOld and puts an empty key back.         *)
UndoPutsBlank(a) ==
  /\ apiKeys' = [apiKeys EXCEPT ![edit[a].id] = IF values[edit[a].id] = NoKey
                                                  THEN "" ELSE values[edit[a].id]]
  /\ Answers(a, "undo", "error")
  /\ UNCHANGED <<catalog, values, router, phase, unrestored>>

(* rollback: the key the service still remembers goes back to the store.   *)
Undo(a) ==
  LET id == edit[a].id IN
  /\ values[id] # NoKey => id \in DOMAIN catalog.providers
  /\ apiKeys' = [apiKeys EXCEPT ![id] = values[id]]
  /\ unrestored' = unrestored \ {id}
  /\ Answers(a, "undo", "error")
  /\ UNCHANGED <<catalog, values, router, phase>>

(* The rollback uses the context whose end made the reload fail.           *)
UndoFails(a) ==
  /\ StoreFaults \/ (values[edit[a].id] # NoKey /\ edit[a].id \notin DOMAIN catalog.providers)
  /\ unrestored' = unrestored \cup {edit[a].id}
  /\ Answers(a, "undo", "error")
  /\ UNCHANGED <<catalog, apiKeys, values, router, phase>>

-----------------------------------------------------------------------------
(* Starting and stopping                                                   *)

(* resolveCatalog: an empty database is filled from the environment.       *)
LoadCatalog ==
  /\ phase = "down"
  /\ phase' = "keys"
  /\ catalog' = IF catalog = EmptySnapshot THEN Configured ELSE catalog
  /\ UNCHANGED <<apiKeys, values, router, pc, locals, reply, unrestored>>

(* resolveCredentials stores the environment's keys for the providers that *)
(* have none, one by one; New then builds the table and serves.  A failure *)
(* or a crash after some of them ends the start.                           *)
ResolveKeys ==
  LET missing == {id \in DOMAIN catalog.providers : apiKeys[id] = NoKey}
      seeded(some) == [id \in ProviderIDs |-> IF id \in some THEN Environment[id]
                                                            ELSE apiKeys[id]]
  IN  /\ phase = "keys"
      /\ \/ /\ apiKeys' = seeded(missing)
            /\ values' = apiKeys'
            /\ router' = RoutingInputs(catalog, values')
            /\ Buildable(router')
            /\ phase' = "serving"
         \/ /\ \E some \in SUBSET missing : apiKeys' = seeded(some)
            /\ phase' = "down"
            /\ UNCHANGED <<values, router>>
      /\ UNCHANGED <<catalog, pc, locals, reply, unrestored>>

(* The process dies; only the database survives.                           *)
Crash ==
  /\ phase = "serving"
  /\ phase' = "down"
  /\ values' = NoKeys
  /\ router' = RoutingInputs(EmptySnapshot, NoKeys)
  /\ pc' = [a \in Admins |-> "idle"]
  /\ current' = [a \in Admins |-> EmptySnapshot]
  /\ next' = [a \in Admins |-> EmptySnapshot]
  /\ keys' = [a \in Admins |-> NoKeys]
  /\ edit' = [a \in Admins |-> NoEdit]
  /\ reply' = "none"
  /\ unrestored' = {}
  /\ UNCHANGED <<catalog, apiKeys>>

-----------------------------------------------------------------------------
Init ==
  /\ catalog = EmptySnapshot
  /\ apiKeys = NoKeys
  /\ values = NoKeys
  /\ router = RoutingInputs(EmptySnapshot, NoKeys)
  /\ phase = "down"
  /\ pc = [a \in Admins |-> "idle"]
  /\ current = [a \in Admins |-> EmptySnapshot]
  /\ next = [a \in Admins |-> EmptySnapshot]
  /\ keys = [a \in Admins |-> NoKeys]
  /\ edit = [a \in Admins |-> NoEdit]
  /\ reply = "none"
  /\ unrestored = {}

Mutates(a) ==
  \/ \E id \in ProviderIDs :
       \/ \E item \in Provider : CreateProvider(a, id, item) \/ UpdateProvider(a, id, item)
       \/ \E enabled \in BOOLEAN : SetProviderEnabled(a, id, enabled)
       \/ DeleteProvider(a, id)
       \/ \E protocol \in Protocols : SetDefault(a, protocol, id)
       \/ \E key \in Keys \cup {NoKey} : EditKey(a, id, key)
  \/ \E protocol \in Protocols : ClearDefault(a, protocol)
  \/ \E model \in Models : DeleteRoute(a, model) \/ \E targets \in Routes : SetRoute(a, model, targets)

Proceeds(a) ==
  \/ Replace(a) \/ ReplaceFails(a)
  \/ TakeKeys(a, "keys", "publish") \/ Publish(a)
  \/ TakeKeys(a, "keys_back", "publish_back") \/ PublishBack(a)
  \/ ForgetProvider(a)
  \/ ReloadCatalog(a) \/ PublishKeys(a) \/ Undo(a) \/ UndoFails(a)

Next ==
  \/ \E a \in Admins : Mutates(a) \/ Proceeds(a)
  \/ LoadCatalog \/ ResolveKeys \/ Crash

Spec == Init /\ [][Next]_vars

-----------------------------------------------------------------------------
(* Properties                                                              *)

(* The shape of the state.                                                 *)
TypeOK ==
  /\ catalog \in Snapshot
  /\ apiKeys \in [ProviderIDs -> Keys \cup {NoKey}]
  /\ values \in [ProviderIDs -> Keys \cup {NoKey}]
  /\ router \in Table
  /\ phase \in {"down", "keys", "serving"}
  /\ pc \in [Admins -> {"idle", "forget"} \cup CatalogSection \cup CredentialSection]
  /\ current \in [Admins -> Snapshot]
  /\ next \in [Admins -> Snapshot]
  /\ keys \in [Admins -> [ProviderIDs -> Keys \cup {NoKey}]]
  /\ edit \in [Admins -> [id : ProviderIDs, key : Keys \cup {NoKey}]]
  /\ reply \in {"none", "ok", "error"}
  /\ unrestored \in SUBSET ProviderIDs

Quiet == phase = "serving" /\ \A a \in Admins : pc[a] = "idle"

(* The two checks agree: what Validate let through, in the store or about  *)
(* to be published, the router accepts.  So a restart always comes up, and *)
(* no edit that was stored has to be taken back because of the router.     *)
RouterNeverRefuses ==
  /\ Buildable(RoutingInputs(catalog, apiKeys))
  /\ \A a \in Admins :
       /\ pc[a] = "publish" => Buildable(RoutingInputs(next[a], keys[a]))
       /\ pc[a] \in {"publish_back", "publish_keys"} =>
            Buildable(RoutingInputs(current[a], keys[a]))

(* Whatever table requests see, in the middle of a mutation too, every     *)
(* attempt they are given names a target of that same table, a default one *)
(* that speaks their protocol, and readiness says whether any request at   *)
(* all can be routed.                                                      *)
PlansServed ==
  /\ \A protocol \in Protocols, model \in Models :
       LET plan == Resolve(router, protocol, model) IN
       /\ \A i \in DOMAIN plan : plan[i] \in DOMAIN router.targets
       /\ model \notin DOMAIN router.routes =>
            \A i \in DOMAIN plan : router.targets[plan[i]].protocol = protocol
  /\ Ready(router) <=>
       \E protocol \in Protocols, model \in Models :
         Resolve(router, protocol, model) # <<>>

(* A provider is taken out of the router before its row, and with it its   *)
(* keys and tokens, is deleted; it is added after its row: requests are    *)
(* never sent to a provider the store does not know.                       *)
RouterTargetsStored ==
  phase = "serving" => DOMAIN router.targets \subseteq DOMAIN catalog.providers

(* Between mutations, whatever failed in them, requests are routed by the  *)
(* catalog that is stored, with the keys the credentials service holds.    *)
RouterFollowsCatalog == Quiet => router = RoutingInputs(catalog, values)

(* Between mutations the keys in memory are those of the store, except the *)
(* ones whose rollback itself failed.                                      *)
KeysFollowStore ==
  Quiet => \A id \in ProviderIDs \ unrestored : values[id] = apiKeys[id]

(* A provider that is not in the catalog has no key anywhere, so one that  *)
(* is created again under the same id starts without.                      *)
NoOrphanKeys ==
  Quiet => \A id \in ProviderIDs \ DOMAIN catalog.providers :
             values[id] = NoKey /\ apiKeys[id] = NoKey

(* A catalog mutation that is answered with an error changed neither the   *)
(* stored catalog nor what requests are routed by.                         *)
NothingKept ==
  \A a \in Admins :
    pc[a] \in CatalogSection /\ pc'[a] = "idle" /\ reply' = "error" =>
      catalog' = current[a] /\ router' = RoutingInputs(current[a], values)

FailedEditChangesNothing == [][NothingKept]_vars

(* What service_test.go says of SetAPIKey: when the runtime cannot be      *)
(* updated, the persisted key is rolled back to the one in memory.         *)
KeyRolledBack ==
  Quiet /\ reply = "error" => values = apiKeys
=============================================================================
