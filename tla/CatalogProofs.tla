--------------------------- MODULE CatalogProofs ---------------------------
(***************************************************************************)
(* What Catalog keeps for any providers, protocols, models, keys and       *)
(* administrators.                                                         *)
(***************************************************************************)
EXTENDS Catalog, TLAPS

KeyMap == [ProviderIDs -> Keys \cup {NoKey}]

-----------------------------------------------------------------------------
(* Maps                                                                    *)

(* A map keeps its type when a pair is put in, or one is removed.          *)
LEMMA PutType ==
  ASSUME NEW D, NEW R, NEW f \in Maps(D, R), NEW x \in D, NEW v \in R
  PROVE  Put(f, x, v) \in Maps(D, R)
<1>1. PICK S \in SUBSET D : f \in [S -> R]
  BY DEF Maps
<1>2. Put(f, x, v) \in [S \cup {x} -> R]
  BY <1>1 DEF Put
<1>3. S \cup {x} \in SUBSET D
  BY <1>1
<1> QED
  BY <1>2, <1>3 DEF Maps

LEMMA RemoveType ==
  ASSUME NEW D, NEW R, NEW f \in Maps(D, R), NEW x
  PROVE  Remove(f, x) \in Maps(D, R)
<1>1. PICK S \in SUBSET D : f \in [S -> R]
  BY DEF Maps
<1>2. Remove(f, x) \in [S \ {x} -> R]
  BY <1>1 DEF Remove
<1>3. S \ {x} \in SUBSET D
  BY <1>1
<1> QED
  BY <1>2, <1>3 DEF Maps

LEMMA MapFacts ==
  ASSUME NEW D, NEW R, NEW f \in Maps(D, R)
  PROVE  DOMAIN f \in SUBSET D /\ f \in [DOMAIN f -> R]
  BY DEF Maps

LEMMA EmptyType ==
  ASSUME NEW D, NEW R
  PROVE  EmptyMap \in Maps(D, R)
<1>1. EmptyMap \in [{} -> R]
  BY DEF EmptyMap
<1> QED
  BY <1>1 DEF Maps

LEMMA EmptySnapshotType == EmptySnapshot \in Snapshot
  BY EmptyType DEF EmptySnapshot, Snapshot

-----------------------------------------------------------------------------
(* The table of a catalog                                                  *)

LEMMA InputsType ==
  ASSUME NEW s \in Snapshot, NEW k \in KeyMap
  PROVE  RoutingInputs(s, k) \in Table
<1>1. s.providers \in [DOMAIN s.providers -> Provider] /\ DOMAIN s.providers \in SUBSET ProviderIDs
  BY MapFacts DEF Snapshot
<1> DEFINE T == [id \in Enabled(s) |-> [protocol |-> s.providers[id].protocol,
                                        baseURL  |-> s.providers[id].baseURL,
                                        apiKey   |-> k[id]]]
<1>2. \A id \in Enabled(s) : s.providers[id] \in Provider /\ k[id] \in Keys \cup {NoKey}
  BY <1>1 DEF Enabled, KeyMap
<1>3. T \in [Enabled(s) -> Target]
  BY <1>2 DEF Provider, Target
<1>4. Enabled(s) \in SUBSET ProviderIDs
  BY <1>1 DEF Enabled
<1>5. T \in Maps(ProviderIDs, Target)
  BY <1>3, <1>4 DEF Maps
<1> HIDE DEF T
<1>6. s.defaults \in Maps(Protocols, ProviderIDs) /\ s.routes \in Maps(Models, Routes)
  BY DEF Snapshot
<1>7. RoutingInputs(s, k) = [targets |-> T, defaults |-> s.defaults, routes |-> s.routes]
  BY DEF RoutingInputs, T
<1> QED
  BY <1>5, <1>6, <1>7 DEF Table

(* Snapshot.Validate implies what buildSnapshot requires.                  *)
LEMMA ValidBuilds ==
  ASSUME NEW s, NEW k, Valid(s)
  PROVE  Buildable(RoutingInputs(s, k))
  BY DEF Valid, Buildable, RoutingInputs, Enabled

LEMMA InputsTargets ==
  ASSUME NEW s, NEW k
  PROVE  /\ DOMAIN RoutingInputs(s, k).targets = Enabled(s)
         /\ Enabled(s) \subseteq DOMAIN s.providers
  BY DEF RoutingInputs, Enabled

(* Only the keys of enabled providers reach the table.                     *)
LEMMA InputsKeys ==
  ASSUME NEW s, NEW k, NEW l, \A id \in Enabled(s) : k[id] = l[id]
  PROVE  RoutingInputs(s, k) = RoutingInputs(s, l)
  BY DEF RoutingInputs

LEMMA EmptyValid == Valid(EmptySnapshot)
  BY DEF Valid, EmptySnapshot, EmptyMap

-----------------------------------------------------------------------------
(* Type correctness                                                        *)

LEMMA NoKeysType == NoKeys \in KeyMap /\ NoEdit \in [id : ProviderIDs, key : Keys \cup {NoKey}]
  BY RoutingAssumption DEF NoKeys, KeyMap, NoEdit

(* An answer resets the locals to values of their types.                   *)
LEMMA AnswerType ==
  ASSUME TypeOK, NEW a \in Admins, NEW from, NEW answer \in {"ok", "error"},
         Answers(a, from, answer)
  PROVE  /\ pc' \in [Admins -> {"idle", "forget"} \cup CatalogSection \cup CredentialSection]
         /\ current' \in [Admins -> Snapshot]
         /\ next' \in [Admins -> Snapshot]
         /\ keys' \in [Admins -> KeyMap]
         /\ edit' \in [Admins -> [id : ProviderIDs, key : Keys \cup {NoKey}]]
         /\ reply' \in {"none", "ok", "error"}
  BY NoKeysType, EmptySnapshotType DEF TypeOK, Answers, Goes, KeyMap

LEMMA ContinueType ==
  ASSUME TypeOK, NEW a \in Admins, NEW from,
         NEW to \in {"forget"} \cup CatalogSection \cup CredentialSection,
         Continues(a, from, to)
  PROVE  /\ pc' \in [Admins -> {"idle", "forget"} \cup CatalogSection \cup CredentialSection]
         /\ reply' \in {"none", "ok", "error"}
  BY DEF TypeOK, Continues, Goes

LEMMA EditsType ==
  ASSUME TypeOK, NEW a \in Admins, NEW accepted, NEW changed \in Snapshot,
         NEW first \in {"replace", "keys"},
         Edits(a, accepted, changed, first)
  PROVE  TypeOK'
<1>1. CASE Continues(a, "idle", first) /\ current' = [current EXCEPT ![a] = catalog]
           /\ next' = [next EXCEPT ![a] = changed] /\ UNCHANGED <<keys, edit>>
           /\ UNCHANGED <<catalog, apiKeys, values, router, phase, unrestored>>
  <2>1. first \in {"forget"} \cup CatalogSection \cup CredentialSection
    BY DEF CatalogSection
  <2> QED
    BY <1>1, <2>1, ContinueType DEF TypeOK
<1>2. CASE Answers(a, "idle", "error")
           /\ UNCHANGED <<catalog, apiKeys, values, router, phase, unrestored>>
  BY <1>2, AnswerType DEF TypeOK, KeyMap
<1> QED
  BY <1>1, <1>2 DEF Edits

LEMMA MutatesType ==
  ASSUME TypeOK, NEW a \in Admins, Mutates(a)
  PROVE  TypeOK'
<1> catalog \in Snapshot
  BY DEF TypeOK
<1>1. ASSUME NEW id \in ProviderIDs, NEW item \in Provider,
             CreateProvider(a, id, item) \/ UpdateProvider(a, id, item)
      PROVE  TypeOK'
  <2>1. [catalog EXCEPT !.providers = Put(@, id, item)] \in Snapshot
    BY PutType DEF Snapshot
  <2> QED
    BY <1>1, <2>1, EditsType DEF CreateProvider, UpdateProvider
<1>2. ASSUME NEW id \in ProviderIDs, NEW enabled \in BOOLEAN, SetProviderEnabled(a, id, enabled)
      PROVE  TypeOK'
  <2>1. catalog.providers \in [DOMAIN catalog.providers -> Provider]
          /\ DOMAIN catalog.providers \in SUBSET ProviderIDs
    BY MapFacts DEF Snapshot
  <2> DEFINE toggled == [catalog.providers EXCEPT ![id].enabled = enabled]
  <2>2. toggled \in [DOMAIN catalog.providers -> Provider]
    BY <1>2, <2>1 DEF Provider, SetProviderEnabled
  <2>3. toggled \in Maps(ProviderIDs, Provider)
    BY <2>1, <2>2 DEF Maps
  <2>4. [catalog EXCEPT !.providers = toggled] \in Snapshot
    BY <2>3 DEF Snapshot
  <2> QED
    BY <1>2, <2>4, EditsType DEF SetProviderEnabled
<1>3. ASSUME NEW id \in ProviderIDs, DeleteProvider(a, id)
      PROVE  TypeOK'
  <2>1. [catalog EXCEPT !.providers = Remove(@, id)] \in Snapshot
    BY RemoveType DEF Snapshot
  <2> QED
    BY <1>3, <2>1, EditsType DEF DeleteProvider
<1>4. ASSUME NEW id \in ProviderIDs, NEW protocol \in Protocols, SetDefault(a, protocol, id)
      PROVE  TypeOK'
  <2>1. [catalog EXCEPT !.defaults = Put(@, protocol, id)] \in Snapshot
    BY PutType DEF Snapshot
  <2> QED
    BY <1>4, <2>1, EditsType DEF SetDefault
<1>5. ASSUME NEW protocol \in Protocols, ClearDefault(a, protocol)
      PROVE  TypeOK'
  <2>1. [catalog EXCEPT !.defaults = Remove(@, protocol)] \in Snapshot
    BY RemoveType DEF Snapshot
  <2> QED
    BY <1>5, <2>1, EditsType DEF ClearDefault
<1>6. ASSUME NEW model \in Models, NEW targets \in Routes, SetRoute(a, model, targets)
      PROVE  TypeOK'
  <2>1. [catalog EXCEPT !.routes = Put(@, model, targets)] \in Snapshot
    BY PutType DEF Snapshot
  <2> QED
    BY <1>6, <2>1, EditsType DEF SetRoute
<1>7. ASSUME NEW model \in Models, DeleteRoute(a, model)
      PROVE  TypeOK'
  <2>1. [catalog EXCEPT !.routes = Remove(@, model)] \in Snapshot
    BY RemoveType DEF Snapshot
  <2> QED
    BY <1>7, <2>1, EditsType DEF DeleteRoute
<1>8. ASSUME NEW id \in ProviderIDs, NEW key \in Keys \cup {NoKey}, EditKey(a, id, key)
      PROVE  TypeOK'
  <2>1. CASE Answers(a, "idle", "error") /\ UNCHANGED <<apiKeys, catalog, values, router, phase, unrestored>>
    BY <2>1, AnswerType DEF TypeOK, KeyMap
  <2>2. CASE /\ Continues(a, "idle", "reload")
             /\ apiKeys' = [apiKeys EXCEPT ![id] = key]
             /\ edit' = [edit EXCEPT ![a] = [id |-> id, key |-> key]]
             /\ UNCHANGED <<catalog, values, router, phase, unrestored, current, next, keys>>
    <3>1. "reload" \in {"forget"} \cup CatalogSection \cup CredentialSection
      BY DEF CredentialSection
    <3>2. apiKeys' \in [ProviderIDs -> Keys \cup {NoKey}]
      BY <2>2 DEF TypeOK
    <3>3. edit' \in [Admins -> [id : ProviderIDs, key : Keys \cup {NoKey}]]
      BY <2>2 DEF TypeOK
    <3>4. /\ pc' \in [Admins -> {"idle", "forget"} \cup CatalogSection \cup CredentialSection]
          /\ reply' \in {"none", "ok", "error"}
      BY <2>2, <3>1, ContinueType
    <3> QED
      BY <2>2, <3>2, <3>3, <3>4 DEF TypeOK
  <2> QED
    BY <1>8, <2>1, <2>2 DEF EditKey
<1> QED
  BY <1>1, <1>2, <1>3, <1>4, <1>5, <1>6, <1>7, <1>8 DEF Mutates

LEMMA ProceedsType ==
  ASSUME TypeOK, NEW a \in Admins, Proceeds(a)
  PROVE  TypeOK'
<1> USE DEF KeyMap
<1>1. CASE Replace(a)
  <2>1. Cascade(next[a]) \in [ProviderIDs -> Keys \cup {NoKey}]
    BY DEF TypeOK, Cascade
  <2>2. (IF Deletes(a) THEN "forget" ELSE "keys")
          \in {"forget"} \cup CatalogSection \cup CredentialSection
    BY DEF CatalogSection
  <2>3. next[a] \in Snapshot
    BY DEF TypeOK
  <2> QED
    BY <1>1, <2>1, <2>2, <2>3, ContinueType DEF Replace, TypeOK, locals
<1>2. CASE ReplaceFails(a)
  <2>1. "keys_back" \in {"forget"} \cup CatalogSection \cup CredentialSection
    BY DEF CatalogSection
  <2>2. CASE Deletes(a)
    BY <1>2, <2>1, <2>2, ContinueType DEF ReplaceFails, TypeOK, locals
  <2>3. CASE ~Deletes(a)
    BY <1>2, <2>3, AnswerType DEF ReplaceFails, TypeOK
  <2> QED
    BY <2>2, <2>3
<1>3. ASSUME NEW from, NEW to \in {"publish", "publish_back"}, TakeKeys(a, from, to)
      PROVE  TypeOK'
  <2>1. to \in {"forget"} \cup CatalogSection \cup CredentialSection
    BY DEF CatalogSection
  <2>2. keys' \in [Admins -> KeyMap]
    BY <1>3 DEF TakeKeys, TypeOK
  <2> QED
    BY <1>3, <2>1, <2>2, ContinueType DEF TakeKeys, TypeOK
<1>4. CASE Publish(a)
  <2>1. RoutingInputs(next[a], keys[a]) \in Table /\ current[a] \in Snapshot
    BY InputsType DEF TypeOK
  <2>2. "replace" \in {"forget"} \cup CatalogSection \cup CredentialSection
    BY DEF CatalogSection
  <2>3. CASE Buildable(RoutingInputs(next[a], keys[a])) /\ Deletes(a)
    BY <1>4, <2>1, <2>2, <2>3, ContinueType DEF Publish, TypeOK, locals
  <2>4. CASE Buildable(RoutingInputs(next[a], keys[a])) /\ ~Deletes(a)
    BY <1>4, <2>1, <2>4, AnswerType DEF Publish, TypeOK
  <2>5. CASE ~Buildable(RoutingInputs(next[a], keys[a]))
    BY <1>4, <2>1, <2>5, AnswerType DEF Publish, TypeOK
  <2> QED
    BY <2>3, <2>4, <2>5
<1>5. CASE PublishBack(a)
  <2>1. RoutingInputs(current[a], keys[a]) \in Table
    BY InputsType DEF TypeOK
  <2>2. router' \in Table
    BY <1>5, <2>1 DEF PublishBack, TypeOK
  <2> QED
    BY <1>5, <2>2, AnswerType DEF PublishBack, TypeOK
<1>6. CASE ForgetProvider(a)
  <2>1. values' \in KeyMap /\ unrestored' \in SUBSET ProviderIDs
    BY <1>6 DEF ForgetProvider, TypeOK
  <2> QED
    BY <1>6, <2>1, AnswerType DEF ForgetProvider, TypeOK
<1>7. CASE ReloadCatalog(a)
  <2>1. /\ "publish_keys" \in {"forget"} \cup CatalogSection \cup CredentialSection
        /\ "undo" \in {"forget"} \cup CatalogSection \cup CredentialSection
    BY DEF CredentialSection
  <2>2. current' \in [Admins -> Snapshot]
    BY <1>7 DEF ReloadCatalog, TypeOK
  <2> QED
    BY <1>7, <2>1, <2>2, ContinueType DEF ReloadCatalog, TypeOK
<1>8. CASE PublishKeys(a)
  <2> DEFINE changed == [values EXCEPT ![edit[a].id] = edit[a].key]
             table   == RoutingInputs(current[a], changed)
  <2>1. changed \in KeyMap
    BY DEF TypeOK
  <2>2. table \in Table
    BY <2>1, InputsType DEF TypeOK
  <2>3. "undo" \in {"forget"} \cup CatalogSection \cup CredentialSection
    BY DEF CredentialSection
  <2>4. CASE Buildable(table)
    <3>1. /\ router' = table /\ values' = changed
          /\ unrestored' \in SUBSET ProviderIDs
          /\ Answers(a, "publish_keys", "ok")
          /\ UNCHANGED <<catalog, apiKeys, phase>>
      BY <1>8, <2>4 DEF PublishKeys, TypeOK
    <3> QED
      BY <2>1, <2>2, <3>1, AnswerType DEF TypeOK
  <2>5. CASE ~Buildable(table)
    BY <1>8, <2>3, <2>5, ContinueType DEF PublishKeys, TypeOK, locals
  <2> QED
    BY <2>4, <2>5
<1>9. CASE Undo(a)
  <2>1. apiKeys' \in KeyMap /\ unrestored' \in SUBSET ProviderIDs
    BY <1>9 DEF Undo, TypeOK
  <2> QED
    BY <1>9, <2>1, AnswerType DEF Undo, TypeOK
<1>10. CASE UndoFails(a)
  <2>1. unrestored' \in SUBSET ProviderIDs
    BY <1>10 DEF UndoFails, TypeOK
  <2> QED
    BY <1>10, <2>1, AnswerType DEF UndoFails, TypeOK
<1> QED
  BY <1>1, <1>2, <1>3, <1>4, <1>5, <1>6, <1>7, <1>8, <1>9, <1>10 DEF Proceeds

LEMMA LoadCatalogType == TypeOK /\ LoadCatalog => TypeOK'
  BY CatalogAssumption DEF LoadCatalog, TypeOK, locals

LEMMA ResolveKeysType == TypeOK /\ ResolveKeys => TypeOK'
<1> SUFFICES ASSUME TypeOK, ResolveKeys PROVE TypeOK'
  OBVIOUS
<1>1. apiKeys' \in KeyMap
  BY CatalogAssumption DEF ResolveKeys, TypeOK, KeyMap
<1>2. phase' \in {"down", "keys", "serving"}
  BY DEF ResolveKeys
<1>3. CASE UNCHANGED <<values, router>>
  BY <1>1, <1>2, <1>3 DEF ResolveKeys, TypeOK, locals, KeyMap
<1>4. CASE values' = apiKeys' /\ router' = RoutingInputs(catalog, values')
  <2>1. router' \in Table
    BY <1>1, <1>4, InputsType DEF TypeOK
  <2> QED
    BY <1>1, <1>2, <1>4, <2>1 DEF ResolveKeys, TypeOK, locals, KeyMap
<1> QED
  BY <1>3, <1>4 DEF ResolveKeys

LEMMA CrashType == TypeOK /\ Crash => TypeOK'
<1> SUFFICES ASSUME TypeOK, Crash PROVE TypeOK'
  OBVIOUS
<1>1. RoutingInputs(EmptySnapshot, NoKeys) \in Table
  BY EmptySnapshotType, NoKeysType, InputsType
<1> QED
  BY <1>1, EmptySnapshotType, NoKeysType DEF Crash, TypeOK, KeyMap

(* The catalog, the keys and the locals of every administrator keep their  *)
(* shape (TypeOK), whatever is edited, fails or restarts.                  *)
THEOREM TypeCorrect == Spec => []TypeOK
<1>1. Init => TypeOK
  <2>1. RoutingInputs(EmptySnapshot, NoKeys) \in Table
    BY EmptySnapshotType, NoKeysType, InputsType
  <2> QED
    BY <2>1, EmptySnapshotType, NoKeysType DEF Init, TypeOK, KeyMap
<1>2. TypeOK /\ [Next]_vars => TypeOK'
  <2>1. ASSUME TypeOK, UNCHANGED vars PROVE TypeOK'
    BY <2>1 DEF vars, locals, TypeOK
  <2> QED
    BY <2>1, MutatesType, ProceedsType, LoadCatalogType, ResolveKeysType, CrashType DEF Next
<1> QED
  BY <1>1, <1>2, PTL DEF Spec

-----------------------------------------------------------------------------
(* The inductive invariant                                                 *)

At(a, counters) == pc[a] \in counters

(* What the router serves, in terms of the catalogs a mutation holds.      *)
Serves(s) == router = RoutingInputs(s, values)

(* Outside the set of ids, memory and store agree on the keys.             *)
AgreeExcept(ids) == \A id \in ProviderIDs \ (unrestored \cup ids) : values[id] = apiKeys[id]
NoOrphansIn(ids) == \A id \in ProviderIDs \ ids : values[id] = NoKey

Settled ==
  /\ Serves(catalog)
  /\ AgreeExcept({})
  /\ NoOrphansIn(DOMAIN catalog.providers)

(* An edit stores, then publishes; a deletion publishes, then stores, and  *)
(* until it forgets the key only that key is left behind.                  *)
Storing(a) ==
  At(a, {"replace", "keys", "publish"}) /\ ~Deletes(a) =>
    /\ DOMAIN current[a].providers \subseteq DOMAIN next[a].providers
    /\ Serves(current[a])
    /\ catalog = IF pc[a] = "replace" THEN current[a] ELSE next[a]
    /\ AgreeExcept({}) /\ NoOrphansIn(DOMAIN catalog.providers)

Deleting(a) ==
  /\ At(a, {"keys_back", "publish_back", "forget"}) => Deletes(a)
  /\ At(a, CatalogSection) /\ Deletes(a) =>
       /\ catalog = current[a]
       /\ Serves(IF At(a, {"keys", "publish"}) THEN current[a] ELSE next[a])
       /\ AgreeExcept({}) /\ NoOrphansIn(DOMAIN catalog.providers)
  /\ At(a, {"forget"}) =>
       /\ catalog = next[a]
       /\ Serves(next[a])
       /\ AgreeExcept(DOMAIN current[a].providers \ DOMAIN next[a].providers)
       /\ NoOrphansIn(DOMAIN current[a].providers)

EditingKey(a) ==
  At(a, CredentialSection) =>
    /\ Serves(catalog)
    /\ AgreeExcept({edit[a].id}) /\ NoOrphansIn(DOMAIN catalog.providers)
    /\ edit[a].key # NoKey => edit[a].id \in DOMAIN catalog.providers
    /\ apiKeys[edit[a].id] = edit[a].key
    /\ pc[a] = "publish_keys" => current[a] = catalog

Mutating(a) ==
  /\ pc[a] # "idle" => phase = "serving"
  /\ At(a, CatalogSection \cup {"forget"}) => Valid(current[a]) /\ Valid(next[a])
  /\ At(a, {"publish", "publish_back"}) => keys[a] = values
  /\ Storing(a)
  /\ Deleting(a)
  /\ EditingKey(a)

OneMutation == \A a, b \in Admins : pc[a] # "idle" /\ pc[b] # "idle" => a = b

Stored ==
  /\ Valid(catalog)
  /\ \A id \in ProviderIDs \ DOMAIN catalog.providers : apiKeys[id] = NoKey

Inv ==
  /\ TypeOK
  /\ Stored
  /\ Buildable(router)
  /\ OneMutation
  /\ Quiet => Settled
  /\ \A a \in Admins : Mutating(a)

-----------------------------------------------------------------------------
(* A step of one administrator leaves all the others idle                  *)

LEMMA OthersIdle ==
  ASSUME Inv, NEW a \in Admins, pc[a] # "idle"
  PROVE  /\ phase = "serving"
         /\ \A b \in Admins \ {a} : pc[b] = "idle"
         /\ Mutating(a)
  BY DEF Inv, OneMutation, Mutating

LEMMA Moved ==
  ASSUME TypeOK, NEW a \in Admins, NEW from, NEW to, Goes(a, from, to),
         \A b \in Admins \ {a} : pc[b] = "idle"
  PROVE  pc'[a] = to /\ \A b \in Admins \ {a} : pc'[b] = "idle"
  BY DEF TypeOK, Goes

LEMMA IdleMutating ==
  ASSUME NEW b \in Admins, pc'[b] = "idle"
  PROVE  Mutating(b)'
  BY DEF Mutating, Storing, Deleting, EditingKey, At, CatalogSection, CredentialSection

LEMMA OneMoves ==
  ASSUME TypeOK', Stored', Buildable(router'), NEW a \in Admins,
         \A b \in Admins \ {a} : pc'[b] = "idle",
         pc'[a] = "idle" => Settled',
         Mutating(a)'
  PROVE  Inv'
<1>1. OneMutation'
  BY DEF OneMutation
<1>2. Quiet' => Settled'
  BY DEF Quiet
<1>3. ASSUME NEW b \in Admins \ {a} PROVE Mutating(b)'
  BY <1>3, IdleMutating
<1> QED
  BY <1>1, <1>2, <1>3 DEF Inv

(* An edit that is accepted grows the providers and goes to the store, or  *)
(* shrinks them and goes to the router.                                    *)
LEMMA EditsInv ==
  ASSUME Inv, TypeOK', NEW a \in Admins, NEW accepted, NEW changed, NEW first,
         Edits(a, accepted, changed, first),
         \/ first = "replace" /\ (accepted => DOMAIN catalog.providers \subseteq DOMAIN changed.providers)
         \/ /\ first = "keys"
            /\ accepted => /\ DOMAIN changed.providers # DOMAIN catalog.providers
                           /\ DOMAIN changed.providers \subseteq DOMAIN catalog.providers
  PROVE  Inv'
<1>1. /\ phase = "serving" /\ Settled
      /\ pc[a] = "idle" /\ \A b \in Admins \ {a} : pc[b] = "idle"
      /\ TypeOK /\ Stored /\ Buildable(router)
  BY DEF Edits, Enters, Inv, Quiet
<1>2. UNCHANGED <<catalog, apiKeys, values, router, phase, unrestored>>
  BY DEF Edits
<1>3. Stored' /\ Buildable(router') /\ Settled'
  BY <1>1, <1>2 DEF Stored, Settled, Serves, AgreeExcept, NoOrphansIn
<1>4. CASE Answers(a, "idle", "error")
  <2>1. pc'[a] = "idle" /\ \A b \in Admins \ {a} : pc'[b] = "idle"
    BY <1>1, <1>4, Moved DEF Answers
  <2>2. Mutating(a)'
    BY <2>1, IdleMutating
  <2> QED
    BY <1>3, <2>1, <2>2, OneMoves
<1>5. CASE /\ accepted /\ Valid(changed)
           /\ Continues(a, "idle", first)
           /\ current' = [current EXCEPT ![a] = catalog]
           /\ next' = [next EXCEPT ![a] = changed]
  <2>1. pc'[a] = first /\ \A b \in Admins \ {a} : pc'[b] = "idle"
    BY <1>1, <1>5, Moved DEF Continues
  <2>2. current'[a] = catalog /\ next'[a] = changed
    BY <1>1, <1>5 DEF TypeOK
  <2>3. Valid(current[a])' /\ Valid(next[a])'
    BY <1>1, <1>5, <2>2 DEF Stored, Valid, Enabled
  <2>4. first = "replace" => ~Deletes(a)'
    BY <1>5, <2>2 DEF Deletes
  <2>5. first = "keys" => Deletes(a)'
    BY <1>5, <2>2 DEF Deletes
  <2>6. Storing(a)'
    BY <1>1, <1>2, <1>5, <2>1, <2>2, <2>5
       DEF Storing, At, Settled, Serves, AgreeExcept, NoOrphansIn
  <2>7. Deleting(a)'
    BY <1>1, <1>2, <2>1, <2>2, <2>4
       DEF Deleting, At, Settled, Serves, AgreeExcept, NoOrphansIn, CatalogSection
  <2>8. EditingKey(a)'
    BY <2>1 DEF EditingKey, At, CredentialSection
  <2>9. Mutating(a)'
    BY <1>1, <1>2, <2>1, <2>3, <2>6, <2>7, <2>8 DEF Mutating, At
  <2> QED
    BY <1>3, <2>1, <2>9, OneMoves
<1> QED
  BY <1>4, <1>5 DEF Edits

(* The table does not depend on the store's keys, so putting or deleting   *)
(* one leaves everything settled but that one key.                         *)
LEMMA EditKeyInv ==
  ASSUME Inv, TypeOK', NEW a \in Admins, NEW id \in ProviderIDs,
         NEW key \in Keys \cup {NoKey}, EditKey(a, id, key)
  PROVE  Inv'
<1>1. /\ phase = "serving" /\ Settled
      /\ pc[a] = "idle" /\ \A b \in Admins \ {a} : pc[b] = "idle"
      /\ TypeOK /\ Stored /\ Buildable(router)
  BY DEF EditKey, Enters, Inv, Quiet
<1>2. UNCHANGED <<catalog, values, router, phase, unrestored>>
  BY DEF EditKey
<1>3. CASE Answers(a, "idle", "error") /\ UNCHANGED apiKeys
  <2>1. pc'[a] = "idle" /\ \A b \in Admins \ {a} : pc'[b] = "idle"
    BY <1>1, <1>3, Moved DEF Answers
  <2>2. Mutating(a)'
    BY <2>1, IdleMutating
  <2>3. Stored' /\ Buildable(router') /\ Settled'
    BY <1>1, <1>2, <1>3 DEF Stored, Settled, Serves, AgreeExcept, NoOrphansIn
  <2> QED
    BY <2>1, <2>2, <2>3, OneMoves
<1>4. CASE /\ key # NoKey => id \in DOMAIN catalog.providers
           /\ apiKeys' = [apiKeys EXCEPT ![id] = key]
           /\ edit' = [edit EXCEPT ![a] = [id |-> id, key |-> key]]
           /\ Continues(a, "idle", "reload")
  <2>1. pc'[a] = "reload" /\ \A b \in Admins \ {a} : pc'[b] = "idle"
    BY <1>1, <1>4, Moved DEF Continues
  <2>2. edit'[a] = [id |-> id, key |-> key]
    BY <1>1, <1>4 DEF TypeOK
  <2>3. Stored' /\ Buildable(router')
    BY <1>1, <1>2, <1>4 DEF Stored, TypeOK
  <2>4. EditingKey(a)'
    BY <1>1, <1>2, <1>4, <2>1, <2>2
       DEF EditingKey, At, Settled, Serves, AgreeExcept, NoOrphansIn, TypeOK
  <2>5. Mutating(a)'
    BY <1>1, <1>2, <2>1, <2>4 DEF Mutating, Storing, Deleting, At, CatalogSection
  <2> QED
    BY <2>1, <2>3, <2>5, OneMoves
<1> QED
  BY <1>3, <1>4 DEF EditKey

LEMMA MutatesInv ==
  ASSUME Inv, TypeOK', NEW a \in Admins, Mutates(a)
  PROVE  Inv'
<1>1. ASSUME NEW id \in ProviderIDs, NEW item \in Provider,
             CreateProvider(a, id, item) \/ UpdateProvider(a, id, item)
      PROVE  Inv'
  <2>1. DOMAIN Put(catalog.providers, id, item) = DOMAIN catalog.providers \cup {id}
    BY DEF Put
  <2>2. [catalog EXCEPT !.providers = Put(@, id, item)].providers = Put(catalog.providers, id, item)
    BY DEF Inv, TypeOK, Snapshot
  <2> QED
    BY <1>1, <2>1, <2>2, EditsInv DEF CreateProvider, UpdateProvider
<1>2. ASSUME NEW id \in ProviderIDs, NEW enabled \in BOOLEAN, SetProviderEnabled(a, id, enabled)
      PROVE  Inv'
  <2> DEFINE toggled == [catalog.providers EXCEPT ![id].enabled = enabled]
  <2>1. DOMAIN toggled = DOMAIN catalog.providers
    OBVIOUS
  <2>2. [catalog EXCEPT !.providers = toggled].providers = toggled
    BY DEF Inv, TypeOK, Snapshot
  <2> QED
    BY <1>2, <2>1, <2>2, EditsInv DEF SetProviderEnabled
<1>3. ASSUME NEW id \in ProviderIDs, DeleteProvider(a, id)
      PROVE  Inv'
  <2>1. DOMAIN Remove(catalog.providers, id) = DOMAIN catalog.providers \ {id}
    BY DEF Remove
  <2>2. [catalog EXCEPT !.providers = Remove(@, id)].providers = Remove(catalog.providers, id)
    BY DEF Inv, TypeOK, Snapshot
  <2> QED
    BY <1>3, <2>1, <2>2, EditsInv DEF DeleteProvider
<1>4. \A f, g : /\ [catalog EXCEPT !.defaults = f].providers = catalog.providers
               /\ [catalog EXCEPT !.routes = g].providers = catalog.providers
  BY DEF Inv, TypeOK, Snapshot
<1>5. ASSUME NEW id \in ProviderIDs, NEW protocol \in Protocols, SetDefault(a, protocol, id)
      PROVE  Inv'
  BY <1>4, <1>5, EditsInv DEF SetDefault
<1>6. ASSUME NEW protocol \in Protocols, ClearDefault(a, protocol)
      PROVE  Inv'
  BY <1>4, <1>6, EditsInv DEF ClearDefault
<1>7. ASSUME NEW model \in Models, NEW targets \in Routes, SetRoute(a, model, targets)
      PROVE  Inv'
  BY <1>4, <1>7, EditsInv DEF SetRoute
<1>8. ASSUME NEW model \in Models, DeleteRoute(a, model)
      PROVE  Inv'
  BY <1>4, <1>8, EditsInv DEF DeleteRoute
<1>9. ASSUME NEW id \in ProviderIDs, NEW key \in Keys \cup {NoKey}, EditKey(a, id, key)
      PROVE  Inv'
  BY <1>9, EditKeyInv
<1> QED
  BY <1>1, <1>2, <1>3, <1>5, <1>6, <1>7, <1>8, <1>9 DEF Mutates

LEMMA CatalogStepsInv ==
  ASSUME Inv, TypeOK', NEW a \in Admins,
         \/ Replace(a) \/ ReplaceFails(a)
         \/ TakeKeys(a, "keys", "publish") \/ Publish(a)
         \/ TakeKeys(a, "keys_back", "publish_back") \/ PublishBack(a)
         \/ ForgetProvider(a)
  PROVE  Inv'
<1> USE DEF At
<1>0. TypeOK /\ Stored /\ Buildable(router)
  BY DEF Inv
<1>1. pc[a] \in {"replace", "keys", "publish", "keys_back", "publish_back", "forget"}
  BY DEF Replace, ReplaceFails, TakeKeys, Publish, PublishBack, ForgetProvider,
         Continues, Answers, Goes
<1>2. /\ phase = "serving" /\ \A b \in Admins \ {a} : pc[b] = "idle"
      /\ Mutating(a)
      /\ Valid(current[a]) /\ Valid(next[a])
      /\ Storing(a) /\ Deleting(a)
      /\ pc[a] \in {"publish", "publish_back"} => keys[a] = values
  <2>1. pc[a] # "idle" /\ pc[a] \in CatalogSection \cup {"forget"}
    BY <1>1 DEF CatalogSection
  <2> QED
    BY <2>1, OthersIdle DEF Mutating
<1>3. CASE Replace(a)
  <2>1. /\ pc[a] = "replace" /\ \A b \in Admins \ {a} : pc'[b] = "idle"
        /\ pc'[a] = IF Deletes(a) THEN "forget" ELSE "keys"
        /\ catalog' = next[a] /\ apiKeys' = Cascade(next[a])
        /\ UNCHANGED <<values, router, phase, current, next, keys, edit, unrestored>>
        /\ Deletes(a)' = Deletes(a)
    BY <1>0, <1>2, <1>3, Moved DEF Replace, Continues, Goes, locals, Deletes
  <2>2. Stored' /\ Buildable(router')
    BY <1>0, <1>2, <2>1 DEF Stored, Cascade, Valid, Enabled
  <2>3. CASE Deletes(a)
    <3>1. Deleting(a)'
      BY <1>0, <1>2, <2>1, <2>3 DEF Deleting, CatalogSection, Serves, AgreeExcept,
         NoOrphansIn, Cascade, Stored, Deletes
    <3>2. Mutating(a)'
      BY <1>2, <2>1, <2>3, <3>1 DEF Mutating, Storing, EditingKey, CredentialSection, Valid, Enabled
    <3> QED
      BY <2>1, <2>2, <2>3, <3>2, OneMoves
  <2>4. CASE ~Deletes(a)
    <3>1. apiKeys' = apiKeys
      BY <1>0, <1>2, <2>1, <2>4 DEF Storing, Cascade, Stored, TypeOK
    <3>2. Storing(a)'
      BY <1>0, <1>2, <2>1, <2>4, <3>1 DEF Storing, Serves, AgreeExcept, NoOrphansIn
    <3>3. Mutating(a)'
      BY <1>2, <2>1, <2>4, <3>2 DEF Mutating, Deleting, EditingKey, CredentialSection, Valid, Enabled
    <3> QED
      BY <2>1, <2>2, <2>4, <3>3, OneMoves
  <2> QED
    BY <2>3, <2>4
<1>4. CASE ReplaceFails(a)
  <2>1. pc[a] = "replace" /\ UNCHANGED <<catalog, apiKeys, values, router, phase, unrestored>>
    BY <1>4 DEF ReplaceFails, Continues, Answers, Goes
  <2>2. Stored' /\ Buildable(router')
    BY <1>0, <2>1 DEF Stored
  <2>3. CASE Deletes(a)
    <3>1. /\ pc'[a] = "keys_back" /\ \A b \in Admins \ {a} : pc'[b] = "idle"
          /\ UNCHANGED locals
      BY <1>0, <1>2, <1>4, <2>3, Moved DEF ReplaceFails, Continues
    <3>2. Deletes(a)'
      BY <2>3, <3>1 DEF Deletes, locals
    <3>3. Deleting(a)'
      BY <1>2, <2>1, <2>3, <3>1, <3>2 DEF Deleting, CatalogSection, Serves, AgreeExcept,
         NoOrphansIn, locals
    <3>4. Mutating(a)'
      BY <1>2, <2>1, <3>1, <3>3 DEF Mutating, Storing, EditingKey, CredentialSection, locals
    <3> QED
      BY <2>2, <3>1, <3>4, OneMoves
  <2>4. CASE ~Deletes(a)
    <3>1. pc'[a] = "idle" /\ \A b \in Admins \ {a} : pc'[b] = "idle"
      BY <1>0, <1>2, <1>4, <2>4, Moved DEF ReplaceFails, Answers
    <3>2. Settled'
      BY <1>2, <2>1, <2>4 DEF Storing, Settled, Serves, AgreeExcept, NoOrphansIn
    <3> QED
      BY <2>2, <3>1, <3>2, IdleMutating, OneMoves
  <2> QED
    BY <2>3, <2>4
<1>5. CASE TakeKeys(a, "keys", "publish")
  <2>1. /\ pc[a] = "keys" /\ pc'[a] = "publish" /\ \A b \in Admins \ {a} : pc'[b] = "idle"
        /\ keys'[a] = values
        /\ UNCHANGED <<catalog, apiKeys, values, router, phase, current, next, edit, unrestored>>
    BY <1>0, <1>2, <1>5, Moved DEF TakeKeys, Continues, Goes, TypeOK
  <2>2. Stored' /\ Buildable(router') /\ Deletes(a)' = Deletes(a)
    BY <1>0, <2>1 DEF Stored, Deletes
  <2>3. Storing(a)' /\ Deleting(a)'
    BY <1>2, <2>1, <2>2 DEF Storing, Deleting, CatalogSection, Serves, AgreeExcept, NoOrphansIn
  <2>4. Mutating(a)'
    BY <1>2, <2>1, <2>3 DEF Mutating, EditingKey, CredentialSection
  <2> QED
    BY <2>1, <2>2, <2>4, OneMoves
<1>6. CASE Publish(a)
  <2> DEFINE table == RoutingInputs(next[a], keys[a])
  <2>1. /\ pc[a] = "publish" /\ Buildable(table) /\ table = RoutingInputs(next[a], values)
    BY <1>2, <1>6, ValidBuilds DEF Publish, Answers, Continues, Goes
  <2>2. router' = table /\ UNCHANGED <<catalog, apiKeys, values, phase, unrestored>>
    BY <1>6, <2>1 DEF Publish
  <2>3. Stored' /\ Buildable(router')
    BY <1>0, <2>1, <2>2 DEF Stored
  <2> HIDE DEF table
  <2>4. CASE Deletes(a)
    <3>1. /\ pc'[a] = "replace" /\ \A b \in Admins \ {a} : pc'[b] = "idle"
          /\ UNCHANGED locals
      BY <1>0, <1>2, <1>6, <2>1, <2>4, Moved DEF Publish, Continues, table
    <3>2. Deletes(a)'
      BY <2>4, <3>1 DEF Deletes, locals
    <3>3. Deleting(a)'
      BY <1>2, <2>1, <2>2, <2>4, <3>1, <3>2 DEF Deleting, CatalogSection, Serves, AgreeExcept,
         NoOrphansIn, locals
    <3>4. Mutating(a)'
      BY <1>2, <2>2, <3>1, <3>2, <3>3 DEF Mutating, Storing, EditingKey, CredentialSection, locals
    <3> QED
      BY <2>3, <3>1, <3>4, OneMoves
  <2>5. CASE ~Deletes(a)
    <3>1. pc'[a] = "idle" /\ \A b \in Admins \ {a} : pc'[b] = "idle"
      BY <1>0, <1>2, <1>6, <2>1, <2>5, Moved DEF Publish, Answers, table
    <3>2. Settled'
      BY <1>2, <2>1, <2>2, <2>5 DEF Storing, Settled, Serves, AgreeExcept, NoOrphansIn
    <3> QED
      BY <2>3, <3>1, <3>2, IdleMutating, OneMoves
  <2> QED
    BY <2>4, <2>5
<1>7. CASE TakeKeys(a, "keys_back", "publish_back")
  <2>1. /\ pc[a] = "keys_back" /\ pc'[a] = "publish_back" /\ \A b \in Admins \ {a} : pc'[b] = "idle"
        /\ keys'[a] = values
        /\ UNCHANGED <<catalog, apiKeys, values, router, phase, current, next, edit, unrestored>>
    BY <1>0, <1>2, <1>7, Moved DEF TakeKeys, Continues, Goes, TypeOK
  <2>2. Stored' /\ Buildable(router') /\ Deletes(a)' = Deletes(a)
    BY <1>0, <2>1 DEF Stored, Deletes
  <2>3. Storing(a)' /\ Deleting(a)'
    BY <1>2, <2>1, <2>2 DEF Storing, Deleting, CatalogSection, Serves, AgreeExcept, NoOrphansIn
  <2>4. Mutating(a)'
    BY <1>2, <2>1, <2>3 DEF Mutating, EditingKey, CredentialSection
  <2> QED
    BY <2>1, <2>2, <2>4, OneMoves
<1>8. CASE PublishBack(a)
  <2>1. /\ pc[a] = "publish_back" /\ pc'[a] = "idle" /\ \A b \in Admins \ {a} : pc'[b] = "idle"
        /\ UNCHANGED <<catalog, apiKeys, values, phase, unrestored>>
    BY <1>0, <1>2, <1>8, Moved DEF PublishBack, Answers, Goes
  <2>2. router' = RoutingInputs(current[a], values) /\ Buildable(router')
    BY <1>2, <1>8, <2>1, ValidBuilds DEF PublishBack
  <2>3. Stored' /\ Settled'
    BY <1>0, <1>2, <2>1, <2>2 DEF Stored, Deleting, Settled, Serves, AgreeExcept, NoOrphansIn,
       CatalogSection
  <2> QED
    BY <2>1, <2>2, <2>3, IdleMutating, OneMoves
<1>9. CASE ForgetProvider(a)
  <2> DEFINE gone == DOMAIN current[a].providers \ DOMAIN next[a].providers
  <2>1. /\ pc[a] = "forget" /\ pc'[a] = "idle" /\ \A b \in Admins \ {a} : pc'[b] = "idle"
        /\ UNCHANGED <<catalog, apiKeys, router, phase>>
        /\ values' = [id \in ProviderIDs |-> IF id \in gone THEN NoKey ELSE values[id]]
        /\ unrestored' = unrestored \ gone
    BY <1>0, <1>2, <1>9, Moved DEF ForgetProvider, Answers, Goes
  <2>2. /\ catalog = next[a] /\ Serves(next[a]) /\ AgreeExcept(gone)
        /\ NoOrphansIn(DOMAIN current[a].providers)
    BY <1>2, <2>1 DEF Deleting
  <2>3. \A id \in Enabled(next[a]) : values'[id] = values[id]
    <3>1. Enabled(next[a]) \subseteq DOMAIN next[a].providers
      BY DEF Enabled
    <3>2. DOMAIN next[a].providers \subseteq ProviderIDs
      BY <1>0, MapFacts DEF TypeOK, Snapshot
    <3> QED
      BY <2>1, <3>1, <3>2
  <2>4. RoutingInputs(next[a], values') = RoutingInputs(next[a], values)
    BY <2>3, InputsKeys
  <2>5. Serves(catalog)'
    BY <2>1, <2>2, <2>4 DEF Serves
  <2>6. AgreeExcept({})' /\ NoOrphansIn(DOMAIN catalog.providers)'
    BY <1>0, <2>1, <2>2 DEF AgreeExcept, NoOrphansIn, Stored
  <2>7. Stored' /\ Buildable(router') /\ Settled'
    BY <1>0, <2>1, <2>5, <2>6 DEF Stored, Settled
  <2> QED
    BY <2>1, <2>7, IdleMutating, OneMoves
<1> QED
  BY <1>3, <1>4, <1>5, <1>6, <1>7, <1>8, <1>9

LEMMA CredentialStepsInv ==
  ASSUME Inv, TypeOK', NEW a \in Admins,
         ReloadCatalog(a) \/ PublishKeys(a) \/ Undo(a) \/ UndoFails(a)
  PROVE  Inv'
<1> USE DEF At
<1>0. TypeOK /\ Stored /\ Buildable(router)
  BY DEF Inv
<1>1. pc[a] \in CredentialSection
  BY DEF ReloadCatalog, PublishKeys, Undo, UndoFails, Continues, Answers, Goes, CredentialSection
<1>2. /\ phase = "serving" /\ \A b \in Admins \ {a} : pc[b] = "idle"
      /\ Mutating(a)
      /\ Serves(catalog) /\ AgreeExcept({edit[a].id}) /\ NoOrphansIn(DOMAIN catalog.providers)
      /\ edit[a].key # NoKey => edit[a].id \in DOMAIN catalog.providers
      /\ apiKeys[edit[a].id] = edit[a].key
      /\ pc[a] = "publish_keys" => current[a] = catalog
  <2>1. pc[a] # "idle"
    BY <1>1 DEF CredentialSection
  <2> QED
    BY <1>1, <2>1, OthersIdle DEF Mutating, EditingKey
<1>3. edit[a].id \in ProviderIDs /\ edit[a].key \in Keys \cup {NoKey}
  BY <1>0 DEF TypeOK
<1>4. CASE ReloadCatalog(a)
  <2>1. /\ pc'[a] \in {"publish_keys", "undo"} /\ \A b \in Admins \ {a} : pc'[b] = "idle"
        /\ pc'[a] = "publish_keys" => current'[a] = catalog
        /\ UNCHANGED <<catalog, apiKeys, values, router, phase, next, keys, edit, unrestored>>
    BY <1>0, <1>2, <1>4, Moved DEF ReloadCatalog, Continues, TypeOK
  <2>2. Stored' /\ Buildable(router')
    BY <1>0, <2>1 DEF Stored
  <2>3. EditingKey(a)'
    BY <1>2, <2>1 DEF EditingKey, Serves, AgreeExcept, NoOrphansIn
  <2>4. Mutating(a)'
    BY <1>2, <2>1, <2>3 DEF Mutating, Storing, Deleting, CatalogSection
  <2> QED
    BY <2>1, <2>2, <2>4, OneMoves
<1>5. CASE PublishKeys(a)
  <2> DEFINE changed == [values EXCEPT ![edit[a].id] = edit[a].key]
             table   == RoutingInputs(current[a], changed)
  <2>1. pc[a] = "publish_keys" /\ current[a] = catalog /\ Buildable(table)
    BY <1>0, <1>2, <1>5, ValidBuilds DEF PublishKeys, Answers, Continues, Goes, Stored
  <2>2. /\ router' = table /\ values' = changed /\ unrestored' = unrestored \ {edit[a].id}
        /\ Answers(a, "publish_keys", "ok")
        /\ UNCHANGED <<catalog, apiKeys, phase>>
    BY <1>5, <2>1 DEF PublishKeys
  <2>3. pc'[a] = "idle" /\ \A b \in Admins \ {a} : pc'[b] = "idle"
    BY <1>0, <1>2, <2>2, Moved DEF Answers
  <2>4. Stored' /\ Buildable(router') /\ Serves(catalog)'
    BY <1>0, <2>1, <2>2 DEF Stored, Serves
  <2>5. AgreeExcept({})' /\ NoOrphansIn(DOMAIN catalog.providers)'
    BY <1>0, <1>2, <1>3, <2>2 DEF AgreeExcept, NoOrphansIn, TypeOK
  <2>6. Settled'
    BY <2>4, <2>5 DEF Settled
  <2> QED
    BY <2>3, <2>4, <2>6, IdleMutating, OneMoves
<1>6. CASE Undo(a)
  <2>1. /\ pc'[a] = "idle" /\ \A b \in Admins \ {a} : pc'[b] = "idle"
        /\ values[edit[a].id] # NoKey => edit[a].id \in DOMAIN catalog.providers
        /\ apiKeys' = [apiKeys EXCEPT ![edit[a].id] = values[edit[a].id]]
        /\ unrestored' = unrestored \ {edit[a].id}
        /\ UNCHANGED <<catalog, values, router, phase>>
    BY <1>0, <1>2, <1>6, Moved DEF Undo, Answers
  <2>2. Stored' /\ Buildable(router') /\ Settled'
    BY <1>0, <1>2, <1>3, <2>1 DEF Stored, Settled, Serves, AgreeExcept, NoOrphansIn, TypeOK
  <2> QED
    BY <2>1, <2>2, IdleMutating, OneMoves
<1>7. CASE UndoFails(a)
  <2>1. /\ pc'[a] = "idle" /\ \A b \in Admins \ {a} : pc'[b] = "idle"
        /\ unrestored' = unrestored \cup {edit[a].id}
        /\ UNCHANGED <<catalog, apiKeys, values, router, phase>>
    BY <1>0, <1>2, <1>7, Moved DEF UndoFails, Answers
  <2>2. Stored' /\ Buildable(router') /\ Settled'
    BY <1>0, <1>2, <2>1 DEF Stored, Settled, Serves, AgreeExcept, NoOrphansIn
  <2> QED
    BY <2>1, <2>2, IdleMutating, OneMoves
<1> QED
  BY <1>4, <1>5, <1>6, <1>7

(* While the process is not serving there is no mutation.                  *)
LEMMA NotServingIdle ==
  ASSUME Inv, phase # "serving"
  PROVE  \A a \in Admins : pc[a] = "idle"
  BY DEF Inv, Mutating

LEMMA LoadCatalogInv ==
  ASSUME Inv, TypeOK', LoadCatalog
  PROVE  Inv'
<1>1. \A a \in Admins : pc'[a] = "idle"
  BY NotServingIdle DEF LoadCatalog
<1>2. Stored'
  <2>1. DOMAIN EmptySnapshot.providers = {}
    BY DEF EmptySnapshot, EmptyMap
  <2> QED
    BY <2>1, CatalogAssumption DEF Inv, Stored, LoadCatalog
<1>3. ~Quiet' /\ Buildable(router')
  BY DEF LoadCatalog, Quiet, Inv
<1> QED
  BY <1>1, <1>2, <1>3, IdleMutating DEF Inv, OneMutation

LEMMA ResolveKeysInv ==
  ASSUME Inv, TypeOK', ResolveKeys
  PROVE  Inv'
<1>1. \A a \in Admins : pc'[a] = "idle"
  BY NotServingIdle DEF ResolveKeys
<1>2. Stored'
  <2>1. ASSUME NEW id \in ProviderIDs \ DOMAIN catalog.providers PROVE apiKeys'[id] = NoKey
    BY <2>1 DEF Inv, Stored, ResolveKeys
  <2> QED
    BY <2>1 DEF Inv, Stored, ResolveKeys
<1>3. CASE phase' = "serving"
  <2>1. values' = apiKeys' /\ router' = RoutingInputs(catalog, values') /\ Buildable(router')
    BY <1>3 DEF ResolveKeys
  <2>2. Settled'
    BY <1>2, <2>1 DEF ResolveKeys, Settled, Serves, AgreeExcept, NoOrphansIn, Stored
  <2> QED
    BY <1>1, <1>2, <2>1, <2>2, IdleMutating DEF Inv, OneMutation
<1>4. CASE phase' # "serving"
  <2>1. Buildable(router') /\ ~Quiet'
    BY <1>4 DEF ResolveKeys, Inv, Quiet
  <2> QED
    BY <1>1, <1>2, <2>1, IdleMutating DEF Inv, OneMutation
<1> QED
  BY <1>3, <1>4

LEMMA CrashInv ==
  ASSUME Inv, TypeOK', Crash
  PROVE  Inv'
<1>1. \A a \in Admins : pc'[a] = "idle"
  BY DEF Crash
<1>2. Buildable(router') /\ ~Quiet'
  BY EmptyValid, ValidBuilds DEF Crash, Quiet
<1>3. Stored'
  BY DEF Inv, Stored, Crash
<1> QED
  BY <1>1, <1>2, <1>3, IdleMutating DEF Inv, OneMutation

LEMMA Invariance == Spec => []Inv
<1>1. Init => Inv
  <2> SUFFICES ASSUME Init PROVE Inv
    OBVIOUS
  <2>1. TypeOK
    <3>1. RoutingInputs(EmptySnapshot, NoKeys) \in Table
      BY EmptySnapshotType, NoKeysType, InputsType
    <3> QED
      BY <3>1, EmptySnapshotType, NoKeysType DEF Init, TypeOK, KeyMap
  <2>2. Stored
    BY EmptyValid DEF Init, Stored, NoKeys
  <2>3. Buildable(router) /\ ~Quiet
    BY EmptyValid, ValidBuilds DEF Init, Quiet
  <2>4. \A a \in Admins : pc[a] = "idle"
    BY DEF Init
  <2>5. \A a \in Admins : Mutating(a)
    BY <2>4 DEF Mutating, Storing, Deleting, EditingKey, At, CatalogSection, CredentialSection
  <2> QED
    BY <2>1, <2>2, <2>3, <2>4, <2>5 DEF Inv, OneMutation
<1>2. TypeOK' /\ Inv /\ [Next]_vars => Inv'
  <2> SUFFICES ASSUME TypeOK', Inv, [Next]_vars PROVE Inv'
    OBVIOUS
  <2>1. CASE UNCHANGED vars
    BY <2>1 DEF vars, locals, Inv, Stored, OneMutation, Quiet, Settled, Serves, AgreeExcept,
       NoOrphansIn, Mutating, Storing, Deleting, EditingKey, At, Deletes
  <2>2. ASSUME NEW a \in Admins, Proceeds(a) PROVE Inv'
    BY <2>2, CatalogStepsInv, CredentialStepsInv DEF Proceeds
  <2> QED
    BY <2>1, <2>2, MutatesInv, LoadCatalogInv, ResolveKeysInv, CrashInv DEF Next
<1> QED
  BY <1>1, <1>2, TypeCorrect, PTL DEF Spec

-----------------------------------------------------------------------------
(* What follows                                                            *)

(* Validate is as strict as buildSnapshot: no edit that reaches the store  *)
(* or the router, and no stored catalog a restart loads, is refused        *)
(* (RouterNeverRefuses).                                                   *)
THEOREM ValidCatalogsAreRoutable == Spec => []RouterNeverRefuses
<1>1. Inv => RouterNeverRefuses
  <2> SUFFICES ASSUME Inv PROVE RouterNeverRefuses
    OBVIOUS
  <2>1. Buildable(RoutingInputs(catalog, apiKeys))
    BY ValidBuilds DEF Inv, Stored
  <2>2. ASSUME NEW a \in Admins, pc[a] \in CatalogSection
        PROVE  Valid(current[a]) /\ Valid(next[a])
    BY <2>2 DEF Inv, Mutating, At
  <2>3. ASSUME NEW a \in Admins, pc[a] = "publish_keys" PROVE Valid(current[a])
    BY <2>3 DEF Inv, Stored, Mutating, EditingKey, At, CredentialSection
  <2> QED
    BY <2>1, <2>2, <2>3, ValidBuilds DEF RouterNeverRefuses, CatalogSection
<1> QED
  BY <1>1, Invariance, PTL

(* In every table requests can see, the middle of a mutation included, an  *)
(* attempt names a target of that table and a default speaks the protocol  *)
(* of the request (PlansServed).                                           *)
THEOREM PlansAreServed == Spec => []PlansServed
<1>1. Inv => PlansServed
  <2> SUFFICES ASSUME Inv PROVE PlansServed
    OBVIOUS
  <2>1. Buildable(router) /\ router \in Table
    BY DEF Inv, TypeOK
  <2>2. /\ DOMAIN router.routes \subseteq Models
        /\ DOMAIN router.defaults \subseteq Protocols
    BY <2>1, MapFacts DEF Table
  <2>3. ASSUME NEW protocol \in Protocols, NEW model \in Models
        PROVE  LET plan == Resolve(router, protocol, model) IN
               /\ \A i \in DOMAIN plan : plan[i] \in DOMAIN router.targets
               /\ model \notin DOMAIN router.routes =>
                    \A i \in DOMAIN plan : router.targets[plan[i]].protocol = protocol
    BY <2>1 DEF Buildable, Resolve
  <2>4. ASSUME Ready(router)
        PROVE  \E protocol \in Protocols, model \in Models : Resolve(router, protocol, model) # <<>>
    <3>1. CASE DOMAIN router.routes # {}
      <4>1. PICK model \in DOMAIN router.routes : router.routes[model] # <<>>
        BY <2>1, <3>1 DEF Buildable
      <4>2. PICK protocol \in Protocols : TRUE
        BY RoutingAssumption
      <4> QED
        BY <2>2, <4>1, <4>2 DEF Resolve
    <3>2. CASE DOMAIN router.defaults # {}
      <4>1. PICK protocol \in DOMAIN router.defaults : TRUE
        BY <3>2
      <4>2. PICK model \in Models : TRUE
        BY RoutingAssumption
      <4>3. Resolve(router, protocol, model) # <<>>
        BY <2>1 DEF Resolve, Buildable
      <4> QED
        BY <2>2, <4>1, <4>2, <4>3
    <3> QED
      BY <2>4, <3>1, <3>2 DEF Ready
  <2>5. ASSUME NEW protocol \in Protocols, NEW model \in Models,
               Resolve(router, protocol, model) # <<>>
        PROVE  Ready(router)
    <3>1. CASE model \in DOMAIN router.routes
      <4>1. router.routes[model] \in Seq(ProviderIDs) /\ router.routes[model] # <<>>
        BY <2>1, <3>1, MapFacts, RoutingAssumption DEF Table, Buildable
      <4>2. 1 \in DOMAIN router.routes[model]
        BY <4>1
      <4> QED
        BY <2>1, <3>1, <4>2 DEF Ready, Buildable
    <3>2. CASE model \notin DOMAIN router.routes
      BY <2>1, <2>5, <3>2 DEF Ready, Resolve, Buildable
    <3> QED
      BY <3>1, <3>2
  <2> QED
    BY <2>3, <2>4, <2>5 DEF PlansServed
<1> QED
  BY <1>1, Invariance, PTL

(* Requests are only sent to providers that are stored: a deleted one has  *)
(* left the router before its row goes (RouterTargetsStored).              *)
THEOREM TargetsAreStored == Spec => []RouterTargetsStored
<1>1. Inv => RouterTargetsStored
  <2> SUFFICES ASSUME Inv, phase = "serving"
               PROVE  DOMAIN router.targets \subseteq DOMAIN catalog.providers
    BY DEF RouterTargetsStored
  <2>1. CASE Quiet
    BY <2>1, InputsTargets DEF Inv, Settled, Serves
  <2>2. ASSUME NEW a \in Admins, pc[a] # "idle"
        PROVE  DOMAIN router.targets \subseteq DOMAIN catalog.providers
    <3>1. Mutating(a) /\ pc[a] \in {"forget"} \cup CatalogSection \cup CredentialSection
      BY <2>2 DEF Inv, TypeOK
    <3>2. CASE pc[a] \in CredentialSection
      BY <3>1, <3>2, InputsTargets DEF Mutating, EditingKey, At, Serves
    <3>3. CASE pc[a] = "forget"
      BY <3>1, <3>3, InputsTargets DEF Mutating, Deleting, At, Serves
    <3>4. CASE pc[a] \in CatalogSection /\ Deletes(a)
      <4>1. catalog = current[a] /\ (Serves(current[a]) \/ Serves(next[a]))
        BY <3>1, <3>4 DEF Mutating, Deleting, At
      <4> QED
        BY <3>4, <4>1, InputsTargets DEF Serves, Deletes
    <3>5. CASE pc[a] \in CatalogSection /\ ~Deletes(a)
      <4>1. /\ Serves(current[a])
            /\ catalog \in {current[a], next[a]}
            /\ DOMAIN current[a].providers \subseteq DOMAIN next[a].providers
        BY <3>1, <3>5 DEF Mutating, Storing, Deleting, At, CatalogSection
      <4> QED
        BY <4>1, InputsTargets DEF Serves
    <3> QED
      BY <3>1, <3>2, <3>3, <3>4, <3>5
  <2> QED
    BY <2>1, <2>2 DEF Quiet
<1> QED
  BY <1>1, Invariance, PTL

(* Between mutations, whatever failed in them, the router serves the       *)
(* stored catalog with the keys in memory (RouterFollowsCatalog).          *)
THEOREM RouterIsCurrent == Spec => []RouterFollowsCatalog
<1>1. Inv => RouterFollowsCatalog
  BY DEF Inv, Settled, Serves, RouterFollowsCatalog
<1> QED
  BY <1>1, Invariance, PTL

(* Between mutations memory and store agree on every key whose rollback    *)
(* did not fail (KeysFollowStore).                                         *)
THEOREM KeysAreStored == Spec => []KeysFollowStore
<1>1. Inv => KeysFollowStore
  BY DEF Inv, Settled, AgreeExcept, KeysFollowStore
<1> QED
  BY <1>1, Invariance, PTL

(* No key outlives its provider (NoOrphanKeys).                            *)
THEOREM KeysHaveProviders == Spec => []NoOrphanKeys
<1>1. Inv => NoOrphanKeys
  BY DEF Inv, Settled, Stored, NoOrphansIn, NoOrphanKeys
<1> QED
  BY <1>1, Invariance, PTL

(* A catalog mutation answered with an error left the store and the router *)
(* as it found them (FailedEditChangesNothing).                            *)
THEOREM FailuresAreUndone == Spec => FailedEditChangesNothing
<1>1. ASSUME Inv, [Next]_vars PROVE [NothingKept]_vars
  <2> SUFFICES ASSUME NEW a \in Admins, pc[a] \in CatalogSection, pc'[a] = "idle",
                      reply' = "error"
               PROVE  catalog' = current[a] /\ router' = RoutingInputs(current[a], values)
    BY <1>1 DEF NothingKept
  <2>0. pc[a] # "idle"
    BY DEF CatalogSection
  <2>1. /\ phase = "serving" /\ Mutating(a) /\ TypeOK
        /\ \A b \in Admins \ {a} : pc[b] = "idle"
        /\ Valid(current[a]) /\ Valid(next[a])
    BY <1>1, <2>0, OthersIdle DEF Mutating, At, Inv
  <2>2. Proceeds(a)
    <3>1. ASSUME NEW b \in Admins, Mutates(b) PROVE FALSE
      BY <2>0, <3>1 DEF Mutates, CreateProvider, UpdateProvider, SetProviderEnabled,
         DeleteProvider, SetDefault, ClearDefault, SetRoute, DeleteRoute, EditKey, Edits, Enters
    <3>2. ASSUME NEW b \in Admins \ {a}, Proceeds(b) PROVE FALSE
      BY <2>1, <3>2 DEF Proceeds, Replace, ReplaceFails, TakeKeys, Publish, PublishBack,
         ForgetProvider, ReloadCatalog, PublishKeys, Undo, UndoFails, Continues, Answers, Goes
    <3>3. ~UNCHANGED vars
      BY <2>0 DEF vars
    <3>4. ~LoadCatalog /\ ~ResolveKeys /\ ~Crash
      BY <2>1 DEF LoadCatalog, ResolveKeys, Crash
    <3> QED
      BY <1>1, <3>1, <3>2, <3>3, <3>4 DEF Next
  <2>3. CASE ReplaceFails(a)
    <3>1. ~Deletes(a) /\ pc[a] = "replace" /\ UNCHANGED <<catalog, router>>
      BY <2>1, <2>3 DEF ReplaceFails, Continues, Answers, Goes, TypeOK
    <3> QED
      BY <2>1, <3>1 DEF Mutating, Storing, At, Serves
  <2>4. CASE PublishBack(a)
    <3>1. /\ pc[a] = "publish_back" /\ keys[a] = values /\ catalog = current[a]
          /\ UNCHANGED catalog
      BY <2>1, <2>4 DEF PublishBack, Answers, Goes, Mutating, Deleting, At, CatalogSection
    <3> QED
      BY <2>1, <2>4, <3>1, ValidBuilds DEF PublishBack
  <2>5. CASE Publish(a)
    BY <2>1, <2>5, ValidBuilds DEF Publish, Answers, Continues, Goes
  <2>6. CASE \/ Replace(a) \/ TakeKeys(a, "keys", "publish")
             \/ TakeKeys(a, "keys_back", "publish_back")
    BY <2>6 DEF Replace, TakeKeys, Continues
  <2>7. CASE \/ ForgetProvider(a) \/ ReloadCatalog(a) \/ PublishKeys(a) \/ Undo(a) \/ UndoFails(a)
    BY <2>7 DEF ForgetProvider, ReloadCatalog, PublishKeys, Undo, UndoFails, Continues, Answers,
       Goes, CatalogSection
  <2> QED
    BY <2>2, <2>3, <2>4, <2>5, <2>6, <2>7 DEF Proceeds
<1> QED
  BY <1>1, Invariance, PTL DEF Spec, FailedEditChangesNothing
=============================================================================
