# A TLA+ model of kokekokkor

kokekokkor is a gateway in front of language-model providers. It speaks the
OpenAI, Anthropic and Gemini protocols to clients and to upstreams, forwards a
request natively when client and provider speak the same protocol and
translates it when they do not. Around that it keeps state: a provider catalog
that administrators edit while requests are served, API keys and OAuth tokens,
stored responses and conversations, background jobs and realtime sessions.

This directory models the parts of that state that several goroutines share or
that survive a failure, checks them with TLC and proves the main results for
every instance with TLAPS. All paths below are relative to `src/internal/`.

## Inventory

| Component | State | Operations | Correct when |
|---|---|---|---|
| background responses (`translator/background_responses.go`, `response_resource.go`) | map of jobs under `backgroundMu`, one context and goroutine per job | start, run, poll, cancel, delete | one party decides a response's outcome, a result is published once and never after a cancel, jobs end |
| response store (`translator/response_state.go`, `persistence/sqlite/response_state.go`) | records with status, continuable flag and expiry | load, save, prune, delete | an expired record is never served, a write replaces the whole record |
| conversations (`translator/conversation_manager.go`, `response_state.go`, `response_state_stream.go`) | conversations, each a list of items | create, read, update metadata, delete, add a turn | turns are not lost, what a client was told exists can be continued |
| catalog service (`application/catalog`, `domain/catalog`) | providers, defaults, routes | seven mutations under one mutex, load, validate | store and router agree between mutations, failed edits change nothing |
| routing table (`application/routing`) | an atomic pointer to targets, defaults, routes | replace, resolve, readiness | every plan is made of targets of one table |
| credentials service (`application/credentials`) | key map | set, delete, forget, snapshot | memory, store and router agree |
| admin sessions (`transport/adminhttp/session.go`) | at most 64 sessions, `mutationMu` | login, check, evict, serialise mutations | only live sessions mutate, one at a time |
| request attempts (`protocol/*/handler.go`, `cross_protocol.go`) | per request | try each resolved target | after a byte is committed no other attempt runs |
| upstream proxies (`provider/*/proxy.go`, `transport/upstreamhttp`) | none | forward, classify | retryable answers are distinguished from final ones |
| OAuth (`application/oauth`, `provider/oauth`) | at most 1024 pending logins, tokens, one mutex for refreshes | begin, complete, refresh, disconnect | a login state is used once, a replaced refresh token is never presented again, tokens come from a login of their provider |
| realtime bridge (`transport/realtime`, `translator/realtime_session.go`) | one session, two goroutines, the codecs' state under a mutex | set up, copy both ways, report, close | each side reads a dialogue of its own protocol, both directions end together |
| websocket transport (`transport/websocket`) | two connections, a write mutex and a write deadline each | read a message, write, close | frames are not interleaved, a close is not held up by the peer |
| stream codecs (`protocol/*/*stream*.go`, `translator/*_stream.go`) | per-stream automata, the buffer of held events, the accumulated turn | decode, check, accumulate, hold, encode | the client reads in its format what the upstream sent; a truncated answer does not look complete; the stored turn is the one shown |
| message codecs, compatibility rules | none | convert | fields survive |
| bootstrap, configuration, HTTP server, secretbox, SQLite schema | wiring | start, stop | a restart serves what was stored |

How they interact: handlers call the routing table through an atomic pointer
and never lock; administrators' mutations run under `mutationMu` of the session
middleware and update SQLite, the credentials service and the routing table one
after the other; a translated request loads a conversation or a response,
generates, and saves; a background request does so in a goroutine of its own
that pollers, cancellers and deleters race with.

What is hard here: (1) several locks, none of which covers a record or a
configuration as a whole, so that loads and saves of different goroutines
interleave; (2) every SQLite call may fail, in particular because the request's
context ended, in the middle of an update of several places; (3) the process
may die between any two of them; (4) retention and deadlines expire at any
point. `PROJECT.json` lists these as hazards, each at its line.

## Modules

| Module | Models |
|---|---|
| `BackgroundResponses` | the job map, the record store, workers, cancel/delete/poll handlers, expiry, crashes |
| `ResponseOutcome` | the abstract promise about a response's outcome that `BackgroundResponses` implements |
| `MCBackgroundResponses` | instances for TLC |
| `BackgroundResponsesProofs` | its theorems |
| `Routing` | catalogs, tables, `Validate`, `buildSnapshot`, `Resolve`, `Ready` as operators |
| `Catalog` | the edits of a running gateway: SQLite, credentials service, router, start and crash |
| `MCCatalog` | instances for TLC |
| `CatalogProofs` | its theorems |
| `Transcripts` | conversations and stored responses: the turns that continue them, metadata updates, deletions, crashes |
| `MCTranscripts` | instances for TLC |
| `TranscriptsProofs` | its theorems |
| `Translators` | the sixteen translator functions as fallible steps around one upstream call |
| `Attempts` | one request: the loop over its targets, native and translated attempts, the worker of a translated stream, the client |
| `OneAnswer` | the abstract promise about a request that `Attempts` implements |
| `MCAttempts` | instances for TLC |
| `AttemptsProofs` | its theorems |
| `StreamEvents` | the canonical events of a translated stream, the upstream that sends and the client that reads |
| `StreamDecoders` | the decoders of the three upstream formats |
| `StreamEncoders` | the encoders of the four client formats |
| `ResponseStream` | the translation between them: compatibility rules, the accumulated turn, held events, how a stream ends |
| `MCResponseStream` | instances for TLC |
| `ResponseStreamProofs` | their theorems: the shape of the state, how streams end, what each encoder shows |
| `StreamAnswerProofs` | the theorems about the answer, from what its upstream sent to what the client reads and what is stored |
| `Expiry` | the clock and the registers that drop what expired or is oldest |
| `AdminSessions` | admin sessions and the path of a request through the session middleware |
| `OAuthTokens` | pending logins, callbacks, token sets, refreshes |
| `Accounts` | both composed: only administrators begin logins and disconnect |
| `MCAccounts` | instances for TLC |
| `AccountsProofs` | its theorems |
| `WebSocket` | two connections: reading with fragments and control frames, writing in steps, the deadline, the peers |
| `RealtimeSession` | the translation of a realtime session: setup, tool calls, decoder and encoder |
| `RealtimeBridge` | a session on two connections: targets, the two copiers, the error event, the shutdown |
| `MCRealtime` | instances for TLC |
| `RealtimeProofs` | its theorems |

### BackgroundResponses

`store` is the response table (status, continuable, which of the two retention
times its `ExpiresAt` is); `background` is the keys of `Runtime.background`;
`ctx` the state of each job's context; `wpc`/`wrec` a worker and the record it
has loaded; `hpc`, `hop`, `hid`, `hrec` the same for a handler goroutine. A
step is one section under `backgroundMu` or one store call, the points between
which Go may run anything else. `setBackgroundStatus` is therefore three steps
(`StatusLock`, `StatusLoad`, `StatusSave`), used three times by the worker:
marking `in_progress`, reporting `failed`, and rescuing a result whose save
failed. `Persistent` selects SQLite (whose upsert prunes every expired row, and
whose calls may fail when `StoreFaults`) or the in-memory store. Time is
abstract: `passed` says which `ExpiresAt` instants of a record are over;
`Deadline` may only fire after the record's own, as in the code, where
`ExpiresAt` is computed before `context.WithTimeout`.

`owner`, `deleted`, `known` and `reply` are history variables. `owner` is the
abstract state of the refinement: `ResponseOutcome` lets the right to decide an
outcome pass once, from the open job to its worker or to a caller, and only
lets that worker publish a result.

What is left out: the payload (only its status matters here), the conversation
a background response may also be added to (see `Transcripts`), and which
handler answers a poll (a poll only reads).

### Routing and Catalog

`Routing` holds the pure part. A catalog is a record of three maps, a table
likewise; `Valid` is `Snapshot.Validate`, `Buildable` is what `buildSnapshot`
accepts. Ids, models and URLs are members of small sets; the checks for blank
names are covered by leaving such names out of those sets, the URL check by
`ValidBaseURLs`. A route target's upstream model is left out (no check reads it).

`Catalog` has one variable per place: `catalog` and `apiKeys` (SQLite), `values`
(the credentials service), `router` (the table). The mutexes are not variables:
an administrator whose counter is inside a service's critical section holds its
mutex. Each of load-and-validate, replace, snapshot of the keys, publish,
rollback and forget is a step. `persistThenApply` and `applyThenPersist` are the
two orders of those steps; deletion is the only user of the second.
`DeleteProvider`'s own load and guard are folded into the first step: they run
before any effect and under the same `mutationMu`. `LoadCatalog`, `ResolveKeys`
are the start of the process (which stores the environment's keys one by one
and may die in between), `Crash` its end.

`unrestored` is a history variable: the providers whose key rollback itself
failed, the exception the properties have to make (see the findings).

### Transcripts

`conversations` and `responses` are the two tables; a transcript is the sequence
of the turns in it, a turn standing for the client's messages and the answer to
them. `plan` is what `resolveResponsesState` loaded for a turn, `erec` what
`updateConversation` loaded for an editor. The steps of a turn are the calls
between which other goroutines run: load (`Resolve...`), the provider's answer
(`Generate`), the save of the conversation, the save of the response, and the
moment the client has the answer (the body, the completed event, or a poll for
a background turn). Failures are steps too: a refused load, an attempt that
falls back to the next target and loads again, an attempt that is final, a save
that fails after the other one succeeded. An answer is portable or has provider
state, which is what makes a record continuable. Buffered answers without an id
share the id `resp_gateway` (`Anonymous`).

`shown`, `removed` and `overlapped` are history variables; `overlapped` collects
the conversations one request touched while another was between its load and
its save, the exception `SerialTurnsKept` makes and `TurnsKept` does not.

What is left out: instructions (never stored), the items a conversation may be
created with, the payload of a response, the jobs of background turns
(`BackgroundResponses`), and clocks: a retention may end at any time
(`RemoveResponse`).

### Translators and Attempts

A translator function is a straight line: steps before the call, the call
(`do` reads the whole reply, `stream` only its headers, `queue` starts a
background job instead), steps after it. What a step converts does not matter
here; what matters is that it may fail and which marks its error carries,
because `handleCrossProtocolError` decides by the marks whether the request is
over or the next target is tried. `Translators` has one definition per function
of `runtime*.go` and the dispatch of the handlers.

`Attempts` is one request against one plan. `pc` and `i` are the handler's place
in the loop, `k` the step of the translator, `reply` the class of the upstream's
status (`ok`, `retryable`, `error`), `open` the attempts whose upstream reply is
not closed, `worker` the goroutine of `translateStream`, `out` what was written
to the client and by which attempt, `kept` the attempts that stored a turn or
started a job, `client` whether the client is there. `generated` (who succeeded
upstream) is a history variable. The three handlers are one module: their loops
are the same, `Current` and `Native` are where they differ. A handler without a
router (`serveLegacy`) behaves as with one target of its own protocol.
The proxies' `ServeHTTPTo` is the part from `Unreachable` to `RelayBreaks`,
`upstreamhttp.Client` from `CallRefused` to `TooLarge`, the pipe and
`primeStream` from `WorkerKeeps` to `PrimeFails`, the writing functions from
`RetryableReply` to `CopyFails`. `httputil.ReverseProxy` and `net/http` are
modelled as this code uses them: `ReverseProxy` calls `ModifyResponse`, then
writes, and panics with `ErrAbortHandler` when a body breaks off; a failing
upstream call returns an error; a cancelled request context ends calls and reads.

`OneAnswer` sees only how many targets were passed, who speaks and who keeps
something. Its four steps say that targets are tried in order, at most one
author speaks, and no target is passed once it has spoken or kept anything.

What is left out: headers and URLs, 1xx and upgrade responses, a gateway wired
without a translator or with a provider of an unknown protocol (bootstrap always
sets both), the resolution of the plan (`Routing`) and the requests that never
reach the loop (stored responses and conversations, `BackgroundResponses` and
`Transcripts`; realtime).

### StreamEvents, StreamDecoders, StreamEncoders and ResponseStream

One translated stream. `pipe` fixes the two formats, whether refusals are held
back (`buffer_refusals`), whether a turn is stored, and the manners of the
upstream: a `lawful` one keeps to its documented format until it breaks off, any
other one sends whatever the decoder can be made to see. `stage` is the place of
`translateStream`: reading one upstream event (`Read`, all the canonical events
of which go to `queue`), then for each of them checking and accumulating it
(`Accept`), storing the turn before a terminal event (`Persist`), and encoding
it (`Encode`), and at the end releasing what was held (`Release`). The variables
`fromAnthropic`, `fromOpenAI`, `fromGemini` are the locals of the decoders,
`toResponses`, `toChat`, `toGemini` the fields of the encoders (that of
Anthropic's has none that matter), `kept` is `responseStateStreamAccumulator`,
`buffer` is `responsesEventBuffer`, `stored` the turn in the store.

`up` records what the upstream sent and `view` what a reader of the client's
format makes of the frames: how often the stream began, its items with their
pieces, its ends, and the frames it cannot place (`faults`). `up.sent` is kept
only of a lawful upstream, whose format says what an event means. Pieces of
text, reasoning and arguments are numbers; the empty string is a value of its
own because the codecs treat it differently. The client reads and leaves at any
step (`ClientLeaves`).

What is left out: ids, timestamps, obfuscation and sequence numbers; SSE framing
(a malformed frame is `Garbage`); usage numbers beyond whether a format has a
field for them; the byte limit of the buffer (the count stands for both).

### Expiry, AdminSessions, OAuthTokens and Accounts

A session, a login and a refresh token are the numbers they were made under, so
whatever refers to one after its end (a cookie, a callback) still names it.
`Expiry!Room` is what both registers do before an insertion. `admin` is where
each administrator's request is: a login reads the clock before it takes the
lock (`SignIn`, `OpenSession`), the start of an OAuth login needs the session but
no mutex (`Start`), a mutation waits for `mutationMu` after its check (`Submit`,
`Enter`). `callback` and `caller` are the browsers that come back and the
requests that need a token, in steps around every call of a provider and of the
credential store; `lock` is the resolver's mutex, which one call holds over the
network. A `TokenSet` carries the login it descends from. `exchanged`, `spent`,
`used`, `off` and `closed` are history variables. A restart empties everything
but the stored token sets.

What is left out: PKCE, URLs, scopes, the access token itself, wrong passwords
and CSRF tokens (which change nothing). `SignOut` is one step, although the code
checks and deletes in two sections: a session cannot come back in between.

### WebSocket, RealtimeSession and RealtimeBridge

`pc` is the place of the three goroutines: `runSession` (with the loop of
`serveRealtimeWebSocket` before it) and its two copiers. A write is three steps,
`AppliesDeadline`, `Locks`, and the frame (`Flush`, `FlushFails`); `step` is how
far a goroutine is in it. `conn` is what both sides know of a connection; its
`deadline` belongs to the connection, not to the write, so a `WriteText` without
a limit takes away (`cleared`) the second another goroutine has just set. The
readers handle pings, fragments and the close frame between messages.

`session`, `decoder`, `encoder` are the state of `RealtimeSessionBridge` and its
codecs. `ServerMessage` translates a message in one critical section: its events
go to `events` and are encoded one by one while the section lasts (so
`events # <<>>` means that the mutex is held), their frames go to `outgoing` and
are then written one by one. A client message waits in `pending` while the setup
is not confirmed and is then translated again. `heard` and `shown` are what the
two peers have sent and read and the frames they cannot place.

A client message of any kind may carry the output of a call: `DecodeRealtimeEvent`
decodes an `item` whatever the event's type is, and `ClientMessage` looks the call
up and forgets it whenever there is one, while only a `conversation.item.create`
sends the output on. `Unknown` and `Translated` therefore depend on the call alone,
`Answers` on the kind, and `heard` tells the calls that were named from those that
were answered. What `CallsAnswerable` can promise is that the first message with
a call the client was shown is not refused as unknown; that this message is also
the call's result is `ResultsDelivered`, which the code breaks (see the findings).

What is left out: contents, and of the two or three frames of one event that
they are several; event ids; the native forwarding of a realtime session between
equal protocols.

## Runs

| Run | Bounds | Shows |
|---|---|---|
| `background` | one response, two handlers, SQLite with faults, restarts | all safety properties, refinement of `ResponseOutcome`, that every job drains, and that nobody polls a pending response for ever, also after a restart |
| `background_deleted` | one response, one handler, in-memory store | violation: a deleted response comes back |
| `background_timeout` | one response, no handler | violation: a timed-out job leaves no `failed` record |
| `catalog` | two providers, two protocols, one model, one key, two administrators, faults, restarts | the four places agree; failed edits change nothing; plans are always served |
| `catalog_rollback` | the same with one administrator and two keys | violation: a refused key stays in the store |
| `transcripts` | two turns, two metadata editors, one conversation, SQLite with faults, restarts | nothing is spliced or dropped silently; answered turns can be continued; turns are lost only to overlapping requests |
| `transcripts_lost` | two turns, one conversation, in-memory store | violation: an answered turn is gone from its conversation |
| `attempts` | every translator function, all plans of one or two targets and some of three, bodies of up to two pieces | one target speaks, the verdict is true, nothing of a passed target stays; handlers and workers end; refinement of `OneAnswer` |
| `attempts_replayed` | the same | violation: a request that was generated is generated again |
| `streams` | every pair of formats and every option, two blocks, three pieces, two tool calls, three unlawful events | what the client reads is well-formed and what the upstream sent; no truncated answer looks complete; the stored turn is the one shown; late refusals are never taken for answers |
| `accounts` | three sets of bounds: two administrators with three sessions; three logins; two logins with three refresh tokens; two providers, callbacks and callers; capacities of two | no replaced refresh token is presented; tokens come from logins of their provider, each exchanged once; full registers drop the oldest entry |
| `realtime` | six pairs of peers: two quiet ones with up to three messages each way; a rough client, a rough Gemini, and both rough (pings, fragments, stalls, losses) with two, one and no message; two targets | both sides read a dialogue of their own protocol; a shown call is known to the first message that carries it; sessions close |

Why these bounds are enough to be interesting. Responses do not interact except
through SQLite's prune, so one response with two handlers contains every race on
a job: worker against handler and handler against handler. In `catalog`, two
providers are the least that has a default to move, a route to another
provider and a deletion that leaves something; two protocols let a default and
its provider disagree; two administrators make the mutexes matter. One key
beside "none" is enough to tell a stale snapshot from a current one; the
rollback run needs two. In `transcripts`, two turns and two editors of one
conversation contain every pair of overlapping requests, and a second turn that
continues the first one's response or conversation. In
`attempts`, two targets are the least with a fallback, and three with one native
target let a first failure, a second one and a last target be of different
kinds; with two pieces a body can break off before, between and after them. The
requests cover every function of `Translators`, stored and unstored turns, held
and incremental streams, a background turn, an operation that has no
translation and a malformed stream flag. The proofs lift all of these to any size.

In `streams`, two blocks are the least that can be opened, filled and closed out
of order; three pieces let one be lost, repeated or swapped; the buffer takes
eight events, fewer than the longest stream. In `accounts`, capacities of two
make an insertion into a full register choose, and three refresh tokens are a
login and two refreshes, with another login meanwhile. In `realtime`, a client
with three messages can set up, be shown a call and answer it, or be held at the
setup and go on, or name a call in a message that is no result; rough ends are
combined with fewer messages, and both at once with none, since what is at stake
there is who ends whom.

Deadlock is checked in every run. The symmetry sets are sound: administrators,
turns and editors are only compared for equality, and no liveness is checked in
the runs that use them.

Fairness (`BackgroundResponses!FairSpec`): weak fairness of each worker except
for the upstream call itself; the call returns once its context is done
(`WorkFails` when `ctx` is not open), because every proxy builds its request
with that context; clocks advance; `Register` and handlers proceed, because
goroutines are scheduled. Clients and the upstream owe nothing. `JobsDrain` then
says that the deadline alone is enough to end every job, and that the
record's retention ends what no worker decides: a row that a crash or a failed
save left queued is found until then and never after.

`Attempts!Fairness`: the gateway's own steps are taken (`Local`, and the deferred
close of the worker). What waits for an upstream or for the client's body owes
nothing until the request's context is done, that is until the client has left
or the handler has returned: then the wait ends, by an error if by nothing else,
because every call and read is made with that context
(`upstreamhttp/client.go:62`, `Clone(r.Context())` in the proxies). No timeout
is assumed, since the clients set none on a response. `HandlerReturns` and
`NothingLeaks` are stated under this.

`RealtimeBridge!Fairness` is weak fairness of what the gateway does on its own:
some goroutine that can take a step does, and deadlines expire. It is stated of
all goroutines together, because what they do between two frames of the peers is
bounded, so none can keep another from running for ever. The peers owe nothing:
they need not send, and one that stopped reading may never read again; a read
only returns on its own when the connection is closed or lost. `SessionCloses`
then says that once a copier has ended the session closes, with the one
exception found: a goroutine is writing to a peer that does not read, on a
connection whose deadline another write took away.

## Proofs

`BackgroundResponsesProofs` proves type correctness, `OneDecider`,
`CancelledNeverFinal`, `ContinuableOnlyIfFinal`, `NoLeakedJob`, `FinalIsStable`
and that `Spec` implements `ResponseOutcome!Spec`, for any set of ids and
handlers, both stores, with and without faults. The properties are not
inductive: that nobody decides while a job is in the map needs to know, of every
worker counter, who the owner is and whether the job is still registered, and
that a record a goroutine has loaded and not yet written is not a result. The
inductive invariant states exactly that, per worker and per handler; one lemma
per action shows it is kept, and frame lemmas carry the untouched responses.

`CatalogProofs` proves type correctness and the seven properties of the
`catalog` run, for any providers, protocols, models, keys, routes and
administrators. The inductive invariant says (a) at most one administrator is
inside a mutation, which is `mutationMu`; (b) what its locals are worth at each
of its counters: `current` is the stored catalog before `Replace` and the
catalog to go back to after, `next` is valid, `keys` equals `values`, because
nobody else can change it meanwhile; (c) which of the four places are ahead of
the others at each counter; (d) no key without a provider. The lemma that
carries `RouterNeverRefuses` is that `Valid(s)` implies
`Buildable(RoutingInputs(s, k))` for every `k`.

`TranscriptsProofs` proves type correctness and the five properties of the
`transcripts` run. A record never changes on its way: it is loaded, kept by a
request, and written back with at most one turn more. Once a turn has been
answered its prompt and answer are fixed (`AnswersStay`), so a transcript that
is genuine and portable stays so whoever holds it (`GoodStays`), and what a turn
writes is genuine because of what it loaded (`WrittenIsGood`); the invariant
`RecordsInv` says it of every place a record can be. `StoredInv` ties a turn's
own response to the turn's progress. `Serial` says of a conversation that was
never overlapped that whoever works on it is alone, holds it as it is, and that
turns past their save are in it; steps that do not touch the conversation keep
it by one lemma (`QuietStep`).

`AttemptsProofs` proves type correctness, `OneVoice`, `VerdictJustified`,
`OneOpen` and that `Spec` implements `OneAnswer!Spec`, for any requests, plans
and lengths of a body. The inductive invariant (`Control`) says what each place
of the handler is worth: before an attempt has a reply it keeps, nothing was
said, kept or left open; a reply in hand that is not `ok` has kept nothing; who
relays or copies is the author of the first word. The lemmas follow the ways a
step can end (`Passed`, `Refused`, `Started`, `Continued`, `Silent`), so an
action only has to show which of them it is. That a translator's steps before
the call never carry the mark of a reply, and those after it always do
(`StepMarks`, `CurrentShaped`), is what makes falling back safe. For the
refinement every step is first shown to be one of five visible kinds
(`StepVisible`), and those to be steps of `OneAnswer` (`VisibleSteps`).

`ResponseStreamProofs` and `StreamAnswerProofs` prove every property of the
`streams` run, for every pair of formats and for any number of blocks, pieces and
tool calls, any limit of the buffer and, where the property says so, any upstream
at all. The first proves type correctness, that nothing is written while refusals
are held back (`NothingShownEarly`), and `NoSilentEnd` (`EndsAreTold`), whose
invariant `EndInv` says what is on its way between the decoder and the client: a
decoder that has stopped has put a terminal event in the queue, which is in the
queue, in the buffer or has been written; and once something was shown the stream
cannot end before it.

The other four (`StreamsAreWellFormed`, `StreamsAreFaithful`,
`TurnsAreStoredAsShown`, `RefusalsAreExact`) compare three accounts of one answer,
which three pieces of code build apart from each other: what the upstream sent,
what the client was shown, and the turn that is kept. None of them mentions the
others, and they differ while events are on their way. The proof goes
through a fourth account that exists in no code: a reader of the canonical events,
whose place (`Spot`) is how far it is, which blocks are open and of which kind,
and the text, reasoning and calls read so far. `Step` is where an event takes it,
and a sequence of events leads from one place to another (`Leads`) when each event
fits where the one before it leads. The invariant (`StreamInv`, `Fitting`) is that
there are three places for which

* the client's view is what the reader at the first has read (`Shows`, one clause
  per encoder), the kept turn what it has read at the second (`Keeps`), and what
  the upstream sent what it has read at the third, where the decoder is (`Said`);
* what is held in the buffer or in hand leads from the first to the second, and
  what is still in the queue from the second to the third (`Unread`, `Unseen`);
  each place is therefore a beginning of the next (`Below`), and an answer that
  was read to its end is the whole of it.

Each action then has one lemma: a decoder's event moves only the third place,
`Observe` the second, an encoder the first; what fails to be read, accepted,
persisted or encoded moves none. For an upstream that keeps no rules the places do
not exist, and what the Responses encoder promises all the same is the separate
invariant `Framed`. What `JoinedUpTo` and `DataUpTo` compute is proved by induction
on the number of blocks (`JoinedComputed`, `DataComputed`). The library's induction
takes an operator, so `Induction` states it of a set: one that has 0 and, with a
number, the next, has them all.

`AccountsProofs` proves the four properties of the `accounts` run for any
administrators, providers, requests, lifetimes and capacities. `NoSpentRefresh`
needs that the caller inside the mutex holds the token set that is stored, or
one that a login or a disconnect has replaced since, and that no two places hold
the same refresh token (`HeldOnce`); `TokensFromLogins` that a login is pending,
in one callback, or over (`Once`); `YoungestKept` a counting argument over
everything that was ever inserted (`Ages`).

`RealtimeProofs` proves type correctness and `InOrder` of a realtime session for
any peers, messages and tool calls. The inductive invariant has five parts.
`Control` ties the places of the three goroutines to the connections, the write
steps and `errCh`; nearly every action only moves one goroutine, so one lemma
about such a move (`Moves`) carries most of them. `OneAtATime` says which copier
holds what: the encoder works on one message of Gemini at a time, and nothing of
an earlier one is left when it reads the next. `Dialogue` counts the client's
messages and keeps the calls apart: known, carried by the message being written,
named by one that was, or in Gemini's message in hand; those answered are among
the named. `CallsKnown` says of the calls the client has been or
will be shown that they are one of the first three. `ShownWell` relates the
encoder to the reader across what is on its way: the payloads lead from where
the reader is to where the encoder is, each one fitting where the one before it
leads (`Leads`), and what Gemini has said beyond that is in the event queue or in
hand (`Unsaid`). `InOrder` needs all of them: a payload may be written long after
the encoder moved on, and a call answered while the frame that shows it waits.

Assumptions: only those the modules name (`StoreAssumption`,
`RoutingAssumption`, `CatalogAssumption`, `TranscriptsAssumption`,
`RequestsAssumption`, `PlansAssumption`, `MaxPiecesAssumption`, `StreamBounds`,
`CallBound`, `BufferBound`, `SomePipes`, `ProvidersAssumption`, `SessionsAssumption`, `TokensAssumption`,
`BoundsAssumption`, `CallIds`, `SomePeers`, `RealtimeBounds`), which TLC
evaluates on each run.

Every invariant and every action property of the passing runs has a theorem.
Only model-checked: `JobsDrain`, `HandlerReturns`, `NothingLeaks` and
`SessionCloses` (liveness under fairness is out of the prover's reach), and the
violations.

## Findings

* A worker that is between the lock and the save of `setBackgroundStatus`
  recreates a response that was cancelled and deleted meanwhile
  (`background_deleted`), which `response_resource.go` says cannot happen.
* A job's deadline equals its record's retention, so a timed-out job's failure
  is not stored (`background_timeout`), although `COMPATIBILITY.md` says later
  failures are persisted.
* When the context of a key edit ends after the key was stored, the rollback
  uses the same context and fails too (`catalog_rollback`): the new key stays
  in SQLite, the old one in memory, until a restart switches.
* Two turns of one conversation that overlap: the conversation is saved as it
  was loaded before the provider was called, so the turn saved first is lost
  although its client was answered (`transcripts_lost`). The same happens
  between a turn and a metadata update, and a conversation deleted meanwhile
  comes back.
* A translated upstream may succeed with a reply larger than the translation
  limit. The error carries no mark, so the handler falls back and the next
  target generates again (`attempts_replayed`), which `compatibility.go:29-31`
  says must not happen.
* A Realtime event that is no `conversation.item.create` but carries a
  `function_call_output` item (a `response.create`, an audio append or commit) is
  sent to Gemini without the output, and the call is forgotten
  (`realtime_session.go:78`): the output is discarded without an error, and the
  client's result for the call, when it comes, ends the session as unknown.
  `README.md:36` says that what is not supported fails explicitly rather than
  being silently discarded, `COMPATIBILITY.md:44` that function-call results are
  preserved. `ResultsDelivered` states it. None of the runs listed checks it; as
  an invariant of `realtime.cfg` TLC finds it violated within a minute.
* A stream that is held back, stores its turn and whose upstream reports an error
  ends with `Persist`'s error about the missing stop reason: the client gets a
  502 of the gateway and not the `response.failed` with the provider's code that
  `README.md:25` and `COMPATIBILITY.md:33` speak of. `FailureMapped` states it,
  which TLC finds violated as an invariant of `streams.cfg`.

## Observations

What the code does beside, and that the models show or had to make room for. No
document of the repository promises otherwise, except where one is named:

* A token refresh in flight stores its result after a disconnect or a newer
  login of the same provider, and undoes it: `RefreshStored` does not look at
  the store again. A disconnect that waited for `mutationMu` runs although its
  session was signed out meanwhile, and may delete a newer login's tokens. A
  store error after a rotating refresh loses the new refresh token.
* One mutex serves all providers' refreshes and is held over the network, for up
  to the client's timeout.
* The write deadline of a websocket belongs to the connection
  (`transport/websocket/conn.go:112,121`): a write of the other copier between
  `Close`'s deadline and its frame removes the limit, and a session whose peer
  does not read then stays (the exception in `SessionCloses`).
* A realtime client that leaves while its message waits for `setupComplete` is
  not noticed until Gemini sends something or goes away: its copier does not
  read meanwhile. There is no timeout.
* The error event goes out only if the copier that failed ended first, and
  frames of the other copier may follow it. `COMPATIBILITY.md:50` says that
  translation failures after the upgrade are reported as error events; one that
  meets a session which the other side is already closing is not.
* A Gemini usage record that comes with a tool call opens another response,
  which the next answer continues and whose usage it is then counted in. An
  interrupted answer, and a second `session.update`, always end the session.
* Anthropic's `content_block_start` may carry text, which a Responses client
  reads twice, and tool input, which no client reads but which is stored as the
  call's arguments. Deltas of an upstream that goes on after its own error
  follow `response.failed`. `Faithful` and `StoredAsShown` are therefore about
  upstreams that keep to their documented format.
* Gemini's parallel calls of one function without ids: with equal arguments they
  are merged into one call, with different ones the stream fails.
* A stored turn whose upstream gave no response id fails when it is streamed and
  shares `resp_gateway` when it is not.

## Not modelled

The message codecs and compatibility rules of whole messages are stateless
field-by-field conversions: a model would repeat them line by line, and the
table-driven tests beside them reach every branch. The configuration is parsed
once, before anything runs. The HTTP middleware (authentication, request ids,
logging) keeps no state that outlives a request. Secretbox computes on bytes.
Of the SQLite store, schema creation and the sealing of columns are left out; of
the proxies, headers, URLs and the cache of `ReverseProxy` values; of the admin
interface, its forms and pages; of bootstrap, the listener and its shutdown.
What could still be added is finer data: the text of refusals and arguments, and
usage numbers through all formats.
